----------------------------- MODULE Moving_proofs -----------------------------
(***************************************************************************)
(* However moves break off, a conversation goes on somewhere, and what was *)
(* said before it moved to the server is there: for any number of          *)
(* computers, copies and faults.                                           *)
(*                                                                         *)
(* A copy is retired only for one that is there and was made after it      *)
(* (Numbered), so the last copy made is never retired.  That no answer is  *)
(* taken for that of another move, and that a copy does not change while   *)
(* it is sent to the server, is what Ops and Wire say.                     *)
(*                                                                         *)
(* Of one computer, without faults, one copy is left to write to: Single   *)
(* says that only a move that has made the second copy leaves two.         *)
(***************************************************************************)
EXTENDS Moving, TLAPS

-----------------------------------------------------------------------------
(* The invariant *)

\* A retired copy names a later one.
Numbered ==
  \A c \in Made : Moved(c) => copy[c].movedTo \in Made /\ copy[c].movedTo > c

\* What an agent has asked for, it asked in a turn.
Asked ==
  /\ \A c \in Made : copy[c].asked # Nowhere => copy[c].asking # "none"
  /\ \A k \in Computers : \A c \in due[k] \cup listed[k] \cup offered[k] :
       c \in Made /\ copy[c].asking # "none"

\* A computer's move is of a copy there is.  One that goes to the server stays
\* as it was packed, and the answer names a copy that has all of it.
GoodOp(k, o) ==
  o.phase # "none" =>
    /\ o.copy \in Made
    /\ o.by # "user" => copy[o.copy].asking # "none"
    /\ IF o.phase = "import"
       THEN /\ copy[o.copy].place = k
            /\ copy[o.copy].chat = o.chat
            /\ o.answer = "ok" =>
                 /\ o.made \in Made /\ o.made > o.copy
                 /\ o.chat \subseteq copy[o.made].chat
       ELSE copy[o.copy].place = Server

Ops == \A k \in Computers : GoodOp(k, op[k])

PhaseOf(type) ==
  IF type = "Import" THEN "import"
  ELSE IF type = "Export" THEN "export" ELSE "report"

\* A request somebody listens to is the one its computer waits for.
Awaited(r) ==
  LET o == op[r.at] IN
  /\ o.phase = PhaseOf(r.type) /\ o.copy = r.copy /\ o.answer = "none"
  /\ r.type = "Import" => o.chat = r.chat

Wire ==
  /\ \A r \in wire :
       /\ r.copy \in Made
       /\ r.type = "Exported" =>
            /\ copy[r.copy].place = Server
            /\ r.made # NoCopy => r.made \in Made /\ r.made > r.copy
       /\ r.heard => Awaited(r)
  /\ \A r, s \in wire : r.heard /\ s.heard /\ r.at = s.at => r = s

\* The types of what a move reads and writes; the rest is `refresh`.
Types ==
  /\ made \in Copies
  /\ copy \in [Copies -> Copy]
  /\ op \in [Computers -> Op]
  /\ due \in [Computers -> SUBSET Copies]
  /\ listed \in [Computers -> SUBSET Copies]
  /\ offered \in [Computers -> SUBSET Copies]
  /\ wire \subseteq Request
  /\ sent \subseteq Messages
  /\ faults \in 0..MaxFaults

Refreshes == refresh \in [Computers -> BOOLEAN]

Inv == Types /\ Numbered /\ CarriedToServer /\ Asked /\ Ops /\ Wire

LEMMA IdleIsOp == Idle \in Op /\ Idle.phase = "none" /\ Idle.answer = "none"
<1>1. /\ "none" \in Phase /\ NoCopy \in Copies \cup {NoCopy}
      /\ {} \in SUBSET Messages /\ "none" \in {"none", "ok", "error"}
      /\ "user" \in {"user", "agent", "open", "finished", "unfinished"}
  BY DEF Phase
<1> QED BY <1>1, Zenon DEF Idle, Op

LEMMA InvInitially == Init => Inv
<1> SUFFICES ASSUME Init PROVE Inv
  OBVIOUS
<1> USE MovingAssumption
<1>1. PICK k \in Places : copy = [c \in Copies |-> NewCopy(k, {})]
  BY DEF Init
<1>2. /\ made = 1 /\ op = [l \in Computers |-> Idle] /\ wire = {} /\ sent = {}
      /\ faults = 0
      /\ due = [l \in Computers |-> {}] /\ listed = [l \in Computers |-> {}]
      /\ offered = [l \in Computers |-> {}]
  BY DEF Init
<1>3. NewCopy(k, {}) \in Copy
  BY <1>1 DEF NewCopy, Copy, Places, NoCopy
<1>4. Idle \in Op /\ Idle.phase = "none"
  BY IdleIsOp
<1>5. Types
  <2>1. made \in Copies /\ faults \in 0..MaxFaults
    BY <1>2 DEF Copies
  <2>2. copy \in [Copies -> Copy] /\ op \in [Computers -> Op]
    BY <1>1, <1>2, <1>3, <1>4
  <2> QED BY <1>2, <2>1, <2>2 DEF Types
<1>6. \A c \in Made : copy[c].movedTo = NoCopy /\ copy[c].asked = Nowhere
  BY <1>1, <1>2 DEF Made, Copies, NewCopy
<1>7. Numbered /\ CarriedToServer
  BY <1>6 DEF Numbered, CarriedToServer, Moved
<1>8. Asked
  BY <1>2, <1>6 DEF Asked
<1>9. Ops /\ Wire
  BY <1>2, <1>4 DEF Ops, Wire, GoodOp
<1> QED BY <1>5, <1>7, <1>8, <1>9 DEF Inv

-----------------------------------------------------------------------------
(* Steps *)

\* A step that takes nothing from a copy, and leaves one that is sent to the
\* server alone.
Later ==
  /\ made' \in Copies /\ made' >= made
  /\ copy' \in [Copies -> Copy]
  /\ \A c \in Made :
       /\ copy'[c].place = copy[c].place
       /\ copy[c].chat \subseteq copy'[c].chat
       /\ Locked(c) => copy'[c].chat = copy[c].chat
       /\ copy[c].asking # "none" => copy'[c].asking # "none"

\* What is made stays made.
LEMMA MadeGrows ==
  ASSUME Types, Later
  PROVE  /\ Made \subseteq Made' /\ Made \subseteq Copies /\ Made' \subseteq Copies
         /\ made \in Nat /\ made' \in Nat /\ made \in Made
<1>1. made \in Copies /\ made' \in Copies /\ made' >= made /\ MaxCopies \in Nat
  BY MovingAssumption DEF Types, Later
<1> QED BY <1>1 DEF Made, Copies

\* A move that does not change stays a good one.
LEMMA OpStays ==
  ASSUME Inv, Later, NEW k \in Computers, op'[k] = op[k]
  PROVE  GoodOp(k, op[k])'
<1> DEFINE o == op[k]
<1>1. CASE o.phase = "none"
  BY <1>1 DEF GoodOp
<1>2. CASE o.phase # "none"
  <2>1. GoodOp(k, o) /\ Types
    BY DEF Inv, Ops
  <2>2. o.copy \in Made /\ o.copy \in Made'
    BY <1>2, <2>1, MadeGrows DEF GoodOp
  <2>3. o.by # "user" => copy'[o.copy].asking # "none"
    BY <1>2, <2>1, <2>2 DEF GoodOp, Later
  <2>4. CASE o.phase = "import"
    <3>1. Locked(o.copy)
      BY <2>4 DEF Locked
    <3>2. copy'[o.copy].place = k /\ copy'[o.copy].chat = o.chat
      BY <2>1, <2>2, <2>4, <3>1 DEF GoodOp, Later
    <3>3. o.answer = "ok" =>
            /\ o.made \in Made' /\ o.made > o.copy
            /\ o.chat \subseteq copy'[o.made].chat
      BY <2>1, <2>2, <2>4, MadeGrows DEF GoodOp, Later
    <3> QED BY <2>2, <2>3, <2>4, <3>2, <3>3 DEF GoodOp
  <2>5. CASE o.phase # "import"
    <3>1. copy'[o.copy].place = Server
      BY <1>2, <2>1, <2>2, <2>5 DEF GoodOp, Later
    <3> QED BY <2>2, <2>3, <2>5, <3>1 DEF GoodOp
  <2> QED BY <2>4, <2>5
<1> QED BY <1>1, <1>2

\* What a request says of the copies.
Sound(r) ==
  /\ r.copy \in Made
  /\ r.type = "Exported" =>
       /\ copy[r.copy].place = Server
       /\ r.made # NoCopy => r.made \in Made /\ r.made > r.copy

LEMMA SoundStays ==
  ASSUME Inv, Later, NEW r, Sound(r)
  PROVE  Sound(r)'
<1>1. Types
  BY DEF Inv
<1>2. r.copy \in Made'
  BY <1>1, MadeGrows DEF Sound
<1>3. r.type = "Exported" => copy'[r.copy].place = Server
  BY DEF Sound, Later
<1> QED BY <1>1, <1>2, <1>3, MadeGrows DEF Sound

LEMMA WireIsSound ==
  ASSUME Wire
  PROVE  /\ \A r \in wire : Sound(r) /\ (r.heard => Awaited(r))
         /\ \A r, s \in wire : r.heard /\ s.heard /\ r.at = s.at => r = s
  BY DEF Wire, Sound

LEMMA SoundIsWire ==
  ASSUME \A r \in wire : Sound(r) /\ (r.heard => Awaited(r)),
         \A r, s \in wire : r.heard /\ s.heard /\ r.at = s.at => r = s
  PROVE  Wire
  BY DEF Wire, Sound

\* Nobody starts, ends or answers a move.
LEMMA MovesStay ==
  ASSUME Inv, Later, UNCHANGED <<op, wire>>
  PROVE  Ops' /\ Wire'
<1>1. Ops'
  BY OpStays DEF Ops
<1>2. \A r \in wire' : Sound(r)' /\ (r.heard => Awaited(r))'
  BY SoundStays, WireIsSound DEF Inv, Awaited
<1>3. \A r, s \in wire' : r.heard /\ s.heard /\ r.at = s.at => r = s
  BY WireIsSound DEF Inv
<1>4. Wire'
  BY <1>2, <1>3 DEF Wire, Sound
<1> QED BY <1>1, <1>4

\* The other computers go on with the moves they make.
Others(k) == \A l \in Computers \ {k} : op'[l] = op[l]

LEMMA OneOp ==
  ASSUME Inv, Later, NEW k \in Computers, Others(k), GoodOp(k, op[k])'
  PROVE  Ops'
<1>1. ASSUME NEW l \in Computers PROVE GoodOp(l, op[l])'
  <2>1. CASE l = k
    BY <2>1
  <2>2. CASE l # k
    BY <2>2, OpStays DEF Others
  <2> QED BY <2>1, <2>2
<1> QED BY <1>1 DEF Ops

\* Requests go, or are no longer listened to.
LEMMA WireShrinks ==
  ASSUME Inv, Later, NEW k \in Computers, Others(k),
         \A r \in wire' :
            \/ r \in wire /\ (r.at # k \/ ~r.heard)
            \/ ~r.heard /\ \E s \in wire : r.copy = s.copy /\ r.type = s.type
                                           /\ r.made = s.made
  PROVE  Wire'
<1>0. wire \subseteq Request /\ \A r \in Request : r.at \in Computers
  BY DEF Inv, Types, Request
<1>1. ASSUME NEW r \in wire' PROVE Sound(r)' /\ (r.heard => Awaited(r))'
  <2>1. CASE r \in wire /\ (r.at # k \/ ~r.heard)
    <3>1. Sound(r) /\ (r.heard => Awaited(r))
      BY <2>1, WireIsSound DEF Inv
    <3>2. r.heard => op'[r.at] = op[r.at]
      BY <1>0, <2>1 DEF Others
    <3> QED BY <3>1, <3>2, SoundStays DEF Awaited
  <2>2. CASE /\ ~r.heard
             /\ \E s \in wire : r.copy = s.copy /\ r.type = s.type
                                /\ r.made = s.made
    <3>1. Sound(r)
      BY <2>2, WireIsSound DEF Sound, Inv
    <3> QED BY <2>2, <3>1, SoundStays
  <2> QED BY <1>1, <2>1, <2>2
<1>2. \A r, s \in wire' : r.heard /\ s.heard /\ r.at = s.at => r = s
  BY WireIsSound DEF Inv
<1>3. Wire'
  BY <1>1, <1>2 DEF Wire, Sound
<1> QED BY <1>3

\* A computer that waits for no answer has no request that is listened to.
LEMMA NobodyListens ==
  ASSUME Inv, NEW k \in Computers,
         op[k].phase \in {"none", "place"} \/ op[k].answer # "none",
         NEW r \in wire, r.at = k
  PROVE  ~r.heard
<1>1. /\ r.type \in {"Import", "Export", "Exported"}
      /\ r.heard => Awaited(r)
  BY WireIsSound DEF Inv, Types, Request
<1>2. PhaseOf(r.type) \in {"import", "export", "report"}
  BY <1>1 DEF PhaseOf
<1> QED BY <1>1, <1>2 DEF Awaited

\* A computer that waits for no answer sends a request.
LEMMA WireGrows ==
  ASSUME Inv, Later, NEW k \in Computers, Others(k),
         op[k].phase \in {"none", "place"} \/ op[k].answer # "none",
         NEW q, wire' = wire \cup {q}, q.at = k, Sound(q)', Awaited(q)'
  PROVE  Wire'
<1>0. wire \subseteq Request /\ \A r \in Request : r.at \in Computers
  BY DEF Inv, Types, Request
<1>1. ASSUME NEW r \in wire PROVE Sound(r)' /\ (r.heard => Awaited(r))'
  <2>1. Sound(r) /\ (r.heard => Awaited(r))
    BY WireIsSound DEF Inv
  <2>2. r.heard => op'[r.at] = op[r.at]
    BY <1>0, NobodyListens DEF Others
  <2> QED BY <2>1, <2>2, SoundStays DEF Awaited
<1>2. \A r, s \in wire' : r.heard /\ s.heard /\ r.at = s.at => r = s
  BY WireIsSound, NobodyListens DEF Inv
<1>3. \A r \in wire' : Sound(r)' /\ (r.heard => Awaited(r))'
  BY <1>1
<1>4. Wire'
  BY <1>2, <1>3 DEF Wire, Sound
<1> QED BY <1>4

-----------------------------------------------------------------------------
(* Records of copies *)

\* No copy is made or retired.
Kept ==
  /\ Later /\ made' = made
  /\ \A c \in Made :
       /\ copy'[c].movedTo = copy[c].movedTo
       /\ Moved(c) => copy'[c].chat = copy[c].chat
       /\ copy'[c].asked # Nowhere => copy'[c].asking # "none"

AskedThen ==
  \A k \in Computers : \A c \in due'[k] \cup listed'[k] \cup offered'[k] :
    c \in Made /\ copy[c].asking # "none"

LEMMA RecordsKept ==
  ASSUME Inv, Kept, AskedThen
  PROVE  Numbered' /\ CarriedToServer' /\ Asked'
<1>1. Types /\ Later /\ made' = made
  BY DEF Inv, Kept
<1>2. Made' = Made
  BY <1>1 DEF Made
<1>3. Numbered'
  BY <1>2 DEF Numbered, Inv, Kept, Moved
<1>4. CarriedToServer'
  <2> SUFFICES ASSUME NEW c \in Made, copy'[c].movedTo # NoCopy,
                      copy'[c].place # Server
               PROVE  /\ copy'[c].movedTo \in Made
                      /\ copy'[c].chat \subseteq copy'[copy'[c].movedTo].chat
    BY <1>2 DEF CarriedToServer, Moved
  <2>1. /\ copy'[c].movedTo = copy[c].movedTo /\ copy'[c].place = copy[c].place
        /\ Moved(c) /\ copy'[c].chat = copy[c].chat
    BY DEF Kept, Later, Moved
  <2>2. copy[c].movedTo \in Made /\ copy[c].chat \subseteq copy[copy[c].movedTo].chat
    BY <2>1 DEF Inv, CarriedToServer
  <2>3. copy[copy[c].movedTo].chat \subseteq copy'[copy[c].movedTo].chat
    BY <2>2 DEF Kept, Later
  <2> QED BY <2>1, <2>2, <2>3
<1>5. Asked'
  BY <1>1, <1>2 DEF Asked, AskedThen, Kept, Later
<1> QED BY <1>3, <1>4, <1>5

LEMMA NewIsCopy ==
  ASSUME NEW p \in Places, NEW chat \in SUBSET Messages
  PROVE  /\ NewCopy(p, chat) \in Copy
         /\ NewCopy(p, chat).movedTo = NoCopy /\ NewCopy(p, chat).chat = chat
         /\ NewCopy(p, chat).place = p /\ NewCopy(p, chat).asked = Nowhere
<1>1. /\ "ready" \in {"running", "ready", "interrupted"} /\ FALSE \in BOOLEAN
      /\ NoCopy \in Copies \cup {NoCopy}
      /\ Nowhere \in Places \cup {Nowhere} /\ Nowhere \in Computers \cup {Nowhere}
      /\ "none" \in {"none", "open", "finished", "unfinished"}
  OBVIOUS
<1> QED BY <1>1, Zenon DEF NewCopy, Copy

\* A copy is made.
LEMMA CopyMade ==
  ASSUME Inv, made < MaxCopies, made' = made + 1,
         NEW p \in Places, NEW chat \in SUBSET Messages,
         copy' = [copy EXCEPT ![made'] = NewCopy(p, chat)],
         UNCHANGED <<due, listed, offered>>
  PROVE  /\ Later /\ Numbered' /\ CarriedToServer' /\ Asked'
         /\ made' \in Made' /\ copy'[made'].chat = chat
         /\ \A c \in Made : c < made' /\ c # made' /\ copy'[c] = copy[c]
<1>1. /\ made \in Copies /\ copy \in [Copies -> Copy] /\ MaxCopies \in Nat
      /\ Numbered /\ CarriedToServer /\ Asked
  BY MovingAssumption DEF Inv, Types
<1>2. made \in Nat /\ made' \in Copies /\ made' \in Made' /\ Made \subseteq Copies
      /\ Made \subseteq Made' /\ Made' = Made \cup {made'}
      /\ \A c \in Made : c < made' /\ c # made'
  BY <1>1 DEF Copies, Made
<1>3. copy' \in [Copies -> Copy] /\ copy'[made'] = NewCopy(p, chat)
      /\ \A c \in Made : copy'[c] = copy[c]
  BY <1>1, <1>2, NewIsCopy
<1>4. Later
  BY <1>1, <1>2, <1>3 DEF Later
<1>5. copy'[made'].movedTo = NoCopy /\ copy'[made'].asked = Nowhere
      /\ copy'[made'].chat = chat
  BY <1>3, NewIsCopy
<1>6. Numbered'
  BY <1>1, <1>2, <1>3, <1>5 DEF Numbered, Moved
<1>7. CarriedToServer'
  BY <1>1, <1>2, <1>3, <1>5 DEF CarriedToServer, Moved
<1>8. Asked'
  BY <1>1, <1>2, <1>3, <1>5 DEF Asked
<1> QED BY <1>2, <1>3, <1>4, <1>5, <1>6, <1>7, <1>8

\* Copy d is retired for a later one, which has its chat if d is a computer's.
LEMMA CopyRetired ==
  ASSUME Inv, made' = made, NEW d \in Made, NEW n \in Made, n > d,
         copy' \in [Copies -> Copy],
         \A c \in Made \ {d} : copy'[c] = copy[c],
         copy'[d].movedTo = n, copy'[d].chat = copy[d].chat,
         copy'[d].place = copy[d].place, copy'[d].asked = Nowhere,
         copy[d].asking # "none" => copy'[d].asking # "none",
         copy[d].place # Server => copy[d].chat \subseteq copy[n].chat,
         UNCHANGED <<due, listed, offered>>
  PROVE  Later /\ Numbered' /\ CarriedToServer' /\ Asked'
<1>1. /\ made \in Copies /\ copy \in [Copies -> Copy] /\ MaxCopies \in Nat
      /\ Numbered /\ CarriedToServer /\ Asked
  BY MovingAssumption DEF Inv, Types
<1>2. Made' = Made /\ made >= made
  BY <1>1 DEF Made, Copies
<1>3. Later
  BY <1>1, <1>2 DEF Later
<1>4. Numbered'
  BY <1>1, <1>2 DEF Numbered, Moved
<1>5. CarriedToServer'
  <2>1. \A c \in Made : copy'[c].chat = copy[c].chat /\ copy'[c].place = copy[c].place
    OBVIOUS
  <2> QED BY <1>1, <1>2, <2>1 DEF CarriedToServer, Moved
<1>6. Asked'
  BY <1>1, <1>2 DEF Asked
<1> QED BY <1>3, <1>4, <1>5, <1>6

-----------------------------------------------------------------------------
(* The session *)

\* The parts of the type invariant a step of the session can disturb.
LEMMA SessionStep ==
  ASSUME Inv, Kept, AskedThen, UNCHANGED <<op, wire>>, sent' \subseteq Messages,
         due' \in [Computers -> SUBSET Copies],
         listed' \in [Computers -> SUBSET Copies],
         offered' \in [Computers -> SUBSET Copies],
         faults' = faults
  PROVE  Inv'
<1>1. Types /\ Later
  BY DEF Inv, Kept
<1>2. Types'
  BY <1>1 DEF Types, Later, Op, Request
<1>3. Ops' /\ Wire'
  BY <1>1, MovesStay
<1> QED BY <1>2, <1>3, RecordsKept DEF Inv

\* Copy c changes, and is not retired.
LEMMA CopyChanged ==
  ASSUME Inv, NEW c \in Made, made' = made,
         copy' \in [Copies -> Copy], \A d \in Made \ {c} : copy'[d] = copy[d],
         copy'[c].place = copy[c].place, copy'[c].movedTo = copy[c].movedTo,
         copy[c].chat \subseteq copy'[c].chat,
         Locked(c) \/ Moved(c) => copy'[c].chat = copy[c].chat,
         copy[c].asking # "none" => copy'[c].asking # "none",
         copy'[c].asked # Nowhere => copy'[c].asking # "none"
  PROVE  Kept
<1>1. made' \in Copies /\ made' >= made
  BY MovingAssumption DEF Inv, Types, Copies
<1>2. Asked
  BY DEF Inv
<1>3. Later
  BY <1>1 DEF Later
<1> QED BY <1>2, <1>3 DEF Kept, Asked

\* The same step, when the lists of what is asked for do not change.
LEMMA CopyStep ==
  ASSUME Inv, Kept, UNCHANGED <<op, wire, due, listed, offered, faults>>,
         sent' \subseteq Messages
  PROVE  Inv'
<1>1. AskedThen
  BY DEF Inv, Asked, AskedThen
<1> QED BY <1>1, SessionStep DEF Inv, Types

LEMMA Records ==
  ASSUME Inv
  PROVE  /\ copy \in [Copies -> Copy] /\ Made \subseteq Copies
         /\ \A c \in Made : /\ copy[c] \in Copy /\ c \in Copies
                            /\ copy[c].asked # Nowhere => copy[c].asking # "none"
         /\ Nowhere \notin Places /\ sent \subseteq Messages
<1>1. made \in Copies /\ copy \in [Copies -> Copy] /\ sent \subseteq Messages
  BY DEF Inv, Types
<1>2. Made \subseteq Copies
  BY <1>1, MovingAssumption DEF Made, Copies
<1> QED BY <1>1, <1>2, MovingAssumption DEF Inv, Asked, Places

LEMMA MessageKeeps ==
  ASSUME Inv, NEW c \in Made, NEW m \in Messages,
         NEW k \in Computers \cup {Nowhere}, Message(c, m, k)
  PROVE  Inv'
<1>1. copy' \in [Copies -> Copy]
  BY Records DEF Message, Copy
<1>2. Kept
  BY <1>1, Records, CopyChanged DEF Message, Copy, Accepts
<1> QED BY <1>2, Records, CopyStep DEF Message

LEMMA AskKeeps ==
  ASSUME Inv, NEW c \in Made, Ask(c)
  PROVE  Inv'
<1>1. copy' \in [Copies -> Copy]
  BY Records DEF Ask, Copy, Places
<1>2. Kept
  BY <1>1, Records, CopyChanged DEF Ask, Copy
<1> QED BY <1>2, Records, CopyStep DEF Ask

LEMMA EndTurnKeeps ==
  ASSUME Inv, NEW c \in Made, EndTurn(c)
  PROVE  Inv'
<1>1. copy' \in [Copies -> Copy]
  BY Records DEF EndTurn, Copy
<1>2. Kept
  BY <1>1, Records, CopyChanged DEF EndTurn, Copy
<1> QED BY <1>2, Records, CopyStep DEF EndTurn

LEMMA FlagSet ==
  ASSUME NEW x \in Copy, NEW flag \in BOOLEAN
  PROVE  [x EXCEPT !.archived = flag] \in Copy
  BY DEF Copy

LEMMA ArchiveKeeps ==
  ASSUME Inv, NEW c \in Made, Archive(c)
  PROVE  Inv'
<1> DEFINE set == [copy[c] EXCEPT !.archived = TRUE]
<1>0. set \in Copy
  BY FlagSet, Records
<1>1. copy' \in [Copies -> Copy]
  <2>1. copy' = [copy EXCEPT ![c] =
           [set EXCEPT !.state = IF @ = "running" THEN "interrupted" ELSE @,
                       !.asking = IF @ = "open" THEN "unfinished" ELSE @]]
    BY Records DEF Archive, Copy
  <2>2. [set EXCEPT !.state = IF @ = "running" THEN "interrupted" ELSE @,
                    !.asking = IF @ = "open" THEN "unfinished" ELSE @] \in Copy
    <3> HIDE DEF set
    <3> QED BY <1>0 DEF Copy
  <2> QED BY <2>1, <2>2, Records
<1>2. Kept
  BY <1>1, Records, CopyChanged DEF Archive, Copy
<1> QED BY <1>2, Records, CopyStep DEF Archive

LEMMA UnarchiveKeeps ==
  ASSUME Inv, NEW c \in Made, Unarchive(c)
  PROVE  Inv'
<1>1. copy' \in [Copies -> Copy]
  <2>1. copy' = [copy EXCEPT ![c] = [copy[c] EXCEPT !.archived = FALSE]]
    BY DEF Unarchive
  <2> QED BY <2>1, FlagSet, Records
<1>2. Kept
  BY <1>1, Records, CopyChanged DEF Unarchive, Copy
<1> QED BY <1>2, Records, CopyStep DEF Unarchive

LEMMA CancelReturnKeeps ==
  ASSUME Inv, NEW c \in Made, CancelReturn(c)
  PROVE  Inv'
<1>1. copy' \in [Copies -> Copy]
  BY Records DEF CancelReturn, Copy
<1>2. Kept
  BY <1>1, Records, CopyChanged DEF CancelReturn, Copy
<1> QED BY <1>2, Records, CopyStep DEF CancelReturn

LEMMA ScheduledMoveKeeps ==
  ASSUME Inv, NEW c \in Made, ScheduledMove(c)
  PROVE  Inv'
<1>1. copy' \in [Copies -> Copy]
  BY Records DEF ScheduledMove, Copy
<1>2. Kept
  BY <1>1, Records, CopyChanged DEF ScheduledMove, Copy
<1>3. /\ due \in [Computers -> SUBSET Copies]
      /\ listed \in [Computers -> SUBSET Copies]
      /\ offered \in [Computers -> SUBSET Copies]
  BY DEF Inv, Types
<1>4. due' \in [Computers -> SUBSET Copies]
  BY <1>3, Records DEF ScheduledMove
<1>5. copy[c].asking # "none" /\ Asked
  BY Records DEF ScheduledMove, Inv
<1>6. \A k \in Computers : due'[k] \subseteq due[k] \cup {c}
  BY <1>3 DEF ScheduledMove
<1>7. AskedThen
  BY <1>5, <1>6 DEF AskedThen, Asked, ScheduledMove
<1> QED BY <1>2, <1>3, <1>4, <1>7, Records, SessionStep DEF ScheduledMove

-----------------------------------------------------------------------------
(* The lists of what is asked for *)

LEMMA ListsStep ==
  ASSUME Inv, AskedThen, UNCHANGED <<made, copy, op, wire, sent, faults>>,
         due' \in [Computers -> SUBSET Copies],
         listed' \in [Computers -> SUBSET Copies],
         offered' \in [Computers -> SUBSET Copies]
  PROVE  Inv'
<1>1. made' \in Copies /\ made' >= made
  BY MovingAssumption DEF Inv, Types, Copies
<1>2. Later
  BY <1>1, Records DEF Later
<1>3. Kept
  BY <1>2, Records DEF Kept
<1> QED BY <1>3, Records, SessionStep

LEMMA Lists ==
  ASSUME Inv
  PROVE  /\ due \in [Computers -> SUBSET Copies]
         /\ listed \in [Computers -> SUBSET Copies]
         /\ offered \in [Computers -> SUBSET Copies]
         /\ \A k \in Computers : \A c \in due[k] \cup listed[k] \cup offered[k] :
              c \in Made /\ copy[c].asking # "none"
  BY DEF Inv, Types, Asked

LEMMA ListKeeps ==
  ASSUME Inv, NEW k \in Computers, Poll(k) \/ List(k)
  PROVE  Inv'
<1> DEFINE new == {c \in At(Server) : copy[c].asked = k /\ copy[c].state # "running"}
<1>1. \A c \in new : c \in Made /\ c \in Copies /\ copy[c].asking # "none"
  BY Records DEF At, Places
<1>2. listed' = [listed EXCEPT ![k] = new]
  BY DEF Poll, List, Listed
<1> HIDE DEF new
<1>3. listed' \in [Computers -> SUBSET Copies]
  BY <1>1, <1>2, Lists
<1>4. AskedThen
  BY <1>1, <1>2, Lists DEF AskedThen, Poll, List
<1> QED BY <1>3, <1>4, Lists, ListsStep DEF Poll, List

LEMMA ReturnKeeps ==
  ASSUME Inv, NEW k \in Computers, NEW c \in Made, Return(k, c)
  PROVE  Inv'
<1>1. /\ offered' \in [Computers -> SUBSET Copies]
      /\ due' \in [Computers -> SUBSET Copies]
  BY Lists, Records DEF Return
<1>2. AskedThen
  BY Lists DEF AskedThen, Return
<1> QED BY <1>1, <1>2, Lists, ListsStep DEF Return

LEMMA ForgetKeeps ==
  ASSUME Inv, NEW k \in Computers, NEW c \in Made, Forget(k, c)
  PROVE  Inv'
<1>1. offered' \in [Computers -> SUBSET Copies]
  BY Lists, Records DEF Forget
<1>2. AskedThen
  BY Lists DEF AskedThen, Forget
<1> QED BY <1>1, <1>2, Lists, ListsStep DEF Forget

-----------------------------------------------------------------------------
(* Moves and requests *)

LEMMA Moves ==
  ASSUME Inv
  PROVE  /\ op \in [Computers -> Op] /\ wire \subseteq Request
         /\ \A k \in Computers : op[k] \in Op /\ GoodOp(k, op[k])
         /\ made \in Nat /\ made \in Copies /\ made \in Made
         /\ Made \subseteq Copies
  <1>1. made \in Copies /\ MaxCopies \in Nat /\ op \in [Computers -> Op]
        /\ wire \subseteq Request /\ Ops
    BY MovingAssumption DEF Inv, Types
  <1>2. made \in Nat /\ made \in Made /\ Made \subseteq Copies
    BY <1>1 DEF Made, Copies
  <1> QED BY <1>1, <1>2 DEF Ops

RequestOf(k, type, c, chat, n) ==
  [type |-> type, at |-> k, copy |-> c, chat |-> chat, made |-> n, heard |-> TRUE]

LEMMA RequestTyped ==
  ASSUME NEW k \in Computers, NEW type \in {"Import", "Export", "Exported"},
         NEW c \in Copies, NEW chat \in SUBSET Messages,
         NEW n \in Copies \cup {NoCopy}
  PROVE  /\ RequestOf(k, type, c, chat, n) \in Request
         /\ ToServer(k, type, c, chat, n) = wire \cup {RequestOf(k, type, c, chat, n)}
<1>1. TRUE \in BOOLEAN
  OBVIOUS
<1>2. RequestOf(k, type, c, chat, n) \in Request
  BY <1>1, Zenon DEF RequestOf, Request
<1> QED BY <1>2, Zenon DEF RequestOf, ToServer

LEMMA RequestFields ==
  ASSUME NEW k, NEW type, NEW c, NEW chat, NEW n
  PROVE  LET q == RequestOf(k, type, c, chat, n) IN
         /\ q.type = type /\ q.at = k /\ q.copy = c /\ q.chat = chat
         /\ q.made = n
  BY Zenon DEF RequestOf

\* A step that leaves what is asked for and was sent as it is.
LEMMA MoveTyped ==
  ASSUME Inv, Later, op' \in [Computers -> Op], wire' \subseteq Request,
         UNCHANGED <<listed, offered, sent>>,
         due' \in [Computers -> SUBSET Copies], faults' \in 0..MaxFaults
  PROVE  Types'
<1>1. Types
  BY DEF Inv
<1> QED BY <1>1 DEF Types, Later, Op, Request, Copy, Copies, Places

\* A step that leaves the copies as they are.
LEMMA NothingMade ==
  ASSUME Inv, UNCHANGED <<made, copy>>
  PROVE  Kept /\ Later
<1>1. made' \in Copies /\ made' >= made
  BY MovingAssumption DEF Inv, Types, Copies
<1>2. Later
  BY <1>1, Records DEF Later
<1> QED BY <1>2, Records DEF Kept

LEMMA AskedStays ==
  ASSUME Inv, UNCHANGED <<listed, offered>>,
         \A k \in Computers : due'[k] \subseteq due[k]
  PROVE  AskedThen
  BY Lists DEF AskedThen

\* A move is started.
StartedOp(phase, c, chat, by) ==
  [Idle EXCEPT !.phase = phase, !.copy = c, !.chat = chat, !.by = by]

LEMMA StartedIsOp ==
  ASSUME NEW phase \in Phase, NEW c \in Copies, NEW chat \in SUBSET Messages,
         NEW by \in {"user", "agent", "open", "finished", "unfinished"}
  PROVE  LET o == StartedOp(phase, c, chat, by) IN
         /\ o \in Op /\ o.phase = phase /\ o.copy = c /\ o.chat = chat
         /\ o.by = by /\ o.answer = "none"
  BY DEF Idle, Op, StartedOp

LEMMA StartKeeps ==
  ASSUME Inv, NEW k \in Computers, NEW c \in Made, NEW by \in {"user", "agent"},
         by # "user" => copy[c].asking # "none",
         MoveToServer(k, c, by) \/ MoveHere(k, c, by), UNCHANGED <<made, copy>>
  PROVE  Ops' /\ Wire' /\ op' \in [Computers -> Op] /\ wire' \subseteq Request
<1>1. /\ op \in [Computers -> Op] /\ wire \subseteq Request /\ c \in Copies
      /\ copy[c] \in Copy /\ Later /\ Made' = Made
  BY Moves, Records, NothingMade DEF Made
<1>2. op[k] = Idle /\ op[k].phase = "none"
  BY IdleIsOp DEF MoveToServer, MoveHere
<1>3. CASE MoveToServer(k, c, by)
  <2> DEFINE who == IF by = "user" THEN by ELSE copy[c].asking
             o == StartedOp("import", c, copy[c].chat, who)
  <2>1. who \in {"user", "agent", "open", "finished", "unfinished"}
        /\ copy[c].chat \in SUBSET Messages /\ copy[c].place = k
        /\ (who # "user" => copy[c].asking # "none")
    BY <1>1, <1>3 DEF Copy, MoveToServer
  <2> HIDE DEF who
  <2>2. /\ o \in Op /\ o.phase = "import" /\ o.copy = c
        /\ o.chat = copy[c].chat /\ o.by = who /\ o.answer = "none"
    BY <1>1, <2>1, StartedIsOp DEF Phase
  <2>3. op' = [op EXCEPT ![k] = o]
    BY <1>3, Zenon DEF MoveToServer, Started, StartedOp, who
  <2> HIDE DEF o
  <2>4. op' \in [Computers -> Op] /\ op'[k] = o /\ Others(k)
    BY <1>1, <2>2, <2>3 DEF Others
  <2>5. GoodOp(k, op[k])'
    BY <1>1, <2>1, <2>2, <2>4 DEF GoodOp
  <2>q. PICK q : q = RequestOf(k, "Import", c, copy[c].chat, NoCopy)
    OBVIOUS
  <2>6. q \in Request /\ wire' = wire \cup {q}
    BY <1>1, <1>3, <2>1, <2>q, RequestTyped DEF MoveToServer
  <2>7. q.type = "Import" /\ q.at = k /\ q.copy = c /\ q.chat = copy[c].chat
    BY <2>q, RequestFields
  <2>8. Sound(q)' /\ Awaited(q)'
    BY <1>1, <2>2, <2>4, <2>7 DEF Sound, Awaited, PhaseOf
  <2>9. Wire'
    BY <1>1, <1>2, <2>4, <2>6, <2>7, <2>8, WireGrows
  <2> QED BY <1>1, <2>4, <2>5, <2>6, <2>9, OneOp
<1>4. CASE MoveHere(k, c, by)
  <2> DEFINE o == StartedOp("export", c, {}, by)
  <2>1. {} \in SUBSET Messages /\ copy[c].place = Server
    BY <1>4 DEF MoveHere
  <2>2. /\ o \in Op /\ o.phase = "export" /\ o.copy = c
        /\ o.by = by /\ o.answer = "none"
    BY <1>1, <2>1, StartedIsOp DEF Phase
  <2>3. op' = [op EXCEPT ![k] = o]
    BY <1>4, Zenon DEF MoveHere, Started, StartedOp
  <2> HIDE DEF o
  <2>4. op' \in [Computers -> Op] /\ op'[k] = o /\ Others(k)
    BY <1>1, <2>2, <2>3 DEF Others
  <2>5. GoodOp(k, op[k])'
    BY <1>1, <2>1, <2>2, <2>4 DEF GoodOp
  <2>q. PICK q : q = RequestOf(k, "Export", c, {}, NoCopy)
    OBVIOUS
  <2>6. q \in Request /\ wire' = wire \cup {q}
    BY <1>1, <1>4, <2>1, <2>q, RequestTyped DEF MoveHere
  <2>7. q.type = "Export" /\ q.at = k /\ q.copy = c
    BY <2>q, RequestFields
  <2>8. Sound(q)' /\ Awaited(q)'
    BY <1>1, <2>2, <2>4, <2>7 DEF Sound, Awaited, PhaseOf
  <2>9. Wire'
    BY <1>1, <1>2, <2>4, <2>6, <2>7, <2>8, WireGrows
  <2> QED BY <1>1, <2>4, <2>5, <2>6, <2>9, OneOp
<1> QED BY <1>3, <1>4 

LEMMA FaultsTyped ==
  ASSUME Inv
  PROVE  faults \in 0..MaxFaults /\ (Fault => faults' \in 0..MaxFaults)
  BY MovingAssumption DEF Inv, Types, Fault

LEMMA MoveKeeps ==
  ASSUME Inv, NEW k \in Computers, NEW c \in Made, Move(k, c)
  PROVE  Inv'
<1>1. Ops' /\ Wire' /\ op' \in [Computers -> Op] /\ wire' \subseteq Request
  BY StartKeeps DEF Move
<1>2. Kept /\ Later
  BY NothingMade DEF Move
<1>3. AskedThen
  BY AskedStays DEF Move
<1>4. Types'
  BY <1>1, <1>2, Lists, FaultsTyped, MoveTyped DEF Move
<1> QED BY <1>1, <1>2, <1>3, <1>4, RecordsKept DEF Inv

LEMMA MoveDueKeeps ==
  ASSUME Inv, NEW k \in Computers, NEW c \in Made, MoveDue(k, c)
  PROVE  Inv'
<1>1. Kept /\ Later /\ UNCHANGED <<made, copy>>
  BY NothingMade DEF MoveDue
<1>2. Ops' /\ Wire' /\ op' \in [Computers -> Op] /\ wire' \subseteq Request
  <2>1. CASE MoveToServer(k, c, "agent") \/ MoveHere(k, c, "agent")
    <3>1. copy[c].asking # "none"
      BY Lists DEF MoveDue
    <3> QED BY <1>1, <2>1, <3>1, StartKeeps
  <2>2. CASE UNCHANGED <<op, wire>>
    <3>1. op \in [Computers -> Op] /\ wire \subseteq Request
      BY Moves
    <3> QED BY <1>1, <2>2, <3>1, MovesStay
  <2> QED BY <2>1, <2>2 DEF MoveDue
<1>3. due' \in [Computers -> SUBSET Copies]
  BY Lists DEF MoveDue
<1>4. AskedThen
  BY Lists, AskedStays DEF MoveDue
<1>5. Types'
  BY <1>1, <1>2, <1>3, FaultsTyped, MoveTyped DEF MoveDue
<1> QED BY <1>1, <1>2, <1>4, <1>5, RecordsKept DEF Inv

-----------------------------------------------------------------------------
(* The computer's side *)

\* A computer's move ends, or goes on, after an answer it has heard.
LEMMA Heard ==
  ASSUME Inv, Later, NEW k \in Computers, NEW o \in Op,
         op' = [op EXCEPT ![k] = o], wire' = wire, GoodOp(k, o)',
         op[k].phase \in {"none", "place"} \/ op[k].answer # "none"
  PROVE  Ops' /\ Wire' /\ op' \in [Computers -> Op]
<1>1. op' \in [Computers -> Op] /\ op'[k] = o /\ Others(k)
  BY Moves DEF Others
<1>2. Wire'
  BY <1>1, NobodyListens, WireShrinks
<1>3. GoodOp(k, op[k])'
  BY <1>1
<1> QED BY <1>1, <1>2, <1>3, OneOp

LEMMA IdleIsGood == \A k : GoodOp(k, Idle)'
  BY IdleIsOp DEF GoodOp

LEMMA RetireKeeps ==
  ASSUME Inv, NEW k \in Computers, Retire(k)
  PROVE  Inv'
<1> DEFINE o == op[k]
<1>1. o \in Op /\ GoodOp(k, o) /\ o.phase = "import" /\ o.answer # "none"
  BY Moves DEF Retire
<1>2. Idle \in Op
  BY IdleIsOp
<1>3. AskedThen
  BY AskedStays DEF Retire
<1>4. Later /\ Numbered' /\ CarriedToServer' /\ Asked'
  <2>1. CASE o.answer = "error"
    <3>1. Kept /\ Later
      BY <2>1, NothingMade DEF Retire
    <3> QED BY <1>3, <3>1, RecordsKept
  <2>2. CASE o.answer # "error"
    <3> PICK d \in Made : d = o.copy
      BY <1>1 DEF GoodOp
    <3> PICK n : n = o.made
      OBVIOUS
    <3>1. o.answer = "ok"
      BY <1>1, <2>2 DEF Op
    <3>2. /\ n \in Made /\ n > d /\ copy[d].chat \subseteq copy[n].chat
          /\ copy[d].place = k
      BY <1>1, <3>1 DEF GoodOp
    <3>3. /\ copy[d] \in Copy /\ copy \in [Copies -> Copy]
          /\ d \in Copies /\ n \in Copies
      BY <3>2, Records
    <3> DEFINE set == [copy[d] EXCEPT !.archived = TRUE]
               new == [set EXCEPT !.movedTo = n, !.asked = Nowhere]
    <3>4. set \in Copy
      BY <3>3, FlagSet
    <3>5. new \in Copy
      <4> HIDE DEF set
      <4> QED BY <3>3, <3>4 DEF Copy
    <3>6. /\ new.movedTo = n /\ new.asked = Nowhere /\ new.chat = copy[d].chat
          /\ new.place = copy[d].place /\ new.asking = copy[d].asking
      BY <3>3 DEF Copy
    <3>7. copy' = [copy EXCEPT ![d] = new]
      BY <2>2, <3>3 DEF Retire, Copy
    <3> HIDE DEF new
    <3>8. copy' \in [Copies -> Copy] /\ copy'[d] = new
          /\ \A c \in Made \ {d} : copy'[c] = copy[c]
      BY <3>3, <3>5, <3>7, Records
    <3> QED BY <3>2, <3>6, <3>8, CopyRetired DEF Retire
  <2> QED BY <2>1, <2>2
<1>5. Ops' /\ Wire' /\ op' \in [Computers -> Op]
  BY <1>1, <1>2, <1>4, IdleIsGood, Heard DEF Retire
<1>6. Types'
  BY <1>4, <1>5, Moves, Lists, FaultsTyped, MoveTyped DEF Retire
<1> QED BY <1>4, <1>5, <1>6 DEF Inv

LEMMA ReportedKeeps ==
  ASSUME Inv, NEW k \in Computers, Reported(k)
  PROVE  Inv'
<1>1. Kept /\ Later
  BY NothingMade DEF Reported
<1>2. AskedThen
  BY AskedStays DEF Reported
<1>3. Ops' /\ Wire' /\ op' \in [Computers -> Op]
  BY <1>1, IdleIsOp, IdleIsGood, Heard DEF Reported
<1>4. Types'
  BY <1>1, <1>3, Moves, Lists, FaultsTyped, MoveTyped DEF Reported
<1> QED BY <1>1, <1>2, <1>3, <1>4, RecordsKept DEF Inv

\* A computer says how it went: to which copy the conversation has come.
LEMMA ReportingKeeps ==
  ASSUME Inv, Later, NEW k \in Computers, NEW n \in Copies \cup {NoCopy},
         op[k].phase \in {"export", "place"},
         op[k].phase = "place" \/ op[k].answer # "none",
         n # NoCopy => n \in Made' /\ n > op[k].copy, Reporting(k, n)
  PROVE  Ops' /\ Wire' /\ op' \in [Computers -> Op] /\ wire' \subseteq Request
<1> PICK c : c = op[k].copy
  OBVIOUS
<1>1. /\ c \in Made /\ c \in Made' /\ c \in Copies /\ copy[c].place = Server
      /\ copy'[c].place = Server
      /\ copy[c].asking # "none" => copy'[c].asking # "none"
  BY Moves, MadeGrows DEF GoodOp, Inv, Later
<1>2. /\ op[k] \in Op /\ GoodOp(k, op[k]) /\ op \in [Computers -> Op]
      /\ {} \in SUBSET Messages /\ wire \subseteq Request
  BY Moves
<1> DEFINE o == [op[k] EXCEPT !.phase = "report", !.made = n, !.answer = "none"]
<1>3. /\ o \in Op /\ o.phase = "report" /\ o.copy = c /\ o.answer = "none"
      /\ o.by = op[k].by
  BY <1>2 DEF Op, Phase
<1>4. op' = [op EXCEPT ![k] = o]
  BY <1>2 DEF Reporting
<1> HIDE DEF o
<1>5. op' \in [Computers -> Op] /\ op'[k] = o /\ Others(k)
  BY <1>2, <1>3, <1>4 DEF Others
<1>6. GoodOp(k, op[k])'
  BY <1>1, <1>2, <1>3, <1>5 DEF GoodOp, Later
<1>7. PICK q : q = RequestOf(k, "Exported", c, {}, n)
  OBVIOUS
<1>8. q \in Request /\ wire' = wire \cup {q}
  BY <1>1, <1>2, <1>7, RequestTyped DEF Reporting
<1>9. q.type = "Exported" /\ q.at = k /\ q.copy = c /\ q.made = n
  BY <1>7, RequestFields
<1>10. Sound(q)' /\ Awaited(q)'
  <2>1. n # NoCopy => n \in Made' /\ n > c
    OBVIOUS
  <2>2. Sound(q)'
    BY <1>1, <1>9, <2>1 DEF Sound
  <2>3. Awaited(q)'
    BY <1>3, <1>5, <1>9 DEF Awaited, PhaseOf
  <2> QED BY <2>2, <2>3
<1>11. Wire'
  BY <1>2, <1>5, <1>8, <1>9, <1>10, WireGrows
<1> QED BY <1>2, <1>5, <1>6, <1>8, <1>11, OneOp

LEMMA HearPackageKeeps ==
  ASSUME Inv, NEW k \in Computers, HearPackage(k)
  PROVE  Inv'
<1>1. Kept /\ Later
  BY NothingMade DEF HearPackage
<1>2. AskedThen
  BY AskedStays DEF HearPackage
<1>3. Ops' /\ Wire' /\ op' \in [Computers -> Op] /\ wire' \subseteq Request
  <2>1. CASE op[k].answer = "error" /\ Reporting(k, NoCopy)
    BY <1>1, <2>1, ReportingKeeps DEF HearPackage
  <2>2. CASE /\ op[k].answer = "ok" /\ op' = [op EXCEPT ![k].phase = "place"]
             /\ UNCHANGED wire
    <3> DEFINE o == [op[k] EXCEPT !.phase = "place"]
    <3>1. op[k] \in Op /\ GoodOp(k, op[k]) /\ op[k].phase = "export"
          /\ op \in [Computers -> Op]
      BY Moves DEF HearPackage
    <3>2. /\ o \in Op /\ o.phase = "place" /\ o.copy = op[k].copy
          /\ o.by = op[k].by
      BY <3>1 DEF Op, Phase
    <3>3. op' = [op EXCEPT ![k] = o]
      BY <2>2, <3>1
    <3>4. UNCHANGED <<made, copy>>
      BY DEF HearPackage
    <3> PICK p : p = o
      OBVIOUS
    <3>5. GoodOp(k, p)'
      BY <3>1, <3>2, <3>4 DEF GoodOp, Made
    <3> QED BY <1>1, <2>2, <3>2, <3>3, <3>5, Heard, Moves
  <2> QED BY <2>1, <2>2 DEF HearPackage
<1>4. Types'
  BY <1>1, <1>3, Lists, FaultsTyped, MoveTyped DEF HearPackage
<1> QED BY <1>1, <1>2, <1>3, <1>4, RecordsKept DEF Inv

LEMMA PlaceKeeps ==
  ASSUME Inv, NEW k \in Computers, Place(k)
  PROVE  Inv'
<1>1. AskedThen
  BY AskedStays DEF Place
<1>2. op[k].phase = "place" /\ op[k] \in Op /\ GoodOp(k, op[k])
  BY Moves DEF Place
<1>3. CASE UNCHANGED <<made, copy>> /\ Reporting(k, NoCopy)
  <2>1. Kept /\ Later
    BY <1>3, NothingMade
  <2>2. Ops' /\ Wire' /\ op' \in [Computers -> Op] /\ wire' \subseteq Request
    BY <1>2, <1>3, <2>1, ReportingKeeps
  <2>3. Types'
    BY <2>1, <2>2, Lists, FaultsTyped, MoveTyped DEF Place
  <2> QED BY <1>1, <2>1, <2>2, <2>3, RecordsKept DEF Inv
<1>4. CASE /\ made < MaxCopies /\ made' = made + 1
           /\ copy' = [copy EXCEPT ![made'] = NewCopy(k, op[k].chat)]
           /\ Reporting(k, made')
  <2> PICK chat \in SUBSET Messages : chat = op[k].chat
    BY <1>2 DEF Op
  <2> PICK n : n = made'
    OBVIOUS
  <2>1. k \in Places
    BY DEF Places
  <2>2. /\ Later /\ Numbered' /\ CarriedToServer' /\ Asked'
        /\ n \in Made' /\ \A c \in Made : c < n
    BY <1>4, <2>1, CopyMade DEF Place
  <2>3. n \in Copies /\ n > op[k].copy
    <3>1. n \in Copies /\ n \in Nat /\ op[k].copy \in Made /\ Made \subseteq Nat
      BY <1>2, <2>2, MadeGrows, Moves DEF GoodOp, Inv, Copies
    <3> QED BY <2>2, <3>1
  <2>4. Ops' /\ Wire' /\ op' \in [Computers -> Op] /\ wire' \subseteq Request
    BY <1>2, <1>4, <2>2, <2>3, ReportingKeeps
  <2>5. Types'
    BY <2>2, <2>4, Lists, FaultsTyped, MoveTyped DEF Place
  <2> QED BY <2>2, <2>4, <2>5 DEF Inv
<1> QED BY <1>3, <1>4 DEF Place

-----------------------------------------------------------------------------
(* The server's side *)

\* A request is answered: to its computer, if that one listens.
LEMMA Answered ==
  ASSUME Inv, Later, NEW r \in wire, wire' = wire \ {r},
         NEW o \in Op, r.heard => GoodOp(r.at, o)',
         op' = IF r.heard THEN [op EXCEPT ![r.at] = o] ELSE op
  PROVE  Ops' /\ Wire' /\ op' \in [Computers -> Op] /\ wire' \subseteq Request
<1>1. /\ op \in [Computers -> Op] /\ wire' \subseteq Request /\ r.at \in Computers
  BY Moves DEF Request
<1>2. CASE r.heard
  <2>1. op' \in [Computers -> Op] /\ op'[r.at] = o /\ Others(r.at)
    BY <1>1, <1>2 DEF Others
  <2>2. GoodOp(r.at, op[r.at])'
    BY <1>2, <2>1
  <2>3. \A s \in wire' : s \in wire /\ (s.at # r.at \/ ~s.heard)
    BY <1>2, WireIsSound DEF Inv
  <2>4. Wire'
    BY <1>1, <2>1, <2>3, WireShrinks
  <2> QED BY <1>1, <2>1, <2>2, <2>4, OneOp
<1>3. CASE ~r.heard
  <2>1. op' = op
    BY <1>3
  <2>2. Ops'
    BY <2>1, OpStays DEF Ops
  <2>3. \A s \in wire' : Sound(s)' /\ (s.heard => Awaited(s))'
    BY <2>1, WireIsSound, SoundStays DEF Inv, Awaited
  <2>4. \A s, t \in wire' : s.heard /\ t.heard /\ s.at = t.at => s = t
    BY WireIsSound DEF Inv
  <2>5. Wire'
    BY <2>3, <2>4 DEF Wire, Sound
  <2> QED BY <1>1, <2>1, <2>2, <2>5
<1> QED BY <1>2, <1>3

\* What is known of a request and of the move that waits for its answer.
LEMMA Requests ==
  ASSUME Inv, NEW r \in wire
  PROVE  /\ r \in Request /\ Sound(r) /\ r.at \in Computers
         /\ op[r.at] \in Op /\ GoodOp(r.at, op[r.at])
         /\ r.copy \in Made
         /\ r.heard => op[r.at].copy = r.copy
                       /\ op[r.at].phase = PhaseOf(r.type)
                       /\ (r.type = "Import" => op[r.at].chat = r.chat)
<1>1. r \in Request /\ r.at \in Computers
  BY Moves DEF Request
<1> QED BY <1>1, Moves, WireIsSound DEF Awaited, Sound, Inv

\* An answer that says nothing of the copies leaves the move a good one.
LEMMA AnswerIsGood ==
  ASSUME Inv, Later, NEW k \in Computers, op[k].phase # "none",
         NEW answer \in {"ok", "error"},
         answer = "ok" => op[k].phase # "import"
  PROVE  /\ [op[k] EXCEPT !.answer = answer] \in Op
         /\ \A o : o = [op[k] EXCEPT !.answer = answer] => GoodOp(k, o)'
<1>1. op[k] \in Op /\ GoodOp(k, op[k])
  BY Moves
<1>2. [op[k] EXCEPT !.answer = answer] \in Op
  BY <1>1 DEF Op
<1>3. ASSUME NEW o, o = [op[k] EXCEPT !.answer = answer]
      PROVE  GoodOp(k, o)'
  <2>1. /\ o.phase = op[k].phase /\ o.copy = op[k].copy /\ o.by = op[k].by
        /\ o.chat = op[k].chat /\ o.answer = answer
    BY <1>1, <1>3 DEF Op
  <2>2. o.copy \in Made /\ o.copy \in Made'
    BY <1>1, <2>1, MadeGrows DEF GoodOp, Inv
  <2>3. o.by # "user" => copy'[o.copy].asking # "none"
    BY <1>1, <2>1, <2>2 DEF GoodOp, Later
  <2>4. CASE o.phase = "import"
    <3>1. Locked(o.copy)
      BY <2>1, <2>4 DEF Locked
    <3>2. copy'[o.copy].place = k /\ copy'[o.copy].chat = o.chat
      BY <1>1, <2>1, <2>2, <2>4, <3>1 DEF GoodOp, Later
    <3> QED BY <2>1, <2>2, <2>3, <2>4, <3>2 DEF GoodOp
  <2>5. CASE o.phase # "import"
    <3>1. copy'[o.copy].place = Server
      BY <1>1, <2>1, <2>2, <2>5 DEF GoodOp, Later
    <3> QED BY <2>2, <2>3, <2>5, <3>1 DEF GoodOp
  <2> QED BY <2>4, <2>5
<1> QED BY <1>2, <1>3

LEMMA AnswerKeeps ==
  ASSUME Inv, Later, NEW r \in wire, NEW answer \in {"ok", "error"},
         answer = "ok" => r.type # "Import", Answer(r, answer)
  PROVE  Ops' /\ Wire' /\ op' \in [Computers -> Op] /\ wire' \subseteq Request
<1> PICK k \in Computers : k = r.at
  BY Requests
<1> PICK o : o = [op[k] EXCEPT !.answer = answer]
  OBVIOUS
<1>1. r.type \in {"Import", "Export", "Exported"}
      /\ op[k] \in Op /\ op \in [Computers -> Op]
  BY Requests, Moves DEF Request
<1>2. o \in Op
  BY <1>1 DEF Op
<1>3. r.heard => GoodOp(r.at, o)'
  <2>1. r.heard => op[k].phase # "none"
                   /\ (r.type # "Import" => op[k].phase # "import")
    BY <1>1, Requests DEF PhaseOf
  <2> QED BY <2>1, AnswerIsGood
<1>4. op' = IF r.heard THEN [op EXCEPT ![r.at] = o] ELSE op
  BY <1>1 DEF Answer
<1>5. wire' = wire \ {r}
  BY DEF Answer
<1> QED BY <1>2, <1>3, <1>4, <1>5, Answered

LEMMA ImportKeeps ==
  ASSUME Inv, NEW r \in wire, Import(r)
  PROVE  Inv'
<1>1. AskedThen
  BY AskedStays DEF Import
<1>2. CASE UNCHANGED <<made, copy>> /\ Answer(r, "error")
  <2>1. Kept /\ Later
    BY <1>2, NothingMade
  <2>2. Ops' /\ Wire' /\ op' \in [Computers -> Op] /\ wire' \subseteq Request
    BY <1>2, <2>1, AnswerKeeps
  <2>3. Types'
    BY <2>1, <2>2, Lists, FaultsTyped, MoveTyped DEF Import
  <2> QED BY <1>1, <2>1, <2>2, <2>3, RecordsKept DEF Inv
<1>3. CASE /\ made < MaxCopies /\ made' = made + 1
           /\ copy' = [copy EXCEPT ![made'] = NewCopy(Server, r.chat)]
           /\ wire' = wire \ {r}
           /\ op' = IF r.heard THEN [op EXCEPT ![r.at].answer = "ok",
                                               ![r.at].made = made'] ELSE op
  <2> PICK k \in Computers : k = r.at
    BY Requests
  <2> PICK n : n = made'
    OBVIOUS
  <2> PICK c \in Made : c = r.copy
    BY Requests
  <2>1. Server \in Places /\ r.chat \in SUBSET Messages /\ r.type = "Import"
    BY Requests DEF Places, Request, Import
  <2>2. /\ Later /\ Numbered' /\ CarriedToServer' /\ Asked'
        /\ n \in Made' /\ c < n /\ copy'[c] = copy[c] /\ copy'[n].chat = r.chat
    BY <1>3, <2>1, CopyMade DEF Import
  <2>3. n \in Copies /\ n > c /\ c \in Made'
    <3>1. n \in Copies /\ n \in Nat /\ c \in Nat /\ Made \subseteq Made'
      BY <2>2, MadeGrows, Moves DEF Inv, Copies
    <3> QED BY <2>2, <3>1
  <2>4. op[k] \in Op /\ GoodOp(k, op[k]) /\ op \in [Computers -> Op]
    BY Moves
  <2> PICK o : o = [op[k] EXCEPT !.answer = "ok", !.made = n]
    OBVIOUS
  <2>5. /\ o \in Op /\ o.phase = op[k].phase /\ o.copy = op[k].copy
        /\ o.by = op[k].by /\ o.chat = op[k].chat /\ o.made = n
    BY <2>3, <2>4 DEF Op
  <2>6. r.heard => GoodOp(r.at, o)'
    <3>1. SUFFICES ASSUME r.heard PROVE GoodOp(k, o)'
      OBVIOUS
    <3>2. o.copy = c /\ o.phase = "import" /\ o.chat = r.chat
      BY <2>1, <2>5, <3>1, Requests DEF PhaseOf
    <3> QED BY <2>2, <2>3, <2>4, <2>5, <3>2 DEF GoodOp
  <2>7. op' = IF r.heard THEN [op EXCEPT ![r.at] = o] ELSE op
    BY <1>3, <2>4
  <2>8. Ops' /\ Wire' /\ op' \in [Computers -> Op] /\ wire' \subseteq Request
    BY <1>3, <2>2, <2>5, <2>6, <2>7, Answered
  <2>9. Types'
    BY <2>2, <2>8, Lists, FaultsTyped, MoveTyped DEF Import
  <2> QED BY <2>2, <2>8, <2>9 DEF Inv
<1> QED BY <1>2, <1>3 DEF Import

LEMMA ExportKeeps ==
  ASSUME Inv, NEW r \in wire, Export(r)
  PROVE  Inv'
<1>1. AskedThen /\ made' = made /\ r.type = "Export"
  BY AskedStays DEF Export
<1>2. CASE UNCHANGED copy /\ Answer(r, "error")
  <2>1. Kept /\ Later
    BY <1>1, <1>2, NothingMade
  <2>2. Ops' /\ Wire' /\ op' \in [Computers -> Op] /\ wire' \subseteq Request
    BY <1>2, <2>1, AnswerKeeps
  <2>3. Types'
    BY <2>1, <2>2, Lists, FaultsTyped, MoveTyped DEF Export
  <2> QED BY <1>1, <2>1, <2>2, <2>3, RecordsKept DEF Inv
<1>3. CASE /\ copy' = [copy EXCEPT ![r.copy].asked = Nowhere]
           /\ wire' = wire \ {r}
           /\ op' = IF ~r.heard THEN op
                    ELSE [op EXCEPT ![r.at].answer = "ok",
                            ![r.at].chat = copy[r.copy].chat,
                            ![r.at].by = IF @ = "user" THEN @
                                         ELSE copy[r.copy].asking]
  <2> PICK k \in Computers : k = r.at
    BY Requests
  <2> PICK c \in Made : c = r.copy
    BY Requests
  <2>1. copy[c] \in Copy /\ c \in Copies /\ copy \in [Copies -> Copy]
    BY Records
  <2>2. /\ copy' \in [Copies -> Copy] /\ \A d \in Made \ {c} : copy'[d] = copy[d]
        /\ copy'[c] = [copy[c] EXCEPT !.asked = Nowhere]
    BY <1>3, <2>1, Records DEF Copy
  <2>3. Kept
    BY <1>1, <2>1, <2>2, CopyChanged DEF Copy
  <2>4. Later
    BY <2>3 DEF Kept
  <2>5. op[k] \in Op /\ GoodOp(k, op[k]) /\ op \in [Computers -> Op]
    BY Moves
  <2> PICK by : by = IF op[k].by = "user" THEN op[k].by ELSE copy[c].asking
    OBVIOUS
  <2> PICK chat \in SUBSET Messages : chat = copy[c].chat
    BY <2>1 DEF Copy
  <2> PICK o : o = IF r.heard
                   THEN [op[k] EXCEPT !.answer = "ok", !.chat = chat, !.by = by]
                   ELSE op[k]
    OBVIOUS
  <2>6. Ops' /\ Wire' /\ op' \in [Computers -> Op] /\ wire' \subseteq Request
    <3>1. CASE r.heard
      <4>1. /\ op[k].copy = c /\ op[k].phase = "export" /\ copy[c].place = Server
            /\ op[k].by # "user" => copy[c].asking # "none"
        BY <1>1, <2>5, <3>1, Requests DEF PhaseOf, GoodOp
      <4>2. by \in {"user", "agent", "open", "finished", "unfinished"}
            /\ (by # "user" => copy[c].asking # "none")
        BY <2>1, <4>1 DEF Copy
      <4>3. /\ o \in Op /\ o.phase = "export" /\ o.copy = c /\ o.by = by
        BY <2>5, <3>1, <4>1, <4>2 DEF Op
      <4>4. c \in Made' /\ copy'[c].place = Server /\ copy'[c].asking = copy[c].asking
        BY <1>1, <2>1, <2>2, <4>1 DEF Made, Copy
      <4>5. GoodOp(k, o)'
        BY <4>2, <4>3, <4>4 DEF GoodOp
      <4>6. op' = IF r.heard THEN [op EXCEPT ![r.at] = o] ELSE op
        BY <1>3, <2>5, <3>1
      <4> QED BY <1>3, <2>4, <4>3, <4>5, <4>6, Answered
    <3>2. CASE ~r.heard
      <4>1. o \in Op /\ op' = IF r.heard THEN [op EXCEPT ![r.at] = o] ELSE op
        BY <1>3, <2>5, <3>2
      <4> QED BY <1>3, <2>4, <3>2, <4>1, Answered
    <3> QED BY <3>1, <3>2
  <2>7. Types'
    BY <2>4, <2>6, Lists, FaultsTyped, MoveTyped DEF Export
  <2> QED BY <1>1, <2>3, <2>6, <2>7, RecordsKept DEF Inv
<1> QED BY <1>2, <1>3 DEF Export

LEMMA ExportedKeeps ==
  ASSUME Inv, NEW r \in wire, Exported(r)
  PROVE  Inv'
<1> PICK d \in Made : d = r.copy
  BY Requests
<1> PICK n : n = r.made
  OBVIOUS
<1>1. /\ AskedThen /\ made' = made /\ r.type = "Exported"
  BY AskedStays DEF Exported
<1>2. /\ copy[d].place = Server
      /\ n # NoCopy => n \in Made /\ n > d
      /\ copy[d] \in Copy /\ d \in Copies /\ copy \in [Copies -> Copy]
  BY <1>1, Requests, Records DEF Sound
<1>3. Later /\ Numbered' /\ CarriedToServer' /\ Asked'
  <2>1. CASE n = NoCopy
    <3>1. /\ copy' \in [Copies -> Copy] /\ \A c \in Made \ {d} : copy'[c] = copy[c]
          /\ copy'[d] = [copy[d] EXCEPT !.asked = Nowhere]
      BY <1>2, <2>1, Records DEF Copy, Exported
    <3>2. Kept
      BY <1>1, <1>2, <3>1, CopyChanged DEF Copy
    <3> QED BY <1>1, <3>2, RecordsKept DEF Kept
  <2>2. CASE n # NoCopy
    <3> DEFINE to == [copy[d] EXCEPT !.movedTo = n]
               set == [to EXCEPT !.archived = TRUE]
               new == [set EXCEPT !.asked = Nowhere,
                        !.state = IF @ = "running" THEN "interrupted" ELSE @,
                        !.asking = IF @ = "open" THEN "unfinished" ELSE @]
    <3>1. n \in Made /\ n > d /\ n \in Copies
      BY <1>2, <2>2, Records
    <3>2. to \in Copy
      BY <1>2, <3>1 DEF Copy
    <3>3. new \in Copy
      <4> HIDE DEF to
      <4>1. set \in Copy
        BY <3>2, FlagSet
      <4> HIDE DEF set
      <4> QED BY <4>1 DEF Copy
    <3>4. /\ new.movedTo = n /\ new.asked = Nowhere /\ new.chat = copy[d].chat
          /\ new.place = copy[d].place
          /\ copy[d].asking # "none" => new.asking # "none"
      BY <1>2 DEF Copy
    <3>5. copy' = [copy EXCEPT ![d] = new]
      <4>1. copy' = [copy EXCEPT ![d].movedTo = n,
                       ![d].archived = TRUE, ![d].asked = Nowhere,
                       ![d].state = IF @ = "running" THEN "interrupted" ELSE @,
                       ![d].asking = IF @ = "open" THEN "unfinished" ELSE @]
        BY <2>2, Zenon DEF Exported
      <4> QED BY <1>2, <4>1 DEF Copy
    <3> HIDE DEF new
    <3>6. copy' \in [Copies -> Copy] /\ copy'[d] = new
          /\ \A c \in Made \ {d} : copy'[c] = copy[c]
      BY <1>2, <3>3, <3>5, Records
    <3>7. /\ copy'[d].movedTo = n /\ copy'[d].asked = Nowhere
          /\ copy'[d].chat = copy[d].chat /\ copy'[d].place = copy[d].place
          /\ copy[d].asking # "none" => copy'[d].asking # "none"
      BY <3>4, <3>6
    <3>8. UNCHANGED <<due, listed, offered>>
      BY DEF Exported
    <3> QED BY <1>1, <1>2, <3>1, <3>6, <3>7, <3>8, CopyRetired
  <2> QED BY <2>1, <2>2
<1>4. Ops' /\ Wire' /\ op' \in [Computers -> Op] /\ wire' \subseteq Request
  BY <1>1, <1>3, AnswerKeeps DEF Exported
<1>5. Types'
  BY <1>3, <1>4, Lists, FaultsTyped, MoveTyped DEF Exported
<1> QED BY <1>3, <1>4, <1>5 DEF Inv

-----------------------------------------------------------------------------
(* Faults *)

LEMMA UnheardIs ==
  ASSUME NEW r \in Request
  PROVE  LET u == [r EXCEPT !.heard = FALSE] IN
         /\ u \in Request /\ ~u.heard
         /\ u.copy = r.copy /\ u.type = r.type /\ u.made = r.made
<1>1. FALSE \in BOOLEAN
  OBVIOUS
<1> QED BY <1>1, Zenon DEF Request

LEMMA UnheardIsLess ==
  ASSUME Inv, NEW k \in Computers, Unheard(k)
  PROVE  /\ wire' \subseteq Request
         /\ \A r \in wire' :
              \/ r \in wire /\ (r.at # k \/ ~r.heard)
              \/ ~r.heard /\ \E s \in wire : r.copy = s.copy /\ r.type = s.type
                                             /\ r.made = s.made
<1> DEFINE mine == {r \in wire : r.at = k}
<1>1. wire \subseteq Request
  BY Moves
<1>2. CASE wire' = wire \ mine
  BY <1>1, <1>2
<1>3. CASE wire' = (wire \ mine) \cup {[r EXCEPT !.heard = FALSE] : r \in mine}
  <2>1. ASSUME NEW u \in {[r EXCEPT !.heard = FALSE] : r \in mine}
        PROVE  /\ u \in Request /\ ~u.heard
               /\ \E s \in wire : u.copy = s.copy /\ u.type = s.type
                                  /\ u.made = s.made
    <3>1. PICK r \in mine : u = [r EXCEPT !.heard = FALSE]
      BY <2>1, Zenon
    <3>2. r \in wire /\ r \in Request
      BY <1>1
    <3> QED BY <3>1, <3>2, UnheardIs, Zenon
  <2> HIDE DEF mine
  <2>2. \A r \in wire \ mine : r \in wire /\ r \in Request /\ (r.at # k \/ ~r.heard)
    BY <1>1 DEF mine
  <2> QED BY <1>3, <2>1, <2>2, Zenon
<1> QED BY <1>2, <1>3, Zenon DEF Unheard

LEMMA DropKeeps ==
  ASSUME Inv, NEW k \in Computers, Drop(k)
  PROVE  Inv'
<1>1. Kept /\ Later
  BY NothingMade DEF Drop
<1>2. AskedThen
  BY AskedStays DEF Drop
<1> PICK o : o = [op[k] EXCEPT !.answer = "error"]
  OBVIOUS
<1>3. o \in Op /\ GoodOp(k, o)'
  BY <1>1, AnswerIsGood DEF Drop
<1>4. op' \in [Computers -> Op] /\ op'[k] = o /\ Others(k)
  BY <1>3, Moves DEF Drop, Others
<1>5. Wire' /\ wire' \subseteq Request
  BY <1>1, <1>4, UnheardIsLess, WireShrinks DEF Drop
<1>6. GoodOp(k, op[k])'
  BY <1>3, <1>4
<1>7. Ops'
  BY <1>1, <1>4, <1>6, OneOp
<1>8. Types'
  BY <1>1, <1>4, <1>5, Lists, FaultsTyped, MoveTyped DEF Drop
<1> QED BY <1>1, <1>2, <1>5, <1>7, <1>8, RecordsKept DEF Inv

LEMMA RestartedKeeps ==
  ASSUME Inv, NEW p, Restarted(p), made' = made
  PROVE  Kept /\ Later
<1>1. copy \in [Copies -> Copy] /\ Made \subseteq Copies
  BY Records
<1> DEFINE States == {"running", "ready", "interrupted"}
           Restarting(c, s) ==
             [copy[c] EXCEPT !.state = s, !.asked = Nowhere, !.from = Nowhere,
                !.asking = IF @ = "open" THEN "unfinished" ELSE @]
<1>2. PICK on \in BOOLEAN :
        copy' = [c \in Copies |->
          IF copy[c].place # p THEN copy[c]
          ELSE [copy[c] EXCEPT
            !.state = IF @ = "running" /\ ~(on /\ ~Moved(c) /\ ~copy[c].archived)
                      THEN "interrupted" ELSE @,
            !.asked = Nowhere, !.from = Nowhere,
            !.asking = IF @ = "open" THEN "unfinished" ELSE @]]
  BY DEF Restarted
<1>3. ASSUME NEW c \in Copies
      PROVE  /\ copy'[c] \in Copy /\ copy'[c].place = copy[c].place
             /\ copy'[c].chat = copy[c].chat /\ copy'[c].movedTo = copy[c].movedTo
             /\ copy[c].asking # "none" => copy'[c].asking # "none"
             /\ copy'[c] = copy[c] \/ copy'[c].asked = Nowhere
  <2>1. copy[c] \in Copy
    BY <1>1
  <2>2. CASE copy[c].place # p
    BY <1>2, <2>1, <2>2
  <2>3. CASE copy[c].place = p
    <3> PICK s : s = IF copy[c].state = "running"
                          /\ ~(on /\ ~Moved(c) /\ ~copy[c].archived)
                       THEN "interrupted" ELSE copy[c].state
      OBVIOUS
    <3>1. s \in States
      BY <2>1 DEF Copy
    <3>2. copy'[c] = Restarting(c, s)
      BY <1>2, <2>1, <2>3 DEF Copy
    <3> HIDE <1>2
    <3>3. /\ Restarting(c, s) \in Copy /\ Restarting(c, s).place = copy[c].place
          /\ Restarting(c, s).chat = copy[c].chat
          /\ Restarting(c, s).movedTo = copy[c].movedTo
          /\ copy[c].asking # "none" => Restarting(c, s).asking # "none"
          /\ Restarting(c, s).asked = Nowhere
      BY <2>1, <3>1 DEF Copy
    <3> HIDE DEF Restarting
    <3> QED BY <3>2, <3>3
  <2> QED BY <2>2, <2>3
<1>4. copy' \in [Copies -> Copy]
  <2>1. copy' = [c \in Copies |-> copy'[c]]
    BY <1>2
  <2> QED BY <1>3, <2>1
<1>5. made' \in Copies /\ made' >= made
  BY MovingAssumption DEF Inv, Types, Copies
<1>6. Later
  BY <1>1, <1>3, <1>4, <1>5 DEF Later
<1>7. ASSUME NEW c \in Made, copy'[c].asked # Nowhere
      PROVE  copy'[c].asking # "none"
  BY <1>1, <1>3, <1>7, Records
<1> QED BY <1>1, <1>3, <1>6, <1>7 DEF Kept

LEMMA RestartComputerKeeps ==
  ASSUME Inv, NEW k \in Computers, RestartComputer(k)
  PROVE  Inv'
<1>1. Kept /\ Later
  BY RestartedKeeps DEF RestartComputer
<1>2. op' \in [Computers -> Op] /\ op'[k] = Idle /\ Others(k)
  BY Moves, IdleIsOp DEF RestartComputer, Others
<1>3. Wire' /\ wire' \subseteq Request
  BY <1>1, <1>2, UnheardIsLess, WireShrinks DEF RestartComputer
<1>4. GoodOp(k, op[k])'
  BY <1>2, IdleIsGood
<1>5. Ops'
  BY <1>1, <1>2, <1>4, OneOp
<1>6. /\ due' \in [Computers -> SUBSET Copies]
      /\ listed' \in [Computers -> SUBSET Copies]
      /\ offered' \in [Computers -> SUBSET Copies]
      /\ \A l \in Computers : /\ due'[l] \subseteq due[l]
                              /\ listed'[l] \subseteq listed[l]
                              /\ offered'[l] \subseteq offered[l]
  BY Lists DEF RestartComputer
<1>7. AskedThen
  BY <1>6, Lists DEF AskedThen
<1>8. Types'
  <2>1. sent \subseteq Messages /\ sent' = sent
    BY Records DEF RestartComputer
  <2>2. faults' \in 0..MaxFaults
    BY FaultsTyped DEF RestartComputer
  <2> QED BY <1>1, <1>2, <1>3, <1>6, <2>1, <2>2
         DEF Types, Later, Op, Request, Copy, Copies, Places
<1> QED BY <1>1, <1>3, <1>5, <1>7, <1>8, RecordsKept DEF Inv

LEMMA RestartServerKeeps ==
  ASSUME Inv, RestartServer
  PROVE  Inv'
<1>1. Kept /\ Later
  BY RestartedKeeps DEF RestartServer
<1>2. AskedThen
  BY AskedStays DEF RestartServer
<1>3. Wire' /\ wire' \subseteq Request
  BY DEF RestartServer, Wire
<1>4. ASSUME NEW k \in Computers
      PROVE  op'[k] \in Op /\ GoodOp(k, op[k])'
  <2>1. op[k] \in Op
    BY Moves
  <2>2. CASE op[k].phase \in {"import", "export", "report"}
    <3> PICK o : o = [op[k] EXCEPT !.answer = "error"]
      OBVIOUS
    <3>1. o \in Op /\ GoodOp(k, o)'
      BY <1>1, <2>2, AnswerIsGood
    <3>2. op'[k] = o
      BY <2>2 DEF RestartServer
    <3> QED BY <3>1, <3>2
  <2>3. CASE op[k].phase \notin {"import", "export", "report"}
    <3>1. op'[k] = op[k]
      BY <2>3 DEF RestartServer
    <3> QED BY <1>1, <2>1, <3>1, OpStays
  <2> QED BY <2>2, <2>3
<1>5. op' \in [Computers -> Op]
  <2>1. op' = [k \in Computers |-> op'[k]]
    BY DEF RestartServer
  <2> QED BY <1>4, <2>1
<1>6. Ops'
  BY <1>4 DEF Ops
<1>7. Types'
  BY <1>1, <1>3, <1>5, Lists, FaultsTyped, MoveTyped DEF RestartServer
<1> QED BY <1>1, <1>2, <1>3, <1>6, <1>7, RecordsKept DEF Inv

-----------------------------------------------------------------------------
(* Every step keeps the invariant *)

LEMMA StutterKeeps ==
  ASSUME Inv, UNCHANGED vars
  PROVE  Inv'
  BY DEF vars, Inv, Types, Numbered, CarriedToServer, Asked, Ops, Wire, GoodOp,
         Awaited, Made, Moved

LEMMA ShowKeeps ==
  ASSUME Inv, NEW k \in Computers, Show(k)
  PROVE  Inv'
<1>1. UNCHANGED <<made, copy, op, due, listed, offered, wire, sent, faults>>
  BY DEF Show
<1> QED BY <1>1 DEF Inv, Types, Numbered, CarriedToServer, Asked, Ops, Wire,
                    GoodOp, Awaited, Made, Moved

\* A link is to read the list or it is not.
LEMMA RefreshesKept ==
  ASSUME Refreshes, [Next]_vars
  PROVE  Refreshes'
<1>1. CASE refresh' = refresh
  BY <1>1 DEF Refreshes
<1>2. CASE \E k \in Computers :
        Poll(k) \/ List(k) \/ Show(k) \/ Drop(k) \/ RestartComputer(k)
  BY <1>2 DEF Refreshes, Poll, List, Show, Drop, RestartComputer
<1>3. CASE RestartServer
  BY <1>3 DEF Refreshes, RestartServer
<1>4. CASE \E c \in Made :
        \/ \E m \in Messages, k \in Computers \cup {Nowhere} : Message(c, m, k)
        \/ Ask(c) \/ EndTurn(c) \/ Archive(c) \/ Unarchive(c)
        \/ ScheduledMove(c) \/ CancelReturn(c)
        \/ \E k \in Computers : Return(k, c) \/ Forget(k, c) \/ Move(k, c)
                                \/ MoveDue(k, c)
  <2>1. refresh' = refresh
    BY <1>4 DEF Message, Ask, EndTurn, Archive, Unarchive, ScheduledMove,
                CancelReturn, Return, Forget, Move, MoveDue
  <2> QED BY <1>1, <2>1
<1>5. CASE \/ \E k \in Computers : \/ Retire(k) \/ HearPackage(k) \/ Place(k)
                                    \/ Reported(k)
           \/ \E r \in wire : Import(r) \/ Export(r) \/ Exported(r)
  <2>1. refresh' = refresh
    BY <1>5 DEF Retire, HearPackage, Place, Reported, Import, Export, Exported
  <2> QED BY <1>1, <2>1
<1>6. CASE UNCHANGED vars
  BY <1>1, <1>6 DEF vars
<1> QED BY <1>2, <1>3, <1>4, <1>5, <1>6 DEF Next

LEMMA NextKeeps ==
  ASSUME Inv, Next
  PROVE  Inv'
<1>1. CASE \E c \in Made :
        \/ \E m \in Messages, k \in Computers \cup {Nowhere} : Message(c, m, k)
        \/ Ask(c) \/ EndTurn(c) \/ Archive(c) \/ Unarchive(c)
        \/ ScheduledMove(c) \/ CancelReturn(c)
  BY <1>1, MessageKeeps, AskKeeps, EndTurnKeeps, ArchiveKeeps, UnarchiveKeeps,
     ScheduledMoveKeeps, CancelReturnKeeps
<1>2. CASE \E c \in Made, k \in Computers :
        Return(k, c) \/ Forget(k, c) \/ Move(k, c) \/ MoveDue(k, c)
  BY <1>2, ReturnKeeps, ForgetKeeps, MoveKeeps, MoveDueKeeps
<1>3. CASE \E k \in Computers :
        \/ Poll(k) \/ List(k) \/ Show(k)
        \/ Retire(k) \/ HearPackage(k) \/ Place(k) \/ Reported(k)
        \/ Drop(k) \/ RestartComputer(k)
  BY <1>3, ListKeeps, ShowKeeps, RetireKeeps, HearPackageKeeps, PlaceKeeps, ReportedKeeps,
     DropKeeps, RestartComputerKeeps
<1>4. CASE \E r \in wire : Import(r) \/ Export(r) \/ Exported(r)
  BY <1>4, ImportKeeps, ExportKeeps, ExportedKeeps
<1>5. CASE RestartServer
  BY <1>5, RestartServerKeeps
<1> QED BY <1>1, <1>2, <1>3, <1>4, <1>5 DEF Next

-----------------------------------------------------------------------------
(* Theorems *)

\* The inductive invariant holds in every state.
THEOREM InvAlways == Spec => []Inv
<1>1. Init => Inv
  BY InvInitially
<1>2. Inv /\ [Next]_vars => Inv'
  BY NextKeeps, StutterKeeps
<1> QED BY <1>1, <1>2, PTL DEF Spec

\* Type correctness of the records, moves and requests of every instance.
THEOREM TypeCorrect == Spec => []TypeOK
<1>1. Init => Refreshes
  BY DEF Init, Refreshes
<1>2. Refreshes /\ [Next]_vars => Refreshes'
  BY RefreshesKept
<1>3. Inv /\ Refreshes => TypeOK
  BY DEF Inv, Types, Refreshes, TypeOK
<1> QED BY <1>1, <1>2, <1>3, InvAlways, PTL DEF Spec

\* However a move breaks off, a copy goes on: the last one made, as a copy is
\* retired only for a later one (Service::move_session, exported).
THEOREM SomeCopyAlways == Spec => []SomeCopyGoesOn
<1>1. Inv => SomeCopyGoesOn
  <2> SUFFICES ASSUME Inv PROVE SomeCopyGoesOn
    OBVIOUS
  <2>1. made \in Made /\ made \in Nat
    BY Moves
  <2>2. ~Moved(made)
    BY <2>1 DEF Inv, Numbered, Made
  <2> QED BY <2>1, <2>2 DEF SomeCopyGoesOn
<1> QED BY <1>1, InvAlways, PTL

\* What was said to a session before it moved to the server is in the copy
\* that goes on (Service::move_session).
THEOREM CarriedAlways == Spec => []CarriedToServer
<1>1. Inv => CarriedToServer
  BY DEF Inv
<1> QED BY <1>1, InvAlways, PTL

-----------------------------------------------------------------------------
(* One computer, and no faults *)

\* Between the making of a copy and the retirement of the one that was moved,
\* both can be written to.
Doubled(o) ==
  \/ o.phase = "import" /\ o.answer = "ok"
  \/ o.phase = "report" /\ o.answer = "none" /\ o.made # NoCopy

\* The copy a move is about is still the one to write to.
Whole(o) ==
  \/ o.phase \in {"import", "place"}
  \/ o.phase = "export" /\ o.answer = "ok"

\* All requests are those a move waits for, a move's copy has not been moved,
\* and a second copy is the one the move has made.
Single ==
  /\ \A r \in wire : r.heard /\ (r.type = "Exported" => r.made = op[r.at].made)
  /\ \A k \in Computers :
       /\ Whole(op[k]) => ~Moved(op[k].copy)
       /\ \A c, d \in Made : ~Moved(c) /\ ~Moved(d) /\ c # d =>
            Doubled(op[k]) /\ {c, d} = {op[k].copy, op[k].made}

Alone == faults = 0 => Single

\* No copy is made or retired, and no move goes on.
LEMMA SingleStays ==
  ASSUME Single, made' = made, UNCHANGED <<op, wire>>,
         \A c \in Made : copy'[c].movedTo = copy[c].movedTo,
         \A k \in Computers : Whole(op[k]) => op[k].copy \in Made
  PROVE  Single'
<1>1. Made' = Made /\ \A c \in Made : Moved(c)' = Moved(c)
  BY DEF Made, Moved
<1>2. ASSUME NEW k \in Computers
      PROVE  /\ (Whole(op[k]) => ~Moved(op[k].copy))'
             /\ \A c, d \in Made' : ~Moved(c)' /\ ~Moved(d)' /\ c # d =>
                  Doubled(op'[k]) /\ {c, d} = {op'[k].copy, op'[k].made}
  BY <1>1 DEF Single, Moved
<1>3. \A r \in wire' : r.heard /\ (r.type = "Exported" => r.made = op'[r.at].made)
  BY DEF Single
<1> QED BY <1>2, <1>3 DEF Single, Moved, Made

\* A move that holds on to its copy is of a copy there is.
LEMMA WholeIsMade ==
  ASSUME Inv
  PROVE  \A k \in Computers : Whole(op[k]) => op[k].copy \in Made
  BY Moves DEF Whole, GoodOp

LEMMA MessageSingle ==
  ASSUME Inv, Single, NEW c \in Made, NEW m \in Messages,
         NEW k \in Computers \cup {Nowhere}, Message(c, m, k)
  PROVE  Single'
<1>1. /\ made' = made /\ UNCHANGED <<op, wire>>
      /\ \A d \in Made : copy'[d].movedTo = copy[d].movedTo
  BY Records DEF Message, Copy
<1> QED BY <1>1, WholeIsMade, SingleStays

\* A turn, the archive, and what the agent asks for, leave a copy unmoved.
LEMMA SessionSingle ==
  ASSUME Inv, Single, NEW c \in Made,
         \/ Ask(c) \/ EndTurn(c) \/ Archive(c) \/ Unarchive(c)
         \/ ScheduledMove(c) \/ CancelReturn(c)
  PROVE  Single'
<1> SUFFICES /\ made' = made /\ UNCHANGED <<op, wire>>
             /\ \A d \in Made : copy'[d].movedTo = copy[d].movedTo
  BY WholeIsMade, SingleStays
<1>1. /\ copy \in [Copies -> Copy] /\ c \in Copies /\ copy[c] \in Copy
      /\ Made \subseteq Copies
  BY Records
<1>2. CASE Archive(c) \/ Unarchive(c)
  BY <1>1, <1>2 DEF Archive, Unarchive, Copy
<1>3. CASE ScheduledMove(c) \/ CancelReturn(c)
  BY <1>1, <1>3 DEF ScheduledMove, CancelReturn, Copy
<1>4. CASE Ask(c)
  BY <1>1, <1>4 DEF Ask, Copy
<1>5. CASE EndTurn(c)
  <2> PICK ok \in BOOLEAN :
        copy' = [copy EXCEPT
          ![c].state = IF ok THEN "ready" ELSE "interrupted",
          ![c].asking = IF @ # "open" THEN @
                        ELSE IF ok THEN "finished" ELSE "unfinished"]
    BY <1>5 DEF EndTurn
  <2> HIDE <1>5
  <2>1. \A d \in Made : copy'[d].movedTo = copy[d].movedTo
    BY <1>1 DEF Copy
  <2> QED BY <1>5, <2>1 DEF EndTurn
<1> QED BY <1>2, <1>3, <1>4, <1>5

LEMMA ListsSingle ==
  ASSUME Inv, Single, NEW k \in Computers,
         \/ Poll(k) \/ List(k) \/ Show(k)
         \/ \E c \in Made : Return(k, c) \/ Forget(k, c)
  PROVE  Single'
<1>1. UNCHANGED <<made, copy, op, wire>>
  BY DEF Poll, List, Listed, Show, Return, Forget
<1> QED BY <1>1, WholeIsMade, SingleStays

\* While the only computer waits for no answer, the server has no request.
LEMMA NothingAsked ==
  ASSUME Inv, Single, NEW k, Computers = {k},
         op[k].phase \in {"none", "place"} \/ op[k].answer # "none"
  PROVE  wire = {}
<1>1. \A r \in wire : r.at = k /\ r.heard
  BY Requests DEF Single
<1> QED BY <1>1, NobodyListens

\* A request the server has is the one the only computer waits for.
LEMMA AskedByMove ==
  ASSUME Inv, Single, NEW k, Computers = {k}, NEW r \in wire
  PROVE  /\ r.at = k /\ r.heard /\ wire \ {r} = {}
         /\ op[k].copy = r.copy /\ op[k].phase = PhaseOf(r.type)
         /\ op[k].answer = "none" /\ r.copy \in Made
         /\ r.type = "Exported" => r.made = op[k].made
<1>1. \A s \in wire : s.at = k /\ s.heard
  BY Requests DEF Single
<1>2. Awaited(r) /\ \A s \in wire : s = r
  BY <1>1, WireIsSound DEF Inv
<1> QED BY <1>1, <1>2, Requests DEF Awaited, Single

\* The computer's move becomes o, and there is at most one copy to write to,
\* or the two of the move.
LEMMA OneMoveSingle ==
  ASSUME NEW k, Computers = {k}, NEW o, op'[k] = o,
         \A r \in wire' : /\ r.heard /\ r.at = k
                          /\ r.type = "Exported" => r.made = o.made,
         Whole(o) => ~Moved(o.copy)',
         \A c, d \in Made' : ~Moved(c)' /\ ~Moved(d)' /\ c # d =>
            Doubled(o) /\ {c, d} = {o.copy, o.made}
  PROVE  Single'
<1>1. \A r \in wire' : r.heard /\ (r.type = "Exported" => r.made = op'[r.at].made)
  OBVIOUS
<1>2. ASSUME NEW l \in Computers
      PROVE  /\ (Whole(op[l]) => ~Moved(op[l].copy))'
             /\ \A c, d \in Made' : ~Moved(c)' /\ ~Moved(d)' /\ c # d =>
                  Doubled(op'[l]) /\ {c, d} = {op'[l].copy, op'[l].made}
  <2>1. l = k
    OBVIOUS
  <2> QED BY <2>1
<1> QED BY <1>1, <1>2 DEF Single

LEMMA MoveStartsSingle ==
  ASSUME Inv, Single, NEW k, Computers = {k}, NEW c \in Made, NEW by,
         MoveToServer(k, c, by) \/ MoveHere(k, c, by), UNCHANGED <<made, copy>>
  PROVE  Single'
<1>1. /\ op[k] = Idle /\ op[k].phase = "none" /\ op \in [Computers -> Op]
      /\ Made' = Made
  BY IdleIsOp, Moves DEF MoveToServer, MoveHere, Made
<1>2. wire = {}
  BY <1>1, NothingAsked
<1>3. \A d, e \in Made : ~Moved(d) /\ ~Moved(e) => d = e
  BY <1>1 DEF Single, Doubled
<1>4. PICK o, q :
        /\ op' = [op EXCEPT ![k] = o] /\ wire' = wire \cup {q}
        /\ q.heard /\ q.at = k /\ q.type # "Exported"
        /\ o.copy = c /\ o.answer = "none"
        /\ \/ o.phase = "import" /\ ~Moved(c)
           \/ o.phase = "export"
  <2>1. CASE MoveToServer(k, c, by)
    <3> DEFINE who == IF by = "user" THEN by ELSE copy[c].asking
               o == [Idle EXCEPT !.phase = "import", !.copy = c,
                                 !.chat = copy[c].chat, !.by = who]
               q == [type |-> "Import", at |-> k, copy |-> c,
                     chat |-> copy[c].chat, made |-> NoCopy, heard |-> TRUE]
    <3>1. op' = [op EXCEPT ![k] = o] /\ wire' = wire \cup {q}
      BY <2>1, Zenon DEF MoveToServer, Started, ToServer
    <3>2. o.phase = "import" /\ o.copy = c /\ o.answer = "none"
      BY DEF Idle
    <3>3. q.heard /\ q.at = k /\ q.type # "Exported"
      OBVIOUS
    <3>4. ~Moved(c)
      BY <2>1 DEF MoveToServer, Movable
    <3> HIDE DEF o, q
    <3> QED BY <3>1, <3>2, <3>3, <3>4
  <2>2. CASE MoveHere(k, c, by)
    <3> DEFINE o == [Idle EXCEPT !.phase = "export", !.copy = c,
                                 !.chat = {}, !.by = by]
               q == [type |-> "Export", at |-> k, copy |-> c,
                     chat |-> {}, made |-> NoCopy, heard |-> TRUE]
    <3>1. op' = [op EXCEPT ![k] = o] /\ wire' = wire \cup {q}
      BY <2>2, Zenon DEF MoveHere, Started, ToServer
    <3>2. o.phase = "export" /\ o.copy = c /\ o.answer = "none"
      BY DEF Idle
    <3>3. q.heard /\ q.at = k /\ q.type # "Exported"
      OBVIOUS
    <3> HIDE DEF o, q
    <3> QED BY <3>1, <3>2, <3>3
  <2> QED BY <2>1, <2>2
<1>5. op'[k] = o /\ Moved(c)' = Moved(c)
  BY <1>1, <1>4 DEF Moved
<1>6. \A r \in wire' : r.heard /\ r.at = k /\ (r.type = "Exported" => r.made = o.made)
  BY <1>2, <1>4
<1>7. Whole(o) => ~Moved(o.copy)'
  BY <1>4, <1>5 DEF Whole
<1>8. \A d, e \in Made' : ~Moved(d)' /\ ~Moved(e)' => d = e
  BY <1>1, <1>3 DEF Moved
<1> QED BY <1>5, <1>6, <1>7, <1>8, OneMoveSingle

\* The computer's move is over, and its copy has been retired or not.
LEMMA RetireSingle ==
  ASSUME Inv, Single, NEW k, Computers = {k}, Retire(k)
  PROVE  Single'
<1> DEFINE o == op[k]
<1>1. /\ o.phase = "import" /\ o.answer # "none" /\ op \in [Computers -> Op]
      /\ GoodOp(k, o) /\ o \in Op
  BY Moves DEF Retire
<1>2. wire' = {} /\ op'[k] = Idle /\ Made' = Made
  BY <1>1, NothingAsked DEF Retire, Made
<1>3. ~Whole(Idle) /\ ~Doubled(Idle)
  BY IdleIsOp DEF Whole, Doubled
<1>4. \A c, d \in Made : ~Moved(c)' /\ ~Moved(d)' => c = d
  <2>1. CASE o.answer = "error"
    <3>1. ~Doubled(o) /\ copy' = copy
      BY <1>1, <2>1 DEF Doubled, Retire
    <3> QED BY <3>1 DEF Single, Moved
  <2>2. CASE o.answer # "error"
    <3>1. o.answer = "ok" /\ o.made # NoCopy /\ o.copy \in Copies
      BY <1>1, <2>2, Moves, MovingAssumption
      DEF Op, GoodOp, Made, Copies, NoCopy
    <3>2. /\ copy'[o.copy].movedTo # NoCopy
          /\ \A c \in Made \ {o.copy} : copy'[c] = copy[c]
      BY <2>2, <3>1, Records DEF Retire, Copy
    <3>3. \A c \in Made : ~Moved(c)' => ~Moved(c) /\ c # o.copy
      BY <3>2 DEF Moved
    <3> QED BY <3>3 DEF Single
  <2> QED BY <2>1, <2>2
<1> QED BY <1>2, <1>3, <1>4, OneMoveSingle

LEMMA ReportedSingle ==
  ASSUME Inv, Single, NEW k, Computers = {k}, Reported(k)
  PROVE  Single'
<1>1. /\ op[k].phase = "report" /\ op[k].answer # "none"
      /\ op \in [Computers -> Op] /\ UNCHANGED <<made, copy>>
  BY Moves DEF Reported
<1>2. wire' = {} /\ op'[k] = Idle /\ Made' = Made
  BY <1>1, NothingAsked DEF Reported, Made
<1>3. ~Whole(Idle) /\ ~Doubled(op[k])
  BY <1>1, IdleIsOp DEF Whole, Doubled
<1>4. \A c, d \in Made : ~Moved(c)' /\ ~Moved(d)' => c = d
  BY <1>1, <1>3 DEF Single, Moved
<1> QED BY <1>2, <1>3, <1>4, OneMoveSingle

\* A report starts: of the copy that was placed, or of a failure.
LEMMA ReportingSingle ==
  ASSUME Inv, NEW k, Computers = {k}, wire = {}, NEW n, Reporting(k, n),
         \A c, d \in Made' : ~Moved(c)' /\ ~Moved(d)' /\ c # d =>
            n # NoCopy /\ {c, d} = {op[k].copy, n}
  PROVE  Single'
<1>1. op \in [Computers -> Op] /\ op[k] \in Op
  BY Moves
<1> DEFINE o == [op[k] EXCEPT !.phase = "report", !.made = n, !.answer = "none"]
           q == [type |-> "Exported", at |-> k, copy |-> op[k].copy,
                 chat |-> {}, made |-> n, heard |-> TRUE]
<1>2. op'[k] = o /\ wire' = {q}
  BY <1>1 DEF Reporting, ToServer
<1>3. o.phase = "report" /\ o.made = n /\ o.answer = "none" /\ o.copy = op[k].copy
  BY <1>1 DEF Op
<1>4. q.heard /\ q.at = k /\ q.made = n
  OBVIOUS
<1> HIDE DEF o, q
<1>5. ~Whole(o) /\ (n # NoCopy => Doubled(o))
  BY <1>3 DEF Whole, Doubled
<1> QED BY <1>2, <1>3, <1>4, <1>5, OneMoveSingle

LEMMA HearPackageSingle ==
  ASSUME Inv, Single, NEW k, Computers = {k}, HearPackage(k)
  PROVE  Single'
<1>1. /\ op[k].phase = "export" /\ op[k].answer # "none" /\ op[k] \in Op
      /\ op \in [Computers -> Op] /\ UNCHANGED <<made, copy>>
  BY Moves DEF HearPackage
<1>2. wire = {} /\ Made' = Made /\ ~Doubled(op[k])
  BY <1>1, NothingAsked DEF Made, Doubled
<1>3. \A c, d \in Made' : ~Moved(c)' /\ ~Moved(d)' => c = d
  BY <1>1, <1>2 DEF Single, Moved
<1>4. CASE op[k].answer = "error" /\ Reporting(k, NoCopy)
  BY <1>2, <1>3, <1>4, ReportingSingle
<1>5. CASE /\ op[k].answer = "ok" /\ op' = [op EXCEPT ![k].phase = "place"]
           /\ UNCHANGED wire
  <2> PICK o : o = [op[k] EXCEPT !.phase = "place"]
    OBVIOUS
  <2>1. op'[k] = o /\ o.copy = op[k].copy
    BY <1>1, <1>5 DEF Op
  <2>2. ~Moved(op[k].copy)
    BY <1>1, <1>5 DEF Single, Whole
  <2>3. ~Moved(o.copy)'
    BY <1>1, <2>1, <2>2 DEF Moved
  <2> QED BY <1>2, <1>3, <1>5, <2>1, <2>3, OneMoveSingle
<1> QED BY <1>4, <1>5 DEF HearPackage

\* A copy is made of the one that may be written to.
LEMMA MadeOfLast ==
  ASSUME Inv, Single, NEW k, Computers = {k}, ~Doubled(op[k]), Whole(op[k]) ,
         made < MaxCopies, made' = made + 1,
         NEW p \in Places, NEW chat \in SUBSET Messages,
         copy' = [copy EXCEPT ![made'] = NewCopy(p, chat)],
         UNCHANGED <<due, listed, offered>>
  PROVE  \A c, d \in Made' : ~Moved(c)' /\ ~Moved(d)' /\ c # d =>
            made' # NoCopy /\ {c, d} = {op[k].copy, made'}
<1>1. \A c \in Made : c # made' /\ copy'[c] = copy[c]
  BY CopyMade
<1>2. Made' = Made \cup {made'} /\ made' # NoCopy
  BY Moves DEF Made, NoCopy
<1>3. \A c \in Made : ~Moved(c)' => ~Moved(c)
  BY <1>1 DEF Moved
<1>4. \A c \in Made : ~Moved(c) => c = op[k].copy
  BY WholeIsMade DEF Single
<1> QED BY <1>2, <1>3, <1>4

LEMMA PlaceSingle ==
  ASSUME Inv, Single, NEW k, Computers = {k}, Place(k)
  PROVE  Single'
<1>1. op[k].phase = "place" /\ op[k] \in Op
  BY Moves DEF Place
<1>2. wire = {} /\ ~Doubled(op[k]) /\ Whole(op[k])
  BY <1>1, NothingAsked DEF Doubled, Whole
<1>3. CASE /\ made < MaxCopies /\ made' = made + 1
           /\ copy' = [copy EXCEPT ![made'] = NewCopy(k, op[k].chat)]
           /\ Reporting(k, made')
  <2>1. k \in Places /\ op[k].chat \in SUBSET Messages
    BY <1>1 DEF Places, Op
  <2>2. UNCHANGED <<due, listed, offered>>
    BY DEF Place
  <2>3. \A c, d \in Made' : ~Moved(c)' /\ ~Moved(d)' /\ c # d =>
            made' # NoCopy /\ {c, d} = {op[k].copy, made'}
    BY <1>2, <1>3, <2>1, <2>2, MadeOfLast
  <2> PICK n : n = made'
    OBVIOUS
  <2> QED BY <1>2, <1>3, <2>3, ReportingSingle
<1>4. CASE UNCHANGED <<made, copy>> /\ Reporting(k, NoCopy)
  <2>1. \A c, d \in Made' : ~Moved(c)' /\ ~Moved(d)' => c = d
    BY <1>2, <1>4 DEF Single, Moved, Made
  <2> QED BY <1>2, <1>4, <2>1, ReportingSingle
<1> QED BY <1>3, <1>4 DEF Place

\* A move is told that nothing came of it.
LEMMA RefusedSingle ==
  ASSUME Inv, Single, NEW k, Computers = {k}, NEW r \in wire,
         r.type # "Exported", Answer(r, "error"), UNCHANGED <<made, copy>>
  PROVE  Single'
<1>1. /\ r.at = k /\ r.heard /\ wire \ {r} = {} /\ op[k].copy = r.copy
      /\ op[k].phase = PhaseOf(r.type) /\ op[k].answer = "none"
  BY AskedByMove
<1>2. op[k] \in Op /\ op \in [Computers -> Op] /\ Made' = Made
      /\ op[k].phase \in {"import", "export"}
  BY <1>1, Moves DEF Made, PhaseOf, Request
<1> PICK o : o = [op[k] EXCEPT !.answer = "error"]
  OBVIOUS
<1>3. /\ op'[k] = o /\ o.answer = "error" /\ o.phase = op[k].phase
      /\ o.copy = op[k].copy /\ wire' = {}
  BY <1>1, <1>2 DEF Answer, Op
<1>4. ~Doubled(op[k]) /\ (Whole(o) => Whole(op[k]))
  BY <1>1, <1>2, <1>3 DEF Doubled, Whole
<1>5. Whole(o) => ~Moved(o.copy)'
  BY <1>3, <1>4 DEF Single, Moved
<1>6. \A c, d \in Made' : ~Moved(c)' /\ ~Moved(d)' => c = d
  BY <1>2, <1>4 DEF Single, Moved
<1> QED BY <1>3, <1>5, <1>6, OneMoveSingle

LEMMA ImportSingle ==
  ASSUME Inv, Single, NEW k, Computers = {k}, NEW r \in wire, Import(r)
  PROVE  Single'
<1>1. /\ r.at = k /\ r.heard /\ wire \ {r} = {} /\ op[k].copy = r.copy
      /\ op[k].phase = "import" /\ op[k].answer = "none" /\ r.type = "Import"
      /\ r \in Request
  BY AskedByMove, Requests DEF Import, PhaseOf
<1>2. op[k] \in Op /\ op \in [Computers -> Op] /\ ~Doubled(op[k]) /\ Whole(op[k])
  BY <1>1, Moves DEF Doubled, Whole
<1>3. CASE UNCHANGED <<made, copy>> /\ Answer(r, "error")
  BY <1>1, <1>3, RefusedSingle
<1>4. CASE /\ made < MaxCopies /\ made' = made + 1
           /\ copy' = [copy EXCEPT ![made'] = NewCopy(Server, r.chat)]
           /\ wire' = wire \ {r}
           /\ op' = IF r.heard THEN [op EXCEPT ![r.at].answer = "ok",
                                               ![r.at].made = made'] ELSE op
  <2>1. Server \in Places /\ r.chat \in SUBSET Messages
    BY <1>1 DEF Places, Request
  <2>2. UNCHANGED <<due, listed, offered>>
    BY DEF Import
  <2>3. \A c, d \in Made' : ~Moved(c)' /\ ~Moved(d)' /\ c # d =>
            made' # NoCopy /\ {c, d} = {op[k].copy, made'}
    BY <1>2, <1>4, <2>1, <2>2, MadeOfLast
  <2> PICK n : n = made'
    OBVIOUS
  <2> PICK o : o = [op[k] EXCEPT !.answer = "ok", !.made = n]
    OBVIOUS
  <2>4. /\ op'[k] = o /\ o.answer = "ok" /\ o.made = n /\ o.copy = op[k].copy
        /\ o.phase = "import"
    BY <1>1, <1>2, <1>4 DEF Op
  <2>5. op[k].copy \in Made /\ copy'[op[k].copy] = copy[op[k].copy]
    BY <1>2, <1>4, <2>1, <2>2, CopyMade, WholeIsMade
  <2>6. ~Moved(o.copy)'
    BY <1>2, <2>4, <2>5 DEF Single, Moved
  <2>7. Doubled(o) /\ wire' = {}
    BY <1>1, <1>4, <2>4 DEF Doubled
  <2>8. \A c, d \in Made' : ~Moved(c)' /\ ~Moved(d)' /\ c # d =>
          Doubled(o) /\ {c, d} = {o.copy, o.made}
    BY <2>3, <2>4, <2>7, Zenon
  <2> QED BY <2>4, <2>6, <2>7, <2>8, OneMoveSingle
<1> QED BY <1>3, <1>4 DEF Import

LEMMA ExportSingle ==
  ASSUME Inv, Single, NEW k, Computers = {k}, NEW r \in wire, Export(r)
  PROVE  Single'
<1>1. /\ r.at = k /\ r.heard /\ wire \ {r} = {} /\ op[k].copy = r.copy
      /\ op[k].phase = "export" /\ op[k].answer = "none" /\ r.type = "Export"
      /\ r.copy \in Made
  BY AskedByMove DEF Export, PhaseOf
<1>2. /\ op[k] \in Op /\ op \in [Computers -> Op] /\ ~Doubled(op[k])
      /\ Made' = Made
  BY <1>1, Moves DEF Doubled, Export, Made
<1>3. CASE UNCHANGED copy /\ Answer(r, "error")
  <2>1. UNCHANGED <<made, copy>>
    BY <1>3 DEF Export
  <2> QED BY <1>1, <1>3, <2>1, RefusedSingle
<1>4. CASE /\ Movable(r.copy)
           /\ copy' = [copy EXCEPT ![r.copy].asked = Nowhere]
           /\ wire' = wire \ {r}
           /\ op' = IF ~r.heard THEN op
                    ELSE [op EXCEPT ![r.at].answer = "ok",
                            ![r.at].chat = copy[r.copy].chat,
                            ![r.at].by = IF @ = "user" THEN @
                                         ELSE copy[r.copy].asking]
  <2> PICK chat : chat = copy[r.copy].chat
    OBVIOUS
  <2> PICK by : by = IF op[k].by = "user" THEN op[k].by ELSE copy[r.copy].asking
    OBVIOUS
  <2> PICK o : o = [op[k] EXCEPT !.answer = "ok", !.chat = chat, !.by = by]
    OBVIOUS
  <2>1. op'[k] = o
    BY <1>1, <1>2, <1>4
  <2>2. o.phase = "export" /\ o.copy = r.copy
    BY <1>1, <1>2 DEF Op
  <2>3. \A c \in Made : Moved(c)' = Moved(c)
    BY <1>1, <1>4, Records DEF Moved, Copy
  <2>4. Whole(o) => ~Moved(o.copy)'
    BY <1>1, <1>4, <2>2, <2>3 DEF Movable
  <2>5. \A c, d \in Made' : ~Moved(c)' /\ ~Moved(d)' => c = d
    BY <1>2, <2>3 DEF Single
  <2> QED BY <1>1, <1>4, <2>1, <2>4, <2>5, OneMoveSingle
<1> QED BY <1>3, <1>4 DEF Export

\* The report retires the session that left, so the one that was placed is all.
LEMMA ExportedSingle ==
  ASSUME Inv, Single, NEW k, Computers = {k}, NEW r \in wire, Exported(r)
  PROVE  Single'
<1>1. /\ r.at = k /\ r.heard /\ wire \ {r} = {} /\ op[k].copy = r.copy
      /\ op[k].phase = "report" /\ op[k].answer = "none" /\ r.copy \in Made
      /\ r.made = op[k].made
  BY AskedByMove DEF Exported, PhaseOf
<1>2. op[k] \in Op /\ op \in [Computers -> Op] /\ Made' = Made
  BY Moves DEF Exported, Made
<1> PICK o : o = [op[k] EXCEPT !.answer = "ok"]
  OBVIOUS
<1>3. op'[k] = o /\ o.phase = "report" /\ o.answer = "ok" /\ wire' = {}
  BY <1>1, <1>2 DEF Exported, Answer, Op
<1>4. ~Whole(o)
  BY <1>3 DEF Whole
<1>5. \A c, d \in Made : ~Moved(c)' /\ ~Moved(d)' => c = d
  <2>1. CASE r.made = NoCopy
    <3>1. \A c \in Made : Moved(c)' = Moved(c)
      BY <2>1, Records DEF Exported, Moved, Copy
    <3>2. ~Doubled(op[k])
      BY <1>1, <2>1 DEF Doubled
    <3> QED BY <3>1, <3>2 DEF Single
  <2>2. CASE r.made # NoCopy
    <3>1. /\ copy'[r.copy].movedTo # NoCopy
          /\ \A c \in Made \ {r.copy} : copy'[c] = copy[c]
      BY <1>1, <2>2, Records DEF Exported, Copy
    <3>2. \A c \in Made : ~Moved(c)' => ~Moved(c) /\ c # op[k].copy
      BY <1>1, <3>1 DEF Moved
    <3> QED BY <3>2 DEF Single
  <2> QED BY <2>1, <2>2
<1> QED BY <1>2, <1>3, <1>4, <1>5, OneMoveSingle

\* Only a fault is counted.
LEMMA FaultsStay ==
  ASSUME Next
  PROVE  faults' = faults \/ Fault
<1>1. ASSUME NEW c \in Made, NEW m \in Messages,
             NEW k \in Computers \cup {Nowhere}, Message(c, m, k)
      PROVE  faults' = faults
  BY <1>1 DEF Message
<1>2. ASSUME NEW c \in Made,
             \/ Ask(c) \/ EndTurn(c) \/ Archive(c) \/ Unarchive(c)
             \/ ScheduledMove(c) \/ CancelReturn(c)
      PROVE  faults' = faults
  BY <1>2 DEF Ask, EndTurn, Archive, Unarchive, ScheduledMove, CancelReturn
<1>3. ASSUME NEW c \in Made, NEW k \in Computers,
             Return(k, c) \/ Forget(k, c) \/ Move(k, c) \/ MoveDue(k, c)
      PROVE  faults' = faults
  BY <1>3 DEF Return, Forget, Move, MoveDue
<1>4. ASSUME NEW k \in Computers,
             \/ Poll(k) \/ List(k) \/ Show(k)
             \/ Retire(k) \/ HearPackage(k) \/ Place(k) \/ Reported(k)
      PROVE  faults' = faults
  BY <1>4 DEF Poll, List, Listed, Show, Retire, HearPackage, Place, Reported
<1>5. ASSUME NEW r \in wire, Import(r) \/ Export(r) \/ Exported(r)
      PROVE  faults' = faults
  BY <1>5 DEF Import, Export, Exported
<1>6. ASSUME NEW k \in Computers, Drop(k) \/ RestartComputer(k)
      PROVE  Fault
  BY <1>6 DEF Drop, RestartComputer
<1>7. RestartServer => Fault
  BY DEF RestartServer
<1> QED BY <1>1, <1>2, <1>3, <1>4, <1>5, <1>6, <1>7 DEF Next

\* Without a fault, every step of the only computer and the server keeps it.
LEMMA AloneKept ==
  ASSUME Inv, Alone, NEW k, Computers = {k}, Next
  PROVE  Alone'
<1> SUFFICES ASSUME faults' = 0 PROVE Single'
  BY DEF Alone
<1>1. ASSUME Fault PROVE FALSE
  BY <1>1, FaultsTyped, MovingAssumption DEF Fault
<1>2. faults = 0
  BY <1>1, FaultsStay
<1>3. Single
  BY <1>2 DEF Alone
<1>4. CASE \E c \in Made :
        \/ \E m \in Messages, l \in Computers \cup {Nowhere} : Message(c, m, l)
        \/ Ask(c) \/ EndTurn(c) \/ Archive(c) \/ Unarchive(c)
        \/ ScheduledMove(c) \/ CancelReturn(c)
  BY <1>3, <1>4, MessageSingle, SessionSingle
<1>5. CASE \/ Poll(k) \/ List(k) \/ Show(k)
           \/ \E c \in Made : Return(k, c) \/ Forget(k, c)
  BY <1>3, <1>5, ListsSingle
<1>6. CASE \E c \in Made : Move(k, c)
  BY <1>3, <1>6, MoveStartsSingle DEF Move
<1>7. CASE \E c \in Made : MoveDue(k, c)
  <2> PICK c \in Made : MoveDue(k, c)
    BY <1>7
  <2>1. UNCHANGED <<made, copy>>
    BY DEF MoveDue
  <2>2. CASE UNCHANGED <<op, wire>>
    BY <1>3, <2>1, <2>2, WholeIsMade, SingleStays
  <2>3. CASE MoveToServer(k, c, "agent") \/ MoveHere(k, c, "agent")
    BY <1>3, <2>1, <2>3, MoveStartsSingle
  <2> QED BY <2>2, <2>3 DEF MoveDue
<1>8. CASE Retire(k) \/ HearPackage(k) \/ Place(k) \/ Reported(k)
  BY <1>3, <1>8, RetireSingle, HearPackageSingle, PlaceSingle, ReportedSingle
<1>9. CASE \E r \in wire : Import(r) \/ Export(r) \/ Exported(r)
  BY <1>3, <1>9, ImportSingle, ExportSingle, ExportedSingle
<1>10. ~Drop(k) /\ ~RestartComputer(k) /\ ~RestartServer
  BY <1>1 DEF Drop, RestartComputer, RestartServer
<1> QED BY <1>4, <1>5, <1>6, <1>7, <1>8, <1>9, <1>10 DEF Next

\* One computer moves its conversations there and back, and no connection is
\* dropped and nothing restarts: one copy is left to write to when no move is
\* under way (Service::move_session, move_here, export, exported).
THEOREM OneCopyAlways ==
  ASSUME NEW k, Computers = {k}
  PROVE  Spec => []OneCopyGoesOn
<1>1. Init => Alone
  <2> SUFFICES ASSUME Init PROVE Single
    BY DEF Alone
  <2>1. /\ made = 1 /\ op[k] = Idle /\ wire = {}
    BY DEF Init
  <2>2. \A c, d \in Made : c = d
    BY <2>1 DEF Made
  <2>3. ~Whole(Idle)
    BY IdleIsOp DEF Whole
  <2> QED BY <2>1, <2>2, <2>3 DEF Single
<1>2. Inv /\ Alone /\ [Next]_vars => Alone'
  <2>1. ASSUME Inv, Alone, UNCHANGED vars PROVE Alone'
    BY <2>1, SingleStays, WholeIsMade DEF vars, Alone
  <2> QED BY <2>1, AloneKept
<1>3. Inv /\ Alone => OneCopyGoesOn
  <2> SUFFICES ASSUME Alone, faults = 0, op[k] = Idle
               PROVE  \A c, d \in Made : ~Moved(c) /\ ~Moved(d) => c = d
    BY DEF OneCopyGoesOn
  <2>1. ~Doubled(op[k])
    BY IdleIsOp DEF Doubled
  <2> QED BY <2>1 DEF Alone, Single
<1> QED BY <1>1, <1>2, <1>3, InvAlways, PTL DEF Spec

=============================================================================
