---------------------------- MODULE Watching_proofs ----------------------------
(***************************************************************************)
(* What the runs of Watching check on a small instance, for every value of *)
(* its constants: whatever is streamed fits what its receiver holds, the   *)
(* relay knows what its app holds, and no copy is a mixture.               *)
(*                                                                         *)
(* The argument: the replies on a connection form a chain, each fitting    *)
(* what the one before leaves (Chained).  A sender adds to the end of the  *)
(* chain what was made for its last member; a receiver takes its first.    *)
(***************************************************************************)
EXTENDS Watching, Transport_proofs

-----------------------------------------------------------------------------
(* Sequences of replies *)

IsSequence(c) == c \in Seq({c[i] : i \in DOMAIN c})

\* A reply added to a channel.
LEMMA Appended ==
  ASSUME NEW c, IsSequence(c), NEW m
  PROVE  /\ IsSequence(Append(c, m))
         /\ Len(c) \in Nat /\ DOMAIN c = 1..Len(c)
         /\ Append(c, m) # <<>>
         /\ Len(Append(c, m)) = Len(c) + 1
         /\ DOMAIN Append(c, m) = 1..(Len(c) + 1)
         /\ \A i \in 1..Len(c) : Append(c, m)[i] = c[i]
         /\ Append(c, m)[Len(c) + 1] = m
<1> DEFINE S == {c[i] : i \in DOMAIN c} \cup {m}
           d == Append(c, m)
<1>1. c \in Seq(S)
  BY DEF IsSequence
<1>2. d \in Seq(S) /\ Len(d) = Len(c) + 1 /\ Len(c) \in Nat
      /\ DOMAIN c = 1..Len(c) /\ DOMAIN d = 1..(Len(c) + 1)
      /\ \A i \in 1..Len(c) : d[i] = c[i]
      /\ d[Len(c) + 1] = m
  BY <1>1
<1>3. d \in Seq({d[i] : i \in DOMAIN d})
  BY <1>2
<1> QED BY <1>2, <1>3 DEF IsSequence

\* A reply taken from a channel.
LEMMA Taking ==
  ASSUME NEW c, IsSequence(c), c # <<>>
  PROVE  /\ IsSequence(Tail(c))
         /\ Len(c) \in Nat \ {0} /\ DOMAIN c = 1..Len(c)
         /\ Head(c) = c[1]
         /\ Len(Tail(c)) = Len(c) - 1
         /\ DOMAIN Tail(c) = 1..(Len(c) - 1)
         /\ \A i \in 1..(Len(c) - 1) : Tail(c)[i] = c[i + 1]
<1> DEFINE S == {c[i] : i \in DOMAIN c}
           d == Tail(c)
<1>1. c \in Seq(S)
  BY DEF IsSequence
<1>2. d \in Seq(S) /\ Len(d) = Len(c) - 1 /\ Len(c) \in Nat \ {0}
      /\ DOMAIN c = 1..Len(c) /\ DOMAIN d = 1..(Len(c) - 1) /\ Head(c) = c[1]
      /\ \A i \in 1..(Len(c) - 1) : d[i] = c[i + 1]
  BY <1>1
<1>3. d \in Seq({d[i] : i \in DOMAIN d})
  <2>1. Len(d) \in Nat /\ DOMAIN d = 1..Len(d)
    BY <1>2
  <2> HIDE DEF d
  <2> QED BY <2>1, <1>2
<1> QED BY <1>2, <1>3 DEF IsSequence

\* The first replies of a channel.
LEMMA Cutting ==
  ASSUME NEW c, IsSequence(c), NEW n \in 0..Len(c)
  PROVE  /\ IsSequence(SubSeq(c, 1, n))
         /\ Len(c) \in Nat /\ DOMAIN c = 1..Len(c)
         /\ DOMAIN SubSeq(c, 1, n) = 1..n
         /\ \A i \in 1..n : SubSeq(c, 1, n)[i] = c[i]
<1> DEFINE S == {c[i] : i \in DOMAIN c}
           d == SubSeq(c, 1, n)
<1>1. c \in Seq(S) /\ Len(c) \in Nat /\ DOMAIN c = 1..Len(c)
  BY DEF IsSequence
<1>2. d \in Seq(S) /\ DOMAIN d = 1..n /\ \A i \in 1..n : d[i] = c[i]
  BY <1>1
<1>3. d \in Seq({d[i] : i \in DOMAIN d})
  <2>1. Len(d) \in Nat /\ DOMAIN d = 1..Len(d)
    BY <1>2
  <2> HIDE DEF d
  <2> QED BY <2>1, <1>2
<1> QED BY <1>1, <1>2, <1>3 DEF IsSequence

-----------------------------------------------------------------------------
(* Chains *)

\* A reply made for the end of a chain makes it longer.
LEMMA ChainGrows ==
  ASSUME NEW first, NEW c, IsSequence(c), Chained(first, c), NEW m,
         Takes(m.reply, Last(first, c)),
         Taken(m.reply, Last(first, c)) = m.gives
  PROVE  /\ Chained(first, Append(c, m))
         /\ Last(first, Append(c, m)) = m.gives
<1> DEFINE d == Append(c, m)
<1>1. /\ Len(c) \in Nat /\ DOMAIN c = 1..Len(c)
      /\ d # <<>> /\ Len(d) = Len(c) + 1 /\ DOMAIN d = 1..(Len(c) + 1)
      /\ \A i \in 1..Len(c) : d[i] = c[i]
      /\ d[Len(c) + 1] = m
  BY Appended
<1> HIDE DEF d
<1>2. Last(first, d) = m.gives
  BY <1>1 DEF Last
<1>3. c = <<>> <=> Len(c) = 0
  BY DEF IsSequence
<1>4. ASSUME NEW i \in DOMAIN d
      PROVE  LET before == IF i = 1 THEN first ELSE d[i - 1].gives
             IN  Takes(d[i].reply, before) /\ Taken(d[i].reply, before) = d[i].gives
  <2>1. CASE i = Len(c) + 1
    <3>1. (IF i = 1 THEN first ELSE d[i - 1].gives) = Last(first, c)
      BY <1>1, <1>3, <2>1 DEF Last
    <3> QED BY <3>1, <2>1, <1>1
  <2>2. CASE i # Len(c) + 1
    <3>1. i \in 1..Len(c) /\ d[i] = c[i] /\ (i # 1 => d[i - 1] = c[i - 1])
      BY <1>1, <2>2
    <3> QED BY <3>1, <1>1 DEF Chained
  <2> QED BY <2>1, <2>2
<1>5. Chained(first, d)
  BY <1>4 DEF Chained
<1> QED BY <1>2, <1>5 DEF d

\* Whoever takes the first reply of a chain can take the rest.
LEMMA ChainTaken ==
  ASSUME NEW first, NEW c, IsSequence(c), c # <<>>, Chained(first, c)
  PROVE  /\ Takes(Head(c).reply, first)
         /\ Taken(Head(c).reply, first) = Head(c).gives
         /\ Chained(Head(c).gives, Tail(c))
         /\ Last(Head(c).gives, Tail(c)) = Last(first, c)
<1> DEFINE d == Tail(c)
<1>1. /\ IsSequence(d)
      /\ Len(c) \in Nat \ {0} /\ DOMAIN c = 1..Len(c) /\ Head(c) = c[1]
      /\ Len(d) = Len(c) - 1 /\ DOMAIN d = 1..(Len(c) - 1)
      /\ \A i \in 1..(Len(c) - 1) : d[i] = c[i + 1]
  BY Taking
<1> HIDE DEF d
<1>2. Takes(c[1].reply, first) /\ Taken(c[1].reply, first) = c[1].gives
  BY <1>1 DEF Chained
<1>3. ASSUME NEW i \in DOMAIN d
      PROVE  LET before == IF i = 1 THEN c[1].gives ELSE d[i - 1].gives
             IN  Takes(d[i].reply, before) /\ Taken(d[i].reply, before) = d[i].gives
  <2>1. /\ i + 1 \in DOMAIN c /\ i + 1 # 1 /\ (i + 1) - 1 = i /\ d[i] = c[i + 1]
        /\ i # 1 => d[i - 1] = c[i]
    BY <1>1
  <2>2. (IF i = 1 THEN c[1].gives ELSE d[i - 1].gives)
          = (IF i + 1 = 1 THEN first ELSE c[(i + 1) - 1].gives)
    BY <2>1
  <2> QED BY <2>1, <2>2 DEF Chained
<1>4. Chained(c[1].gives, d)
  BY <1>3 DEF Chained
<1>5. d = <<>> <=> Len(d) = 0
  BY <1>1 DEF IsSequence
<1>6. Last(c[1].gives, d) = Last(first, c)
  BY <1>1, <1>5 DEF Last
<1> QED BY <1>1, <1>2, <1>4, <1>6 DEF d

\* The first replies of a chain are one.
LEMMA ChainCut ==
  ASSUME NEW first, NEW c, IsSequence(c), Chained(first, c), NEW n \in 0..Len(c)
  PROVE  Chained(first, SubSeq(c, 1, n))
<1> DEFINE d == SubSeq(c, 1, n)
<1>1. /\ Len(c) \in Nat /\ DOMAIN c = 1..Len(c) /\ DOMAIN d = 1..n
      /\ \A i \in 1..n : d[i] = c[i]
  BY Cutting
<1> HIDE DEF d
<1>2. ASSUME NEW i \in DOMAIN d
      PROVE  LET before == IF i = 1 THEN first ELSE d[i - 1].gives
             IN  Takes(d[i].reply, before) /\ Taken(d[i].reply, before) = d[i].gives
  <2>1. i \in DOMAIN c /\ d[i] = c[i] /\ (i # 1 => d[i - 1] = c[i - 1])
    BY <1>1
  <2> QED BY <2>1 DEF Chained
<1>3. Chained(first, d)
  BY <1>2 DEF Chained
<1> QED BY <1>3 DEF d

-----------------------------------------------------------------------------
(* The invariant *)

\* Bounded counters and flags.
Counts ==
  /\ runs \in 0..MaxCrashes /\ lost \in BOOLEAN
  /\ link \in BOOLEAN /\ drops \in 0..MaxDrops
  /\ held \in BOOLEAN /\ holds \in 0..MaxHolds
  /\ ends \in 0..MaxEnds /\ reads \in 0..MaxReads

\* What the server has had is plain.
History ==
  /\ \A s \in was : s \in Session /\ s.overlay = Plain /\ s.version <= MaxVersion
  /\ mem \in was /\ disk \in was

\* The copies of the service are the server's sessions, those of the app are
\* dressed.
Kept(s) == s = None \/ s \in was
Seen(s) == s = None \/ (s \in Session /\ Dress(s, Plain) \in was)

Copies ==
  /\ Kept(cache) /\ Kept(leaving)
  /\ Seen(current) /\ Seen(latest) /\ Seen(view) /\ Seen(reading)

\* A relay has shown the copy it has.
GoodRelay(r) ==
  /\ r \in Relays /\ Kept(r.copy)
  /\ r.copy # None =>
       r.shown \in Shows /\ r.shown = Shown(r.copy, r.shown.overlay)

\* A reply has the fields of its kind.
IsReply(r) ==
  \/ r = Unchanged
  \/ r = Whole(r.session) /\ r.session \in Session
  \/ r = Delta(r.delta) /\ IsDelta(r.delta)

\* A stream to one who holds copy.
GoodStream(str, copy) ==
  /\ str = [held |-> str.held, sent |-> str.sent, open |-> str.open,
            chan |-> str.chan]
  /\ str.open \in BOOLEAN /\ Kept(str.sent)
  /\ IsSequence(str.chan)
  /\ \A i \in DOMAIN str.chan :
       IsReply(str.chan[i].reply) /\ str.chan[i].gives \in was
  /\ Chained(copy, str.chan)
  /\ str.open =>
       IF str.sent # None
       THEN Last(copy, str.chan) = str.sent /\ str.held = None
       ELSE /\ str.chan = <<>>
            /\ str.held = IF copy = None THEN None ELSE Fingerprint(copy)

\* Replies that leave the app with something the server has had.
GoodWire(c) ==
  /\ IsSequence(c)
  /\ \A i \in DOMAIN c : c[i].gives \in Session /\ Dress(c[i].gives, Plain) \in was

\* The app, having taken these, holds the relay's copy.
InStepWith(r, cur, c) ==
  /\ Chained(cur, c)
  /\ r.copy # None => Last(cur, c) = Dress(r.copy, r.shown.overlay)

\* Nothing is on its way where nobody relays.
Relayed ==
  /\ relay # None => GoodRelay(relay) /\ InStepWith(relay, current, wire)
  /\ relay = None => wire = <<>>
Streamed == stream # None => relay # None /\ GoodStream(stream, relay.copy)

Inv == Counts /\ History /\ Copies /\ GoodWire(wire) /\ Relayed /\ Streamed

LEMMA PlainIsOverlay == Plain \in Overlay
  BY DEF Plain, Overlay

\* A session of the server is not changed by taking off what nobody put on.
LEMMA PlainSession ==
  ASSUME NEW s \in Session, s.overlay = Plain
  PROVE  Dress(s, Plain) = s
  BY PlainIsOverlay, Dressed

LEMMA Bounds ==
  /\ MaxVersion \in Nat /\ MaxCrashes \in Nat /\ MaxDrops \in Nat
  /\ MaxHolds \in Nat /\ MaxEnds \in Nat /\ MaxReads \in Nat
  BY WatchingAssumption

\* It says all that the runs check.
LEMMA InvImplies ==
  ASSUME Inv
  PROVE  TypeOK /\ StreamFits /\ AppInStep /\ NothingIsMixed
<1> USE DEF Inv
<1>1. StreamFits
  BY DEF StreamFits, Streamed, GoodStream
<1>2. AppInStep
  BY DEF AppInStep, Relayed, GoodRelay, InStepWith
<1>3. NothingIsMixed
  <2>1. ASSUME NEW s \in was PROVE Dress(s, Plain) = s
    BY PlainSession DEF History
  <2> QED BY <2>1 DEF NothingIsMixed, Copies, Kept, Seen, Relayed, GoodRelay
<1>4. TypeOK
  <2>1. {mem, disk} \cup was \subseteq Session
    BY DEF History
  <2>2. stream # None => /\ stream.open \in BOOLEAN
                         /\ stream.sent \in Optional(Session)
                         /\ Channel(stream.chan)
    BY DEF History, Streamed, GoodStream, Kept, Optional, Channel, IsSequence
  <2>3. relay \in Optional(Relays)
    BY DEF Relayed, GoodRelay, Optional
  <2>4. Channel(wire)
    BY DEF GoodWire, Channel, IsSequence
  <2>5. {cache, leaving, current, latest, view, reading}
          \subseteq Optional(Session)
    BY DEF History, Copies, Kept, Seen, Optional
  <2> QED BY <2>1, <2>2, <2>3, <2>4, <2>5 DEF TypeOK, Counts
<1> QED BY <1>1, <1>2, <1>3, <1>4

\* A fresh session (Session::new) and nobody who watches.
LEMMA InvInitially == Init => Inv
<1> SUFFICES ASSUME Init PROVE Inv
  OBVIOUS
<1> USE DEF Init
<1>1. Fresh \in Session /\ Fresh.overlay = Plain /\ Fresh.version = 0
  BY DEF Fresh, Session, Plain, Overlay
<1>2. Counts
  <2>1. runs = 0 /\ drops = 0 /\ holds = 0 /\ ends = 0 /\ reads = 0
    OBVIOUS
  <2>2. lost \in BOOLEAN /\ link \in BOOLEAN /\ held \in BOOLEAN
    BY Zenon
  <2> QED BY <2>1, <2>2, Bounds DEF Counts
<1>3. History
  BY <1>1, Bounds DEF History
<1>4. Copies
  BY DEF Copies, Kept, Seen
<1>5. GoodWire(wire)
  BY DEF GoodWire, IsSequence
<1> QED BY <1>2, <1>3, <1>4, <1>5 DEF Inv, Relayed, Streamed

-----------------------------------------------------------------------------
(* The server's session *)

\* What an edit makes of a plain session is one.
LEMMA EditedIsSession ==
  ASSUME Counts, NEW s \in Session, s.overlay = Plain, s.version < MaxVersion,
         NEW edit \in EditKind, NEW agent \in Agents
  PROVE  /\ Edited(s, edit, agent) \in Session
         /\ Edited(s, edit, agent).overlay = Plain
         /\ Edited(s, edit, agent).version <= MaxVersion
<1> DEFINE e == <<runs, s.version + 1>>
           next == [s EXCEPT !.version = @ + 1]
<1>1. e \in Entry
  <2>1. runs \in 0..MaxCrashes /\ s.version + 1 \in 0..MaxVersion
    BY Bounds DEF Counts, Session
  <2>2. (0..MaxCrashes) \X (0..MaxVersion) \subseteq Entry
    BY WatchingAssumption
  <2> QED BY <2>1, <2>2
<1>2. next \in Session /\ next.overlay = Plain /\ next.version <= MaxVersion
  BY Bounds DEF Session
<1> HIDE DEF e
<1>3. CASE edit = "speak"
  <2>1. Edited(s, edit, agent) = [next EXCEPT !.entries = Append(@, e)]
    BY <1>3 DEF Edited, Stamp, e
  <2>2. Append(next.entries, e) \in Seq(Entry)
    BY <1>1, <1>2 DEF Session
  <2> QED BY <2>1, <2>2, <1>2 DEF Session
<1>4. CASE edit = "rewrite"
  <2>1. Edited(s, edit, agent) =
          [next EXCEPT !.entries =
             [i \in DOMAIN @ |-> IF i = Len(@) THEN e ELSE @[i]]]
    BY <1>4 DEF Edited, Stamp, e
  <2>2. next.entries \in Seq(Entry)
    BY <1>2 DEF Session
  <2>3. [i \in DOMAIN next.entries |->
           IF i = Len(next.entries) THEN e ELSE next.entries[i]] \in Seq(Entry)
    BY <1>1, <2>2
  <2> QED BY <2>1, <2>3, <1>2 DEF Session
<1>5. CASE edit = "child"
  <2>1. Edited(s, edit, agent) =
          [next EXCEPT !.subagents[agent] = Append(Said(s, agent), e)]
    BY <1>5 DEF Edited, Stamp, e
  <2>2. Said(s, agent) \in Seq(Entry)
    BY DEF Said, Present, Session
  <2>3. Append(Said(s, agent), e) \in Seq(Entry)
    BY <1>1, <2>2
  <2>4. [next.subagents EXCEPT ![agent] = Append(Said(s, agent), e)]
          \in [Agents -> Seq(Entry) \cup {None}]
    BY <2>3, <1>2 DEF Session
  <2> QED BY <2>1, <2>4, <1>2 DEF Session
<1>6. CASE edit = "clear"
  <2>1. Edited(s, edit, agent) =
          [next EXCEPT !.entries = <<>>, !.subagents = [a \in Agents |-> None]]
    BY <1>6 DEF Edited
  <2>2. [a \in Agents |-> None] \in [Agents -> Seq(Entry) \cup {None}]
    OBVIOUS
  <2>3. <<>> \in Seq(Entry)
    OBVIOUS
  <2> QED BY <2>1, <2>2, <2>3, <1>2 DEF Session
<1> QED BY <1>3, <1>4, <1>5, <1>6 DEF EditKind

\* Nobody who only adds to what the server has had disturbs a connection.
LEMMA ConnectionsKept ==
  ASSUME Inv, UNCHANGED <<stream, relay, wire, current>>, was \subseteq was'
  PROVE  GoodWire(wire)' /\ Relayed' /\ Streamed'
<1>1. GoodWire(wire)'
  BY DEF Inv, GoodWire
<1>2. Relayed'
  BY DEF Inv, Relayed, GoodRelay, InStepWith, Kept
<1>3. Streamed'
  BY DEF Inv, Streamed, GoodStream, Kept
<1> QED BY <1>1, <1>2, <1>3

LEMMA UpdateKeeps ==
  ASSUME Inv, NEW edit \in EditKind, NEW agent \in Agents, Update(edit, agent)
  PROVE  Inv'
<1> USE DEF Update, serverVars, linkVars, heldVars, appVars, readVars
<1>1. mem \in Session /\ mem.overlay = Plain
  BY DEF Inv, History
<1>2. mem' \in Session /\ mem'.overlay = Plain /\ mem'.version <= MaxVersion
  BY <1>1, EditedIsSession DEF Inv
<1>3. History'
  BY <1>2 DEF Inv, History
<1>4. Counts' /\ Copies'
  BY DEF Inv, Counts, Copies, Kept, Seen
<1>5. GoodWire(wire)' /\ Relayed' /\ Streamed'
  BY ConnectionsKept
<1> QED BY <1>3, <1>4, <1>5 DEF Inv

\* What the cache keeps of two copies of the service is one.
LEMMA CachedIsKept ==
  ASSUME Kept(cache), NEW s \in was
  PROVE  Kept(Cached(s))
  BY DEF Kept, Cached

\* A file written, a connection made, a message held or delivered, a snapshot
\* taken, a relay that ends, a session shown or read.
LEMMA UnwatchedKeeps ==
  ASSUME Inv,
         Flush \/ Connect \/ Hold \/ Delivered \/ Prefetch \/ Leave \/ Show
           \/ Read \/ HandleRead
  PROVE  Inv'
<1> USE DEF serverVars, linkVars, heldVars, appVars, readVars
<1>1. UNCHANGED <<stream, relay, wire, current, was, mem>>
  BY DEF Flush, Connect, Hold, Delivered, Prefetch, Leave, Show, Read, HandleRead
<1>2. GoodWire(wire)' /\ Relayed' /\ Streamed'
  BY <1>1, ConnectionsKept
<1>3. Counts' /\ History' /\ Copies'
  <2>1. CASE Flush
    BY <2>1 DEF Flush, Inv, Counts, History, Copies, Kept, Seen
  <2>2. CASE Connect
    BY <2>2 DEF Connect, Inv, Counts, History, Copies, Kept, Seen
  <2>3. CASE Hold
    <3>1. holds' \in 0..MaxHolds
      BY <2>3, Bounds DEF Hold, Inv, Counts
    <3>2. Counts'
      BY <2>3, <3>1 DEF Hold, Inv, Counts
    <3> QED BY <2>3, <3>2 DEF Hold, Inv, History, Copies, Kept, Seen
  <2>4. CASE Delivered
    BY <2>4 DEF Delivered, Inv, Counts, History, Copies, Kept, Seen
  <2>5. CASE Prefetch
    <3>1. Kept(Cached(mem))
      BY CachedIsKept DEF Inv, Copies, History
    <3> QED BY <2>5, <3>1 DEF Prefetch, Inv, Counts, History, Copies, Kept, Seen
  <2>6. CASE Leave
    <3>1. Kept(Cached(leaving))
      BY <2>6, CachedIsKept DEF Leave, Inv, Copies, Kept
    <3> QED BY <2>6, <3>1 DEF Leave, Inv, Counts, History, Copies, Kept, Seen
  <2>7. CASE Show
    <3>1. Seen(Viewed(latest))
      BY DEF Viewed, Inv, Copies, Seen
    <3> QED BY <2>7, <3>1 DEF Show, Inv, Counts, History, Copies, Kept, Seen
  <2>8. CASE Read
    <3> DEFINE source == IF link THEN mem ELSE cache
    <3>1. source \in was
      BY <2>8 DEF Read, Inv, History, Copies, Kept
    <3>2. CurrentOverlay \in Overlay
      BY DEF CurrentOverlay, Overlay, Inv, Counts
    <3>3. Seen(Dress(source, CurrentOverlay))
      <4>1. source \in Session /\ source.overlay = Plain
        BY <3>1 DEF Inv, History
      <4>2. Dress(source, CurrentOverlay) \in Session
            /\ Dress(Dress(source, CurrentOverlay), Plain) = source
        BY <4>1, <3>2, Dressed, PlainSession
      <4> QED BY <4>2, <3>1 DEF Seen
    <3>4. Kept(Cached(mem))
      BY CachedIsKept DEF Inv, Copies, History
    <3>5. reads' \in 0..MaxReads
      BY <2>8, Bounds DEF Read, Inv, Counts
    <3>6. Counts'
      BY <2>8, <3>5 DEF Read, Inv, Counts
    <3>7. Kept(cache)' /\ Seen(reading)'
      BY <2>8, <3>3, <3>4 DEF Read, Kept, Seen, Inv, Copies
    <3> QED BY <2>8, <3>6, <3>7 DEF Read, Inv, History, Copies, Kept, Seen
  <2>9. CASE HandleRead
    <3>1. Seen(Viewed(reading))
      BY DEF Viewed, Inv, Copies, Seen
    <3> QED BY <2>9, <3>1
            DEF HandleRead, Inv, Counts, History, Copies, Kept, Seen
  <2> QED BY <2>1, <2>2, <2>3, <2>4, <2>5, <2>6, <2>7, <2>8, <2>9
<1> QED BY <1>2, <1>3 DEF Inv

-----------------------------------------------------------------------------
(* The stream *)

\* What the service streams next fits the end of what it has streamed.
LEMMA NextFits ==
  ASSUME History, NEW str, NEW copy, GoodStream(str, copy), Kept(copy), str.open
  PROVE  LET reply == CASE str.sent # None -> Delta(Between(str.sent, mem))
                        [] str.held # None -> Resume(str.held, mem)
                        [] OTHER           -> Whole(mem)
             end   == Last(copy, str.chan)
         IN  IsReply(reply) /\ Takes(reply, end) /\ Taken(reply, end) = mem
<1> DEFINE reply == CASE str.sent # None -> Delta(Between(str.sent, mem))
                      [] str.held # None -> Resume(str.held, mem)
                      [] OTHER           -> Whole(mem)
           end == Last(copy, str.chan)
<1>1. mem \in Session
  BY DEF History
<1>2. CASE str.sent # None
  <2>1. str.sent \in Session /\ end = str.sent
    BY <1>2 DEF GoodStream, Kept, History
  <2>2. reply = [kind |-> "delta", delta |-> Between(str.sent, mem)]
    BY <1>2 DEF GoodStream, Delta
  <2>3. IsReply(reply)
    BY <2>1, <2>2, <1>1, BetweenApplies DEF IsReply, Delta
  <2>4. Takes(reply, end) /\ Taken(reply, end) = mem
    BY <2>1, <2>2, <1>1, <1>2, BetweenApplies DEF Takes, Taken
  <2> QED BY <2>3, <2>4
<1>3. CASE str.sent = None /\ str.held # None
  <2>1. end = copy /\ copy # None /\ str.held = Fingerprint(copy)
    BY <1>3 DEF GoodStream, Last
  <2>2. copy \in Session
    BY <2>1 DEF Kept, History
  <2>3. reply = Resume(Fingerprint(copy), mem)
    BY <1>3, <2>1
  <2>4. Takes(reply, end) /\ Taken(reply, end) = mem
    BY <2>1, <2>2, <2>3, <1>1, ResumeApplies
  <2>5. IsReply(reply)
    <3>1. IsDelta(Between(copy, mem))
      BY <2>2, <1>1, BetweenApplies
    <3>2. reply = Unchanged
          \/ reply = [kind |-> "delta", delta |-> Between(copy, mem)]
      BY <2>3, AgainstIsBetween DEF Resume, Delta
    <3> QED BY <3>1, <3>2 DEF IsReply, Delta
  <2> QED BY <2>4, <2>5
<1>4. CASE str.sent = None /\ str.held = None
  <2>1. reply = [kind |-> "session", session |-> mem]
    BY <1>4 DEF Whole
  <2> QED BY <2>1, <1>1 DEF IsReply, Whole, Takes, Taken
<1> QED BY <1>2, <1>3, <1>4

\* The service's watch keeps its stream in step with the relay's copy.
LEMMA StreamKeeps ==
  ASSUME Inv, Stream
  PROVE  Inv'
<1> USE DEF serverVars, linkVars, heldVars, appVars, readVars
<1> DEFINE reply == CASE stream.sent # None -> Delta(Between(stream.sent, mem))
                      [] stream.held # None -> Resume(stream.held, mem)
                      [] OTHER              -> Whole(mem)
           m == Message(reply, mem)
           c == stream.chan
<1>1. /\ relay # None /\ GoodStream(stream, relay.copy) /\ stream.open
      /\ Kept(relay.copy) /\ History
  BY DEF Stream, Inv, Streamed, Relayed, GoodRelay
<1>2. /\ stream' = [stream EXCEPT !.chan = Append(@, m), !.sent = mem, !.held = None]
      /\ UNCHANGED <<serverVars, linkVars, heldVars, cache, relay, leaving,
                     wire, appVars, readVars>>
  BY DEF Stream
<1>3. m.reply = reply /\ m.gives = mem
  BY DEF Message
<1>4. /\ IsReply(reply) /\ Takes(reply, Last(relay.copy, c))
      /\ Taken(reply, Last(relay.copy, c)) = mem
  BY <1>1, NextFits
<1> HIDE DEF reply, m
<1>5. IsSequence(c) /\ Chained(relay.copy, c)
  BY <1>1 DEF GoodStream
<1>6. Chained(relay.copy, Append(c, m)) /\ Last(relay.copy, Append(c, m)) = mem
  BY <1>3, <1>4, <1>5, ChainGrows
<1>7. /\ stream' = [held |-> None, sent |-> mem, open |-> TRUE,
                    chan |-> Append(c, m)]
      /\ mem # None /\ mem \in was
  <2>1. stream = [held |-> stream.held, sent |-> stream.sent,
                  open |-> stream.open, chan |-> stream.chan]
    BY <1>1 DEF GoodStream
  <2>2. stream.open = TRUE
    BY <1>1 DEF GoodStream
  <2>3. mem # None /\ mem \in was
    BY TransportAssumption DEF Inv, History
  <2> QED BY <1>2, <2>1, <2>2, <2>3
<1>8. IsSequence(Append(c, m))
  BY <1>5, Appended
<1>9. \A i \in DOMAIN Append(c, m) :
        IsReply(Append(c, m)[i].reply) /\ Append(c, m)[i].gives \in was
  <2>1. /\ Len(c) \in Nat /\ DOMAIN c = 1..Len(c)
        /\ DOMAIN Append(c, m) = 1..(Len(c) + 1)
        /\ \A i \in 1..Len(c) : Append(c, m)[i] = c[i]
        /\ Append(c, m)[Len(c) + 1] = m
    BY <1>5, Appended
  <2>2. \A i \in 1..Len(c) : IsReply(c[i].reply) /\ c[i].gives \in was
    BY <1>1, <2>1 DEF GoodStream
  <2>3. IsReply(m.reply) /\ m.gives \in was
    BY <1>3, <1>4, <1>7
  <2> HIDE DEF c
  <2>4. ASSUME NEW i \in DOMAIN Append(c, m)
        PROVE  IsReply(Append(c, m)[i].reply) /\ Append(c, m)[i].gives \in was
    <3>1. i = Len(c) + 1 \/ i \in 1..Len(c)
      BY <2>1
    <3> QED BY <3>1, <2>1, <2>2, <2>3
  <2> QED BY <2>4
<1>10. GoodStream(stream', relay.copy)
  <2> DEFINE d == Append(c, m)
  <2>1. /\ stream'.held = None /\ stream'.sent = mem /\ stream'.open = TRUE
        /\ stream'.chan = d
        /\ stream' = [held |-> stream'.held, sent |-> stream'.sent,
                      open |-> stream'.open, chan |-> stream'.chan]
    BY <1>7
  <2> HIDE DEF d
  <2> QED BY <2>1, <1>6, <1>7, <1>8, <1>9 DEF GoodStream, Kept, d
<1>11. GoodStream(stream, relay.copy)'
  BY <1>2, <1>10 DEF GoodStream, Kept
<1>12. Counts' /\ History' /\ Copies' /\ GoodWire(wire)' /\ Relayed'
  BY <1>2 DEF Inv, Counts, History, Copies, Kept, Seen, GoodWire, Relayed,
              GoodRelay, InStepWith
<1> QED BY <1>1, <1>2, <1>11, <1>12 DEF Inv, Streamed

\* What is left of a stream that was cut.
LEMMA CutIsGood ==
  ASSUME Streamed, NEW n \in 0..Readable
  PROVE  /\ Cut(n) # None => stream # None
         /\ stream # None => GoodStream(Cut(n), relay.copy)
<1>1. CASE stream = None
  BY <1>1 DEF Cut
<1>2. CASE stream # None
  <2> DEFINE c == stream.chan
             d == SubSeq(c, 1, n)
  <2>1. GoodStream(stream, relay.copy) /\ n \in 0..Len(c)
    BY <1>2 DEF Streamed, Readable
  <2>2. IsSequence(c) /\ Chained(relay.copy, c)
    BY <2>1 DEF GoodStream
  <2>3. Chained(relay.copy, d)
    BY <2>1, <2>2, ChainCut
  <2>4. /\ IsSequence(d) /\ DOMAIN c = 1..Len(c) /\ DOMAIN d = 1..n
        /\ \A i \in 1..n : d[i] = c[i]
        /\ Len(c) \in Nat
    BY <2>1, <2>2, Cutting
  <2>5. Cut(n) = [held |-> stream.held, sent |-> stream.sent, open |-> FALSE,
                  chan |-> d]
    BY <1>2, <2>1 DEF Cut, GoodStream
  <2>6. \A i \in DOMAIN d : IsReply(d[i].reply) /\ d[i].gives \in was
    <3>1. \A i \in 1..Len(c) : IsReply(c[i].reply) /\ c[i].gives \in was
      BY <2>1, <2>4 DEF GoodStream
    <3> HIDE DEF c, d
    <3> QED BY <2>1, <2>4, <3>1
  <2>7. Kept(stream.sent)
    BY <2>1 DEF GoodStream
  <2> HIDE DEF c, d
  <2>8. GoodStream(Cut(n), relay.copy)
    BY <2>3, <2>4, <2>5, <2>6, <2>7 DEF GoodStream
  <2> QED BY <1>2, <2>8
<1> QED BY <1>1, <1>2

\* The connection drops.
LEMMA DropKeeps ==
  ASSUME Inv, Drop
  PROVE  Inv'
<1> USE DEF serverVars, linkVars, heldVars, appVars, readVars
<1>1. PICK n \in 0..Readable : stream' = Cut(n)
  BY DEF Drop
<1>2. Streamed'
  <2>1. /\ Cut(n) # None => stream # None
        /\ stream # None => GoodStream(Cut(n), relay.copy)
    BY CutIsGood DEF Inv
  <2>2. stream # None => relay # None
    BY DEF Inv, Streamed
  <2>3. relay' = relay /\ was' = was
    BY DEF Drop
  <2> QED BY <1>1, <2>1, <2>2, <2>3 DEF Streamed, GoodStream, Kept
<1>3. Counts'
  <2>1. drops' \in 0..MaxDrops
    BY Bounds DEF Drop, Inv, Counts
  <2> QED BY <2>1 DEF Drop, Inv, Counts
<1>4. History' /\ Copies' /\ GoodWire(wire)' /\ Relayed'
  BY DEF Drop, Inv, History, Copies, Kept, Seen, GoodWire, Relayed, GoodRelay,
         InStepWith
<1> QED BY <1>2, <1>3, <1>4 DEF Inv

\* A start keeps the session one, whether it rewrites an entry or adds a note.
LEMMA RewrittenGood ==
  ASSUME NEW s \in Session, runs + 1 \in 0..MaxCrashes, s.version \in 0..MaxVersion
  PROVE  /\ Rewritten(s) \in Session /\ Rewritten(s).overlay = s.overlay
         /\ Rewritten(s).version = s.version
<1>1. CASE s.entries = <<>>
  BY <1>1 DEF Rewritten
<1>2. CASE s.entries # <<>>
  <2> DEFINE e == <<runs + 1, s.version>>
             q == [i \in DOMAIN s.entries |-> IF i = Len(s.entries) THEN e
                                               ELSE s.entries[i]]
  <2>1. e \in Entry
    BY WatchingAssumption
  <2> HIDE DEF e
  <2>2. s.entries \in Seq(Entry)
    BY DEF Session
  <2>3. q \in Seq(Entry)
    BY <2>1, <2>2
  <2>4. Rewritten(s) = [s EXCEPT !.entries = q]
    BY <1>2 DEF Rewritten, e
  <2> HIDE DEF q
  <2>5. s = [version |-> s.version, overlay |-> s.overlay,
             entries |-> s.entries, subagents |-> s.subagents]
    BY DEF Session
  <2>6. Rewritten(s) = [version |-> s.version, overlay |-> s.overlay,
                        entries |-> q, subagents |-> s.subagents]
    BY <2>4, <2>5
  <2> QED BY <2>3, <2>6 DEF Session
<1> QED BY <1>1, <1>2

LEMMA NotedGood ==
  ASSUME NEW s \in Session, runs + 1 \in 0..MaxCrashes, s.version + 1 \in 0..MaxVersion
  PROVE  /\ Noted(s) \in Session /\ Noted(s).overlay = s.overlay
         /\ Noted(s).version = s.version + 1
<1> DEFINE e == <<runs + 1, s.version + 1>>
<1>1. e \in Entry
  BY WatchingAssumption
<1> HIDE DEF e
<1>2. Append(s.entries, e) \in Seq(Entry)
  BY <1>1 DEF Session
<1>3. Noted(s) = [s EXCEPT !.version = @ + 1, !.entries = Append(@, e)]
  BY DEF Noted, e
<1>4. s.version + 1 \in Nat
  BY DEF Session
<1>5. s = [version |-> s.version, overlay |-> s.overlay,
           entries |-> s.entries, subagents |-> s.subagents]
  BY DEF Session
<1>6. Noted(s) = [version |-> s.version + 1, overlay |-> s.overlay,
                  entries |-> Append(s.entries, e), subagents |-> s.subagents]
  BY <1>3, <1>5
<1> QED BY <1>2, <1>4, <1>6 DEF Session

\* The server's service dies and starts again from its file.
LEMMA CrashKeeps ==
  ASSUME Inv, NEW rewritten \in BOOLEAN, NEW noted \in BOOLEAN,
         Crash(rewritten, noted)
  PROVE  Inv'
<1> USE DEF serverVars, linkVars, heldVars, appVars, readVars
<1>1. PICK n \in 0..Readable : stream' = Cut(n)
  BY DEF Crash
<1>2. was' = was \cup {mem'} /\ disk' = mem'
  BY DEF Crash
<1>3. mem' \in Session /\ mem'.overlay = Plain /\ mem'.version <= MaxVersion
  <2> DEFINE read == IF rewritten THEN Rewritten(disk) ELSE disk
  <2>1. /\ disk \in Session /\ disk.overlay = Plain
        /\ disk.version \in 0..MaxVersion /\ runs + 1 \in 0..MaxCrashes
    <3>1. disk \in Session /\ disk.overlay = Plain /\ disk.version <= MaxVersion
      BY DEF Inv, History
    <3> QED BY <3>1, Bounds DEF Inv, Counts, Crash, Session
  <2>2. /\ read \in Session /\ read.overlay = Plain
        /\ read.version = disk.version
    BY <2>1, RewrittenGood
  <2>3. mem' = IF noted THEN Noted(read) ELSE read
    BY DEF Crash
  <2> HIDE DEF read
  <2>4. CASE ~noted
    BY <2>1, <2>2, <2>3, <2>4, Bounds
  <2>5. CASE noted
    <3>1. read.version + 1 \in 0..MaxVersion
      BY <2>1, <2>2, <2>5, Bounds DEF Crash
    <3>2. /\ Noted(read) \in Session /\ Noted(read).overlay = Plain
          /\ Noted(read).version = read.version + 1
      BY <2>1, <2>2, <3>1, NotedGood
    <3> QED BY <2>3, <2>5, <3>1, <3>2, Bounds
  <2> QED BY <2>4, <2>5
<1>4. Streamed'
  <2>1. /\ Cut(n) # None => stream # None
        /\ stream # None => GoodStream(Cut(n), relay.copy)
    BY CutIsGood DEF Inv
  <2>2. stream # None => relay # None
    BY DEF Inv, Streamed
  <2>3. relay' = relay
    BY DEF Crash
  <2> QED BY <1>1, <1>2, <2>1, <2>2, <2>3 DEF Streamed, GoodStream, Kept
<1>5. Counts'
  <2>1. runs' \in 0..MaxCrashes
    BY Bounds DEF Crash, Inv, Counts
  <2>2. lost' \in BOOLEAN /\ link' \in BOOLEAN
    BY Zenon DEF Crash, Inv, Counts
  <2> QED BY <2>1, <2>2 DEF Crash, Inv, Counts
<1>6. History'
  BY <1>2, <1>3 DEF Crash, Inv, History
<1>7. Copies' /\ GoodWire(wire)' /\ Relayed'
  BY <1>2 DEF Crash, Inv, Copies, Kept, Seen, GoodWire, Relayed, GoodRelay,
              InStepWith
<1> QED BY <1>4, <1>5, <1>6, <1>7 DEF Inv

-----------------------------------------------------------------------------
(* The relay *)

\* A stream just opened, with the fingerprint of the copy there is.
LEMMA OpenedIsGood ==
  ASSUME NEW copy
  PROVE  GoodStream(Opened(copy), copy)
<1> DEFINE str == Opened(copy)
<1>1. /\ str = [held |-> IF copy = None THEN None ELSE Fingerprint(copy),
                sent |-> None, open |-> TRUE, chan |-> <<>>]
      /\ str.held = IF copy = None THEN None ELSE Fingerprint(copy)
      /\ str.sent = None /\ str.open = TRUE /\ str.chan = <<>>
  BY DEF Opened
<1> HIDE DEF str
<1>2. IsSequence(<<>>) /\ Chained(copy, <<>>)
  BY DEF IsSequence, Chained
<1>3. str = [held |-> str.held, sent |-> str.sent, open |-> str.open,
             chan |-> str.chan]
  BY <1>1
<1> QED BY <1>1, <1>2, <1>3 DEF GoodStream, Kept, str

\* The top of the relay's loop.
LEMMA TopKeeps ==
  ASSUME Counts, NEW next, GoodRelay(next),
         NEW left, left # None => GoodStream(left, next.copy),
         Top(next, left)
  PROVE  /\ GoodRelay(relay') /\ relay' # None
         /\ relay'.copy = next.copy /\ relay'.shown = next.shown
         /\ stream' # None => GoodStream(stream', next.copy)
<1>1. CurrentOverlay \in Overlay
  BY DEF CurrentOverlay, Overlay, Counts
<1>2. next = [copy |-> next.copy, shown |-> next.shown,
              unsaved |-> next.unsaved, overlay |-> next.overlay]
      /\ next.copy \in Optional(Session) /\ next.shown \in Optional(Shows)
      /\ next.unsaved \in BOOLEAN
  BY DEF GoodRelay, Relays
<1>3. relay' = [copy |-> next.copy, shown |-> next.shown,
                unsaved |-> next.unsaved, overlay |-> CurrentOverlay]
  BY <1>2 DEF Top
<1>4. relay' \in Relays
  BY <1>1, <1>2, <1>3 DEF Relays
<1>5. relay' # None
  BY <1>4, WatchingAssumption
<1>6. GoodRelay(relay') /\ relay'.copy = next.copy /\ relay'.shown = next.shown
  BY <1>3, <1>4 DEF GoodRelay
<1>7. stream' # None => GoodStream(stream', next.copy)
  <2>1. stream' = left \/ stream' = Opened(next.copy)
    BY DEF Top
  <2> QED BY <2>1, OpenedIsGood
<1> QED BY <1>5, <1>6, <1>7

\* One turn of the relay's loop, which leaves it `next`, the stream `left`, and
\* the replies `sent` on their way to the app.
LEMMA TurnKeeps ==
  ASSUME Inv, NEW due \in BOOLEAN,
         NEW next, GoodRelay(next),
         NEW left, left # None => GoodStream(left, next.copy),
         NEW sent, GoodWire(sent), InStepWith(next, current, sent),
         Loop(next, left, due), wire' = sent,
         UNCHANGED <<serverVars, linkVars, heldVars, leaving, appVars, readVars>>
  PROVE  Inv'
<1> USE DEF serverVars, linkVars, heldVars, appVars, readVars
<1> DEFINE after == [next EXCEPT !.unsaved = @ /\ ~due]
<1>1. Top(after, left)
  BY DEF Loop
<1>2. /\ next = [copy |-> next.copy, shown |-> next.shown,
                 unsaved |-> next.unsaved, overlay |-> next.overlay]
      /\ next.copy \in Optional(Session) /\ next.shown \in Optional(Shows)
      /\ next.unsaved \in BOOLEAN /\ next.overlay \in Overlay
  BY DEF GoodRelay, Relays
<1>3. after = [copy |-> next.copy, shown |-> next.shown,
               unsaved |-> next.unsaved /\ ~due, overlay |-> next.overlay]
  BY <1>2
<1>4. (next.unsaved /\ ~due) \in BOOLEAN
  OBVIOUS
<1> HIDE DEF after
<1>5. after \in Relays
  BY <1>2, <1>3, <1>4 DEF Relays
<1>6. GoodRelay(after) /\ after.copy = next.copy /\ after.shown = next.shown
  BY <1>3, <1>5 DEF GoodRelay
<1>7. Counts
  BY DEF Inv
<1>8. /\ GoodRelay(relay') /\ relay' # None
      /\ relay'.copy = next.copy /\ relay'.shown = next.shown
      /\ stream' # None => GoodStream(stream', next.copy)
  BY <1>1, <1>6, <1>7, TopKeeps
<1>9. Kept(cache')
  <2>1. next.copy # None => Kept(Cached(next.copy))
    BY CachedIsKept DEF GoodRelay, Kept, Inv, Copies
  <2>2. cache' = cache \/ (next.copy # None /\ cache' = Cached(next.copy))
    BY DEF Loop
  <2> QED BY <2>1, <2>2 DEF Inv, Copies
<1>10. Streamed'
  BY <1>8 DEF Streamed, GoodStream, Kept
<1>11. Relayed'
  BY <1>8 DEF Relayed, GoodRelay, InStepWith, Kept
<1>12. GoodWire(wire)'
  BY DEF GoodWire
<1>13. Counts' /\ History' /\ Copies'
  BY <1>9 DEF Inv, Counts, History, Copies, Kept, Seen
<1> QED BY <1>10, <1>11, <1>12, <1>13 DEF Inv

\* A reply that fits what the app will hold is sent to it.
LEMMA WireGrows ==
  ASSUME GoodWire(wire), Chained(current, wire),
         NEW m, Takes(m.reply, Last(current, wire)),
         Taken(m.reply, Last(current, wire)) = m.gives,
         m.gives \in Session, Dress(m.gives, Plain) \in was
  PROVE  LET sent == Append(wire, m)
         IN  GoodWire(sent) /\ Chained(current, sent) /\ Last(current, sent) = m.gives
<1> DEFINE sent == Append(wire, m)
<1>1. IsSequence(wire)
  BY DEF GoodWire
<1>2. Chained(current, sent) /\ Last(current, sent) = m.gives
  BY <1>1, ChainGrows
<1>3. /\ IsSequence(sent)
      /\ Len(wire) \in Nat /\ DOMAIN wire = 1..Len(wire)
      /\ DOMAIN sent = 1..(Len(wire) + 1)
      /\ \A i \in 1..Len(wire) : sent[i] = wire[i]
      /\ sent[Len(wire) + 1] = m
  BY <1>1, Appended
<1> HIDE DEF sent
<1>4. ASSUME NEW i \in DOMAIN sent
      PROVE  sent[i].gives \in Session /\ Dress(sent[i].gives, Plain) \in was
  <2>1. i = Len(wire) + 1 \/ i \in 1..Len(wire)
    BY <1>3
  <2> QED BY <2>1, <1>3 DEF GoodWire
<1>5. GoodWire(sent)
  BY <1>3, <1>4 DEF GoodWire
<1> QED BY <1>2, <1>5 DEF sent

\* The whole copy fits whatever the app holds (Relay::show).
LEMMA ShowingGrows ==
  ASSUME History, GoodWire(wire), Chained(current, wire),
         NEW s \in was, NEW o \in Overlay
  PROVE  LET sent == Append(wire, Showing(s, o))
         IN  GoodWire(sent) /\ Chained(current, sent)
             /\ Last(current, sent) = Dress(s, o)
<1> DEFINE m == Showing(s, o)
<1>1. m.reply = [kind |-> "session", session |-> Dress(s, o)] /\ m.gives = Dress(s, o)
  BY DEF Showing, Message, Whole
<1>2. s \in Session /\ s.overlay = Plain
  BY DEF History
<1>3. m.gives \in Session /\ Dress(m.gives, Plain) = s
  BY <1>1, <1>2, Dressed, PlainSession
<1>4. \A end : Takes(m.reply, end) /\ Taken(m.reply, end) = m.gives
  BY <1>1 DEF Takes, Taken
<1> HIDE DEF m
<1>5. LET sent == Append(wire, m)
      IN  GoodWire(sent) /\ Chained(current, sent) /\ Last(current, sent) = m.gives
  BY <1>3, <1>4, WireGrows
<1> QED BY <1>1, <1>5 DEF m

\* A quiet moment (Relay::heartbeat).
LEMMA HeartbeatKeeps ==
  ASSUME Inv, relay # None, NEW due \in BOOLEAN,
         NEW left, left # None => GoodStream(left, relay.copy),
         Heartbeat(left, due),
         UNCHANGED <<serverVars, linkVars, heldVars, leaving, appVars, readVars>>
  PROVE  Inv'
<1>1. GoodRelay(relay) /\ InStepWith(relay, current, wire) /\ GoodWire(wire)
      /\ History
  BY DEF Inv, Relayed
<1>2. CASE relay.copy # None /\ relay.shown # Shown(relay.copy, relay.overlay)
  <2> DEFINE next == [relay EXCEPT !.shown = Shown(relay.copy, relay.overlay)]
             sent == Append(wire, Showing(relay.copy, relay.overlay))
  <2>1. relay.copy \in was /\ relay.overlay \in Overlay
    BY <1>1, <1>2 DEF GoodRelay, Kept, Relays
  <2>2. /\ relay = [copy |-> relay.copy, shown |-> relay.shown,
                    unsaved |-> relay.unsaved, overlay |-> relay.overlay]
        /\ relay.copy \in Optional(Session) /\ relay.unsaved \in BOOLEAN
    BY <1>1 DEF GoodRelay, Relays
  <2>3. next = [copy |-> relay.copy, shown |-> Shown(relay.copy, relay.overlay),
                unsaved |-> relay.unsaved, overlay |-> relay.overlay]
    BY <2>2
  <2>4. /\ Shown(relay.copy, relay.overlay) \in Shows
        /\ Shown(relay.copy, relay.overlay).overlay = relay.overlay
    BY <1>1, <2>1 DEF Shown, Shows, History, Session
  <2>5. wire' = sent /\ Loop(next, left, due)
    BY <1>2 DEF Heartbeat
  <2> HIDE DEF next
  <2>6. GoodRelay(next) /\ next.copy = relay.copy
        /\ next.shown.overlay = relay.overlay
    BY <1>1, <2>1, <2>2, <2>3, <2>4 DEF GoodRelay, Relays, Optional
  <2>7. GoodWire(sent) /\ Chained(current, sent)
        /\ Last(current, sent) = Dress(relay.copy, relay.overlay)
    BY <1>1, <2>1, ShowingGrows DEF InStepWith
  <2>8. InStepWith(next, current, sent)
    BY <2>6, <2>7 DEF InStepWith
  <2> HIDE DEF sent
  <2> QED BY <2>5, <2>6, <2>7, <2>8, TurnKeeps
<1>3. CASE ~(relay.copy # None /\ relay.shown # Shown(relay.copy, relay.overlay))
  <2>1. Loop(relay, left, due) /\ wire' = wire
    BY <1>3 DEF Heartbeat
  <2> QED BY <1>1, <2>1, TurnKeeps
<1> QED BY <1>2, <1>3

\* A copy the app gets whole (Relay::show).
LEMMA ShowNewKeeps ==
  ASSUME Inv, relay # None, NEW due \in BOOLEAN, NEW copy \in was,
         NEW left, GoodStream(left, copy),
         ShowNew(copy, left, due),
         UNCHANGED <<serverVars, linkVars, heldVars, leaving, appVars, readVars>>
  PROVE  Inv'
<1> DEFINE next == [relay EXCEPT !.copy = copy, !.unsaved = TRUE,
                                 !.shown = Shown(copy, relay.overlay)]
           sent == Append(wire, Showing(copy, relay.overlay))
<1>1. GoodRelay(relay) /\ InStepWith(relay, current, wire) /\ GoodWire(wire)
      /\ History
  BY DEF Inv, Relayed
<1>2. /\ relay = [copy |-> relay.copy, shown |-> relay.shown,
                  unsaved |-> relay.unsaved, overlay |-> relay.overlay]
      /\ relay.overlay \in Overlay
  BY <1>1 DEF GoodRelay, Relays
<1>3. /\ Shown(copy, relay.overlay) \in Shows /\ copy \in Session
      /\ Shown(copy, relay.overlay).overlay = relay.overlay
  BY <1>1, <1>2 DEF Shown, Shows, History, Session
<1>4. /\ next \in Relays /\ next.copy = copy
      /\ next.shown = Shown(copy, relay.overlay)
  <2>1. /\ relay \in Relays /\ copy \in Optional(Session)
        /\ Shown(copy, relay.overlay) \in Optional(Shows)
    BY <1>1, <1>3 DEF GoodRelay, Optional
  <2> QED BY <2>1 DEF Relays
<1>5. wire' = sent /\ Loop(next, left, due)
  BY DEF ShowNew
<1> HIDE DEF next
<1>6. GoodRelay(next) /\ next.copy = copy /\ next.shown.overlay = relay.overlay
  BY <1>3, <1>4 DEF GoodRelay, Kept
<1>7. GoodWire(sent) /\ Chained(current, sent)
      /\ Last(current, sent) = Dress(copy, relay.overlay)
  BY <1>1, <1>2, ShowingGrows DEF InStepWith
<1>8. InStepWith(next, current, sent)
  BY <1>6, <1>7 DEF InStepWith
<1> HIDE DEF sent
<1> QED BY <1>5, <1>6, <1>7, <1>8, TurnKeeps

\* A change, for the relay's copy and for its app (Relay::apply).
LEMMA ForwardKeeps ==
  ASSUME Inv, relay # None, NEW due \in BOOLEAN,
         NEW delta, IsDelta(delta), relay.copy # None, Fits(delta, relay.copy),
         Applied(delta, relay.copy) \in was,
         NEW left, GoodStream(left, Applied(delta, relay.copy)),
         Forward(delta, left, due),
         UNCHANGED <<serverVars, linkVars, heldVars, leaving, appVars, readVars>>
  PROVE  Inv'
<1> DEFINE copy == Applied(delta, relay.copy)
           o == relay.overlay
           m == Message(Delta(Dress(delta, o)), Dress(copy, o))
           next == [relay EXCEPT !.copy = copy, !.unsaved = TRUE,
                                 !.shown = Shown(copy, o)]
           sent == Append(wire, m)
<1>1. CASE ~InStep(delta)
  <2>1. ShowNew(copy, left, due)
    BY <1>1 DEF Forward
  <2> HIDE DEF copy
  <2> QED BY <2>1, ShowNewKeeps DEF copy
<1>2. CASE InStep(delta)
  <2>1. GoodRelay(relay) /\ InStepWith(relay, current, wire) /\ GoodWire(wire)
        /\ History
    BY DEF Inv, Relayed
  <2>2. /\ relay = [copy |-> relay.copy, shown |-> relay.shown,
                    unsaved |-> relay.unsaved, overlay |-> relay.overlay]
        /\ o \in Overlay
    BY <2>1 DEF GoodRelay, Relays
  <2>3. copy \in Session /\ copy.overlay = Plain /\ relay.copy \in Session
    BY <2>1 DEF History, GoodRelay, Kept
  <2>4. wire' = sent /\ Loop(next, left, due)
    BY <1>2 DEF Forward
  <2>5. Shown(copy, o) \in Shows /\ Shown(copy, o).overlay = o
    BY <2>2, <2>3 DEF Shown, Shows, Session
  <2> HIDE DEF copy
  <2>6. next \in Relays /\ next.copy = copy /\ next.shown = Shown(copy, o)
    <3>1. /\ relay \in Relays /\ copy \in Optional(Session)
          /\ Shown(copy, o) \in Optional(Shows)
      BY <2>1, <2>3, <2>5 DEF GoodRelay, Optional
    <3> QED BY <3>1 DEF Relays
  <2> HIDE DEF next
  <2>7. GoodRelay(next) /\ next.copy = copy /\ next.shown.overlay = o
    BY <2>5, <2>6 DEF GoodRelay, Kept, copy
  <2>8. Last(current, wire) = Dress(relay.copy, relay.shown.overlay)
        /\ Chained(current, wire)
    BY <2>1 DEF InStepWith
  <2>9. m.reply = [kind |-> "delta", delta |-> Dress(delta, o)]
        /\ m.gives = Dress(copy, o)
    BY DEF Message, Delta
  <2>10. /\ Fits(Dress(delta, o), Last(current, wire))
         /\ Applied(Dress(delta, o), Last(current, wire)) = Dress(copy, o)
    BY <2>3, <2>8, DressedApplies DEF copy
  <2>11. relay.shown.overlay \in Overlay
    BY <2>1 DEF GoodRelay, Shows
  <2>12. Last(current, wire) # None
    BY <2>3, <2>8, <2>11, Dressed, TransportAssumption
  <2>13. Takes(m.reply, Last(current, wire))
         /\ Taken(m.reply, Last(current, wire)) = m.gives
    BY <2>9, <2>10, <2>12 DEF Takes, Taken
  <2>14. m.gives \in Session /\ Dress(m.gives, Plain) = copy
    BY <2>2, <2>3, <2>9, Dressed, PlainSession
  <2> HIDE DEF m
  <2>15. GoodWire(sent) /\ Chained(current, sent)
         /\ Last(current, sent) = m.gives
    BY <2>1, <2>8, <2>13, <2>14, WireGrows DEF copy
  <2>16. InStepWith(next, current, sent)
    BY <2>7, <2>9, <2>15 DEF InStepWith
  <2>17. left # None => GoodStream(left, next.copy)
    BY <2>7 DEF copy
  <2> HIDE DEF sent
  <2> QED BY <2>4, <2>7, <2>15, <2>16, <2>17, TurnKeeps
<1> QED BY <1>1, <1>2

\* The rest of a stream whose first reply the relay has taken.
LEMMA RestOfStream ==
  ASSUME NEW copy, GoodStream(stream, copy), stream.chan # <<>>
  PROVE  LET m    == Head(stream.chan)
             rest == [stream EXCEPT !.chan = Tail(@)]
         IN  /\ IsReply(m.reply) /\ m.gives \in was
             /\ Takes(m.reply, copy) /\ Taken(m.reply, copy) = m.gives
             /\ GoodStream(rest, m.gives)
<1> DEFINE c == stream.chan
           d == Tail(c)
           m == Head(c)
           rest == [stream EXCEPT !.chan = Tail(@)]
<1>1. IsSequence(c) /\ Chained(copy, c)
  BY DEF GoodStream
<1>2. /\ IsSequence(d) /\ m = c[1]
      /\ Len(c) \in Nat \ {0} /\ DOMAIN c = 1..Len(c)
      /\ DOMAIN d = 1..(Len(c) - 1)
      /\ \A i \in 1..(Len(c) - 1) : d[i] = c[i + 1]
  BY <1>1, Taking
<1>3. /\ Takes(m.reply, copy) /\ Taken(m.reply, copy) = m.gives
      /\ Chained(m.gives, d) /\ Last(m.gives, d) = Last(copy, c)
  BY <1>1, ChainTaken
<1>4. \A i \in 1..Len(c) : IsReply(c[i].reply) /\ c[i].gives \in was
  BY <1>2 DEF GoodStream
<1>5. rest = [held |-> stream.held, sent |-> stream.sent, open |-> stream.open,
              chan |-> d]
  <2>1. stream = [held |-> stream.held, sent |-> stream.sent,
                  open |-> stream.open, chan |-> stream.chan]
    BY DEF GoodStream
  <2>2. ASSUME NEW e
        PROVE  [stream EXCEPT !.chan = e]
                 = [held |-> stream.held, sent |-> stream.sent,
                    open |-> stream.open, chan |-> e]
    BY <2>1
  <2>3. rest = [stream EXCEPT !.chan = d]
    OBVIOUS
  <2> HIDE DEF rest, d
  <2> QED BY <2>2, <2>3
<1>6. stream.open \in BOOLEAN /\ Kept(stream.sent)
  BY DEF GoodStream
<1>7. stream.open => /\ stream.sent # None
                     /\ Last(copy, c) = stream.sent /\ stream.held = None
  BY DEF GoodStream
<1> HIDE DEF c, d, m, rest
<1>8. \A i \in DOMAIN d : IsReply(d[i].reply) /\ d[i].gives \in was
  <2>1. ASSUME NEW i \in DOMAIN d PROVE i + 1 \in 1..Len(c) /\ d[i] = c[i + 1]
    BY <1>2
  <2> QED BY <2>1, <1>4
<1>9. /\ rest.held = stream.held /\ rest.sent = stream.sent
      /\ rest.open = stream.open /\ rest.chan = d
      /\ rest = [held |-> rest.held, sent |-> rest.sent, open |-> rest.open,
                 chan |-> rest.chan]
  BY <1>5
<1>10. GoodStream(rest, m.gives)
  BY <1>2, <1>3, <1>6, <1>7, <1>8, <1>9 DEF GoodStream
<1>11. IsReply(m.reply) /\ m.gives \in was
  BY <1>2, <1>4
<1> QED BY <1>3, <1>10, <1>11 DEF c, m, rest

\* The relay takes a reply; it always fits.
LEMMA TakeKeeps ==
  ASSUME Inv, NEW due \in BOOLEAN, Take(due)
  PROVE  Inv'
<1> DEFINE m == Head(stream.chan)
           rest == [stream EXCEPT !.chan = Tail(@)]
<1>1. /\ relay # None /\ GoodStream(stream, relay.copy) /\ stream.chan # <<>>
      /\ GoodRelay(relay) /\ History
      /\ UNCHANGED <<serverVars, linkVars, heldVars, leaving, appVars, readVars>>
  BY DEF Take, Inv, Streamed, Relayed
<1>2. /\ IsReply(m.reply) /\ m.gives \in was
      /\ Takes(m.reply, relay.copy) /\ Taken(m.reply, relay.copy) = m.gives
      /\ GoodStream(rest, m.gives)
  BY <1>1, RestOfStream
<1>3. CASE m.reply = Unchanged
  <2>1. m.reply.kind = "unchanged" /\ m.gives = relay.copy
    BY <1>2, <1>3 DEF Unchanged, Taken
  <2>2. Heartbeat(rest, due)
    BY <1>2, <2>1 DEF Take
  <2> HIDE DEF rest
  <2> QED BY <1>1, <1>2, <2>1, <2>2, HeartbeatKeeps
<1>4. CASE m.reply = Whole(m.reply.session) /\ m.reply.session \in Session
  <2>1. m.reply.kind = "session" /\ m.gives = m.reply.session
    BY <1>2, <1>4 DEF Whole, Taken
  <2>2. ShowNew(m.gives, rest, due)
    BY <1>2, <2>1 DEF Take
  <2> HIDE DEF rest, m
  <2> QED BY <1>1, <1>2, <2>2, ShowNewKeeps
<1>5. CASE m.reply = Delta(m.reply.delta) /\ IsDelta(m.reply.delta)
  <2> DEFINE delta == m.reply.delta
  <2>1. m.reply.kind = "delta"
    BY <1>5 DEF Delta
  <2>2. /\ relay.copy # None /\ Fits(delta, relay.copy)
        /\ m.gives = Applied(delta, relay.copy)
    BY <1>2, <2>1 DEF Takes, Taken
  <2>3. Forward(delta, rest, due)
    BY <1>2, <2>1 DEF Take
  <2>4. IsDelta(delta)
    BY <1>5
  <2> HIDE DEF delta, rest, m
  <2> QED BY <1>1, <1>2, <2>2, <2>3, <2>4, ForwardKeeps
<1> QED BY <1>2, <1>3, <1>4, <1>5 DEF IsReply

\* A second without a reply; or the stream has closed and is read to its end.
LEMMA QuietKeeps ==
  ASSUME Inv, Closed \/ \E due \in BOOLEAN : Idle(due)
  PROVE  Inv'
<1>1. ASSUME NEW due \in BOOLEAN, Idle(due)
      PROVE  Inv'
  <2>1. /\ relay # None /\ Heartbeat(stream, due)
        /\ stream # None => GoodStream(stream, relay.copy)
        /\ UNCHANGED <<serverVars, linkVars, heldVars, leaving, appVars, readVars>>
    BY <1>1 DEF Idle, Inv, Streamed
  <2> QED BY <2>1, HeartbeatKeeps
<1>2. ASSUME Closed
      PROVE  Inv'
  <2>1. /\ relay # None /\ Heartbeat(None, TRUE)
        /\ UNCHANGED <<serverVars, linkVars, heldVars, leaving, appVars, readVars>>
    BY <1>2 DEF Closed
  <2>2. TRUE \in BOOLEAN
    OBVIOUS
  <2> QED BY <2>1, <2>2, HeartbeatKeeps
<1> QED BY <1>1, <1>2

-----------------------------------------------------------------------------
(* The app *)

\* The app connects, and gets a cached copy whole.
LEMMA SubscribeKeeps ==
  ASSUME Inv, Subscribe
  PROVE  Inv'
<1> USE DEF serverVars, linkVars, heldVars, appVars, readVars
<1> DEFINE next == IF cache = None
                   THEN Relay(None, None, FALSE, CurrentOverlay)
                   ELSE Relay(cache, Shown(cache, CurrentOverlay), FALSE,
                              CurrentOverlay)
           sent == IF cache = None THEN <<>>
                                   ELSE <<Showing(cache, CurrentOverlay)>>
<1>1. wire' = sent /\ Top(next, None) /\ wire = <<>>
  BY DEF Subscribe, Inv, Relayed
<1>2. CurrentOverlay \in Overlay /\ Counts /\ History
  BY DEF CurrentOverlay, Overlay, Inv, Counts
<1>3. Kept(cache)
  BY DEF Inv, Copies
<1>4. GoodWire(wire) /\ Chained(current, wire)
  BY <1>1 DEF Inv, Chained
<1>5. GoodRelay(next) /\ GoodWire(sent) /\ InStepWith(next, current, sent)
  <2>1. CASE cache = None
    <3>1. /\ next = [copy |-> None, shown |-> None, unsaved |-> FALSE,
                     overlay |-> CurrentOverlay]
          /\ next.copy = None /\ sent = <<>>
      BY <2>1 DEF Relay
    <3>2. None \in Optional(Session) /\ None \in Optional(Shows)
      BY DEF Optional
    <3> HIDE DEF next, sent
    <3>3. next \in Relays
      BY <1>2, <3>1, <3>2 DEF Relays
    <3> QED BY <1>1, <1>4, <3>1, <3>3 DEF GoodRelay, InStepWith, Kept
  <2>2. CASE cache # None
    <3> DEFINE shown == Shown(cache, CurrentOverlay)
               m == Showing(cache, CurrentOverlay)
    <3>1. /\ next = [copy |-> cache, shown |-> shown, unsaved |-> FALSE,
                     overlay |-> CurrentOverlay]
          /\ sent = <<m>>
      BY <2>2 DEF Relay
    <3>2. cache \in was /\ cache \in Session
      BY <1>2, <1>3, <2>2 DEF Kept, History
    <3>3. shown \in Shows /\ shown.overlay = CurrentOverlay
      BY <1>2, <3>2 DEF Shown, Shows, Session
    <3>4. shown = Shown(cache, shown.overlay)
      BY <3>3
    <3> HIDE DEF shown
    <3>5. cache \in Optional(Session) /\ shown \in Optional(Shows)
      BY <3>2, <3>3 DEF Optional
    <3>6. sent = Append(wire, m)
      BY <1>1, <3>1
    <3>7. GoodWire(Append(wire, m)) /\ Chained(current, Append(wire, m))
          /\ Last(current, Append(wire, m)) = Dress(cache, CurrentOverlay)
      BY <1>2, <1>4, <3>2, ShowingGrows
    <3> HIDE DEF next, sent, m
    <3>8. next \in Relays /\ next.copy = cache /\ next.shown = shown
      BY <1>2, <3>1, <3>5 DEF Relays
    <3> QED BY <1>3, <3>3, <3>4, <3>6, <3>7, <3>8 DEF GoodRelay, InStepWith
  <2> QED BY <2>1, <2>2
<1> HIDE DEF next, sent
<1>6. /\ GoodRelay(relay') /\ relay' # None
      /\ relay'.copy = next.copy /\ relay'.shown = next.shown
      /\ stream' # None => GoodStream(stream', next.copy)
  BY <1>1, <1>2, <1>5, TopKeeps
<1>7. UNCHANGED <<serverVars, linkVars, heldVars, cache, leaving, appVars,
                  readVars>>
  BY DEF Subscribe
<1>8. Streamed'
  BY <1>6, <1>7 DEF Streamed, GoodStream, Kept
<1>9. Relayed'
  BY <1>1, <1>5, <1>6, <1>7 DEF Relayed, GoodRelay, InStepWith, Kept
<1>10. GoodWire(wire)'
  BY <1>1, <1>5, <1>7 DEF GoodWire
<1>11. Counts' /\ History' /\ Copies'
  BY <1>7 DEF Inv, Counts, History, Copies, Kept, Seen
<1> QED BY <1>8, <1>9, <1>10, <1>11 DEF Inv

\* With the relay goes all that was between the server and the app.
LEMMA NobodyRelays ==
  ASSUME relay' = None, stream' = None, wire' = <<>>
  PROVE  Relayed' /\ Streamed' /\ GoodWire(wire)'
<1>1. IsSequence(<<>>)
  BY DEF IsSequence
<1>2. GoodWire(wire)'
  BY <1>1 DEF GoodWire, IsSequence
<1> QED BY <1>2 DEF Relayed, Streamed

\* The app's subscription ends.
LEMMA EndKeeps ==
  ASSUME Inv, NEW saved \in BOOLEAN, NEW kept \in BOOLEAN, End(saved, kept)
  PROVE  Inv'
<1> USE DEF serverVars, linkVars, heldVars, appVars, readVars
<1>1. Relayed' /\ Streamed' /\ GoodWire(wire)'
  BY NobodyRelays DEF End
<1>2. ends' \in 0..MaxEnds
  BY Bounds DEF End, Inv, Counts
<1>3. Counts' /\ History'
  BY <1>2 DEF End, Inv, Counts, History
<1>4. Kept(relay.copy)
  BY DEF End, Inv, Relayed, GoodRelay
<1>5. /\ leaving' = relay.copy \/ leaving' = None
      /\ latest' = latest \/ latest' = None
      /\ current' = None
      /\ UNCHANGED <<cache, view, reading, was>>
  BY DEF End
<1>6. Copies'
  BY <1>4, <1>5 DEF Inv, Copies, Kept, Seen
<1> QED BY <1>1, <1>3, <1>6 DEF Inv

\* The subscription's thread takes a reply; it always fits.
LEMMA ReceiveKeeps ==
  ASSUME Inv, Receive
  PROVE  Inv'
<1> USE DEF serverVars, linkVars, heldVars, appVars, readVars
<1> DEFINE m == Head(wire)
           rest == Tail(wire)
<1>1. /\ wire # <<>> /\ relay # None /\ GoodRelay(relay)
      /\ InStepWith(relay, current, wire) /\ GoodWire(wire)
  BY DEF Receive, Inv, Relayed
<1>2. /\ Takes(m.reply, current) /\ Taken(m.reply, current) = m.gives
      /\ Chained(m.gives, rest) /\ Last(m.gives, rest) = Last(current, wire)
  BY <1>1, ChainTaken DEF GoodWire, InStepWith
<1>3. /\ IsSequence(rest) /\ m = wire[1]
      /\ Len(wire) \in Nat \ {0} /\ DOMAIN wire = 1..Len(wire)
      /\ DOMAIN rest = 1..(Len(wire) - 1)
      /\ \A i \in 1..(Len(wire) - 1) : rest[i] = wire[i + 1]
  BY <1>1, Taking DEF GoodWire
<1>4. /\ current' = m.gives /\ latest' = m.gives /\ wire' = rest
      /\ UNCHANGED <<serverVars, linkVars, heldVars, stream, cache, relay,
                     leaving, view, ends, readVars>>
  BY <1>2 DEF Receive
<1> HIDE DEF m, rest
<1>5. m.gives \in Session /\ Dress(m.gives, Plain) \in was
  BY <1>1, <1>3 DEF GoodWire
<1>6. ASSUME NEW i \in DOMAIN rest
      PROVE  rest[i].gives \in Session /\ Dress(rest[i].gives, Plain) \in was
  <2>1. i + 1 \in DOMAIN wire /\ rest[i] = wire[i + 1]
    BY <1>3
  <2> QED BY <1>1, <2>1 DEF GoodWire
<1>7. GoodWire(rest)
  BY <1>3, <1>6 DEF GoodWire
<1>8. GoodWire(wire)'
  BY <1>4, <1>7 DEF GoodWire
<1>9. InStepWith(relay, m.gives, rest)
  BY <1>1, <1>2 DEF InStepWith
<1>10. Relayed'
  BY <1>1, <1>4, <1>9 DEF Relayed, GoodRelay, InStepWith, Kept
<1>11. Streamed'
  BY <1>4 DEF Inv, Streamed, GoodStream, Kept
<1>12. Counts' /\ History' /\ Copies'
  BY <1>4, <1>5 DEF Inv, Counts, History, Copies, Kept, Seen
<1> QED BY <1>8, <1>10, <1>11, <1>12 DEF Inv

-----------------------------------------------------------------------------
(* Every step *)

LEMMA StutterKeeps ==
  ASSUME Inv, UNCHANGED vars
  PROVE  Inv'
<1> USE DEF vars, serverVars, linkVars, heldVars, appVars, readVars
<1>1. GoodWire(wire)' /\ Relayed' /\ Streamed'
  BY ConnectionsKept
<1>2. Counts' /\ History' /\ Copies'
  BY DEF Inv, Counts, History, Copies, Kept, Seen
<1> QED BY <1>1, <1>2 DEF Inv

LEMMA NextKeeps ==
  ASSUME Inv, [Next]_vars
  PROVE  Inv'
<1>1. CASE Server
  <2>1. CASE \E edit \in EditKind, agent \in Agents : Update(edit, agent)
    BY <2>1, UpdateKeeps
  <2>2. CASE \E rewritten, noted \in BOOLEAN : Crash(rewritten, noted)
    BY <2>2, CrashKeeps
  <2> QED BY <1>1, <2>1, <2>2, UnwatchedKeeps, StreamKeeps DEF Server
<1>2. CASE Computer
  <2>1. CASE \E due \in BOOLEAN : Take(due)
    BY <2>1, TakeKeeps
  <2>2. CASE Closed \/ \E due \in BOOLEAN : Idle(due)
    BY <2>2, QuietKeeps
  <2> QED BY <1>2, <2>1, <2>2, UnwatchedKeeps, DropKeeps, SubscribeKeeps
          DEF Computer
<1>3. CASE App
  <2>1. CASE \E saved, kept \in BOOLEAN : End(saved, kept)
    BY <2>1, EndKeeps
  <2> QED BY <1>3, <2>1, UnwatchedKeeps, ReceiveKeeps DEF App
<1>4. CASE UNCHANGED vars
  BY <1>4, StutterKeeps
<1> QED BY <1>1, <1>2, <1>3, <1>4 DEF Next

\* The chains hold in every behaviour, however long, whatever drops, crashes
\* or ends, with channels of any length.
THEOREM InvAlways == Spec => []Inv
<1>1. Init => Inv
  BY InvInitially
<1>2. Inv /\ [Next]_vars => Inv'
  BY NextKeeps
<1> QED BY <1>1, <1>2, PTL DEF Spec

\* Every variable keeps its type.
THEOREM TypeCorrect == Spec => []TypeOK
<1>1. Inv => TypeOK
  BY InvImplies
<1> QED BY <1>1, InvAlways, PTL

\* What a server streams fits the copy the relay holds, after any crash and
\* any gap in the connection: transport.rs resume and Delta::apply never fail.
THEOREM StreamsFit == Spec => []StreamFits
<1>1. Inv => StreamFits
  BY InvImplies
<1> QED BY <1>1, InvAlways, PTL

\* What the relay forwards fits what the app holds, for every app that is
\* connected (federation.rs Relay::apply).
THEOREM AppsInStep == Spec => []AppInStep
<1>1. Inv => AppInStep
  BY InvImplies
<1> QED BY <1>1, InvAlways, PTL

\* No copy on this computer, in a cache, a relay or an app, mixes two states
\* of the session.
THEOREM NothingMixed == Spec => []NothingIsMixed
<1>1. Inv => NothingIsMixed
  BY InvImplies
<1> QED BY <1>1, InvAlways, PTL
=============================================================================
