------------------------------- MODULE Watching -------------------------------
(***************************************************************************)
(* A terminal app watching one session of a saved server: the server's     *)
(* store and the stream it opens for a watcher, the connection between the *)
(* two computers, the relay in this computer's service with the copy it    *)
(* keeps and the cache it is written to, and the app, which receives what  *)
(* the relay sends and shows it.                                           *)
(*                                                                         *)
(* The server writes a session it changed at most half a second later; a   *)
(* crash takes back what was not written, and new changes then get the     *)
(* version numbers of lost ones.                                           *)
(***************************************************************************)
EXTENDS Transport, FiniteSets

CONSTANTS
  Edits,       \* what may happen at each version (see Edited)
  MaxVersion,  \* bound: the session's version
  MaxCrashes,  \* bound: crashes of the server's service
  MaxDrops,    \* bound: connections that drop
  MaxHolds,    \* bound: messages held for the session
  MaxEnds,     \* bound: watches of the app that end
  MaxReads,    \* bound: reads of the session beside the watch
  MaxEvents,   \* bound: all of these together
  MaxWire      \* bound: replies on their way, over each connection

EditKind == {"speak", "rewrite", "child", "clear"}

Optional(S) == S \cup {None}

\* A relay: the copy it holds; shown: what it sent last; unsaved: the copy is
\* not in the cache; overlay: what it read at the top of its loop.
Shows == [version : Nat, overlay : Overlay]
Relays == [copy : Optional(Session), shown : Optional(Shows),
           unsaved : BOOLEAN, overlay : Overlay]

\* An entry is told by the run of the server and the version it came with.
ASSUME WatchingAssumption ==
  /\ Edits \in [1..MaxVersion -> SUBSET EditKind]
  /\ MaxVersion \in Nat /\ MaxCrashes \in Nat
  /\ MaxDrops \in Nat /\ MaxHolds \in Nat
  /\ MaxEnds \in Nat /\ MaxReads \in Nat /\ MaxEvents \in Nat
  /\ MaxWire \in Nat
  /\ (0..MaxCrashes) \X (0..MaxVersion) \subseteq Entry
  /\ None \notin Relays

VARIABLES
  mem,      \* the session in the server's store
  disk,     \* the session in the server's file
  runs,     \* crashes of the server so far
  lost,     \* one of them took back a change
  was,      \* every session the server has had (history)
  link,     \* Link.live() of the server
  drops,    \* how often the connection has dropped
  held,     \* a message is held for the session
  holds,    \* how many have been
  stream,   \* the server's rpc.watch stream that the relay reads
  cache,    \* the snapshot of the session on this computer
  relay,    \* Federation::watch, while the app is connected
  leaving,  \* the copy of a relay that has not noticed its app is gone
  wire,     \* replies from the relay to the app
  current,  \* the copy of the app's subscription
  latest,   \* what the app's subscription has for its interface
  view,     \* the session the app shows
  ends,     \* how many watches have ended
  reading,  \* the reply to a read that the app has not handled
  reads     \* how many there were

serverVars == <<mem, disk, runs, lost, was>>
linkVars   == <<link, drops>>
heldVars   == <<held, holds>>
appVars    == <<current, latest, view, ends>>
readVars   == <<reading, reads>>
vars == <<serverVars, linkVars, heldVars, stream, cache, relay, leaving, wire,
          appVars, readVars>>

More == runs + drops + holds + ends + reads < MaxEvents

-----------------------------------------------------------------------------
(* The server's session *)

\* Mutant: counts the update's touch twice.
StampTwice(s) == <<runs, s.version + 2>>

\* The version that the update's touch makes.
Stamp(s) == <<runs, s.version + 1>>

\* What the update puts into the session; it touches it, too.
Edited(s, edit, agent) ==
  LET e == Stamp(s)
      next == [s EXCEPT !.version = @ + 1]
  IN  CASE edit = "speak" ->
             [next EXCEPT !.entries = Append(@, e)]
        [] edit = "rewrite" ->
             [next EXCEPT !.entries =
                [i \in DOMAIN @ |-> IF i = Len(@) THEN e ELSE @[i]]]
        [] edit = "child" ->
             [next EXCEPT !.subagents[agent] = Append(Said(s, agent), e)]
        [] edit = "clear" ->
             [next EXCEPT !.entries = <<>>, !.subagents = [a \in Agents |-> None]]

Update(edit, agent) ==
  /\ mem.version < MaxVersion
  /\ edit \in Edits[mem.version + 1]
  /\ mem' = Edited(mem, edit, agent)
  /\ was' = was \cup {mem'}
  /\ UNCHANGED <<disk, runs, lost, linkVars, heldVars, stream, cache, relay,
                 leaving, wire, appVars, readVars>>

\* The main loop writes what has changed; so does a stop of the service.
Flush ==
  /\ disk # mem
  /\ disk' = mem
  /\ UNCHANGED <<mem, runs, lost, was, linkVars, heldVars, stream, cache,
                 relay, leaving, wire, appVars, readVars>>

-----------------------------------------------------------------------------
(* The stream *)

\* held: the fingerprint the watch was opened with, until the first reply.
\* sent: what the stream has sent last.  open: the server still writes to it.
Opened(copy) ==
  [held |-> IF copy = None THEN None ELSE Fingerprint(copy),
   sent |-> None,
   open |-> TRUE,
   chan |-> <<>>]

\* What was written and not read goes in part with the connection; the relay
\* reads the rest before it learns that the stream has closed.
Cut(n) ==
  IF stream = None THEN None
  ELSE [stream EXCEPT !.open = FALSE, !.chan = SubSeq(@, 1, n)]

Readable == IF stream = None THEN 0 ELSE Len(stream.chan)

\* A reply on its way, and (history) what its sender takes the receiver to
\* hold after it.
Message(reply, gives) == [reply |-> reply, gives |-> gives]

\* The service's watch: a baseline, then changes.  The baseline is answered
\* to a watcher with a copy by what that copy lacks.
Stream ==
  /\ stream # None /\ stream.open
  /\ Len(stream.chan) < MaxWire
  /\ stream.sent # None => stream.sent.version # mem.version
  /\ LET reply == CASE stream.sent # None -> Delta(Between(stream.sent, mem))
                    [] stream.held # None -> Resume(stream.held, mem)
                    [] OTHER              -> Whole(mem)
     IN  stream' = [stream EXCEPT !.chan = Append(@, Message(reply, mem)),
                                  !.sent = mem,
                                  !.held = None]
  /\ UNCHANGED <<serverVars, linkVars, heldVars, cache, relay, leaving, wire,
                 appVars, readVars>>

Drop ==
  /\ link /\ drops < MaxDrops /\ More
  /\ link' = FALSE
  /\ drops' = drops + 1
  /\ \E n \in 0..Readable : stream' = Cut(n)
  /\ UNCHANGED <<serverVars, heldVars, cache, relay, leaving, wire, appVars,
                 readVars>>

Connect ==
  /\ ~link
  /\ link' = TRUE
  /\ UNCHANGED <<serverVars, drops, heldVars, stream, cache, relay, leaving,
                 wire, appVars, readVars>>

\* A start may rewrite an entry (a message that was being sent is shown as
\* unacknowledged), which is no change of the version.
Rewritten(s) ==
  IF s.entries = <<>> THEN s
  ELSE [s EXCEPT !.entries =
          [i \in DOMAIN @ |-> IF i = Len(@) THEN <<runs + 1, s.version>> ELSE @[i]]]

\* The note on a session that was working or had a queue.
Noted(s) ==
  [s EXCEPT !.version = @ + 1,
            !.entries = Append(@, <<runs + 1, s.version + 1>>)]

\* A crash, and the start that follows: what the file says, rewritten and
\* noted, is written to the file again.
Crash(rewritten, noted) ==
  /\ runs < MaxCrashes /\ More
  /\ noted => disk.version < MaxVersion
  /\ runs' = runs + 1
  /\ lost' = (lost \/ disk # mem)
  /\ LET read == IF rewritten THEN Rewritten(disk) ELSE disk
     IN  mem' = IF noted THEN Noted(read) ELSE read
  /\ disk' = mem'
  /\ was' = was \cup {mem'}
  /\ link' = FALSE
  /\ \E n \in 0..Readable : stream' = Cut(n)
  /\ UNCHANGED <<drops, heldVars, cache, relay, leaving, wire, appVars, readVars>>

-----------------------------------------------------------------------------
(* This computer's cache and what it adds to a session *)

CurrentOverlay == [held |-> held, offline |-> ~link]

\* A newer copy stays.
Cached(s) == IF cache # None /\ cache.version > s.version THEN cache ELSE s

Hold ==
  /\ ~link /\ ~held /\ holds < MaxHolds /\ More
  /\ held' = TRUE
  /\ holds' = holds + 1
  /\ UNCHANGED <<serverVars, linkVars, stream, cache, relay, leaving, wire,
                 appVars, readVars>>

\* The server has it (the change it makes there is an Update).
Delivered ==
  /\ link /\ held
  /\ held' = FALSE
  /\ UNCHANGED <<serverVars, linkVars, holds, stream, cache, relay, leaving,
                 wire, appVars, readVars>>

\* The link's worker copies an idle session that is newer than its snapshot.
Prefetch ==
  /\ link
  /\ cache # None => cache.version < mem.version
  /\ cache' = Cached(mem)
  /\ UNCHANGED <<serverVars, linkVars, heldVars, stream, relay, leaving, wire,
                 appVars, readVars>>

-----------------------------------------------------------------------------
(* The relay *)

\* The relay is in its loop, waiting for the stream or for a second to pass.
Relay(copy, shown, unsaved, overlay) ==
  [copy |-> copy, shown |-> shown, unsaved |-> unsaved, overlay |-> overlay]

Shown(copy, overlay) == [version |-> copy.version, overlay |-> overlay]

\* The whole copy, dressed.
Showing(copy, overlay) ==
  Message(Whole(Dress(copy, overlay)), Dress(copy, overlay))

\* The top of the loop: what to add to the session now, and a stream if there
\* is none and the server is there.
Top(next, left) ==
  /\ relay' = [next EXCEPT !.overlay = CurrentOverlay]
  /\ stream' = IF left = None /\ link THEN Opened(next.copy) ELSE left

\* The end of the loop: the copy goes to the cache when it changed and is due.
\* Then the loop begins again.
Loop(next, left, due) ==
  LET saves == next.unsaved /\ due
  IN  /\ cache' = IF saves /\ next.copy # None THEN Cached(next.copy)
                                               ELSE cache
      /\ Top([next EXCEPT !.unsaved = @ /\ ~due], left)

\* The app connects; a cached copy shows at once.
Subscribe ==
  /\ relay = None
  /\ IF cache = None
     THEN /\ wire' = <<>>
          /\ Top(Relay(None, None, FALSE, CurrentOverlay), None)
     ELSE /\ wire' = <<Showing(cache, CurrentOverlay)>>
          /\ Top(Relay(cache, Shown(cache, CurrentOverlay), FALSE,
                       CurrentOverlay), None)
  /\ UNCHANGED <<serverVars, linkVars, heldVars, cache, leaving, appVars,
                 readVars>>

\* A new baseline, or a copy the app is not in step with.
ShowNew(copy, left, due) ==
  /\ wire' = Append(wire, Showing(copy, relay.overlay))
  /\ Loop([relay EXCEPT !.copy = copy, !.unsaved = TRUE,
                        !.shown = Shown(copy, relay.overlay)], left, due)

\* The app holds the base of the change, with the same additions.
InStep(delta) ==
  /\ relay.shown # None
  /\ relay.shown.version = delta.base
  /\ relay.shown.overlay = relay.overlay

\* A change: passed on to an app that is in step.
Forward(delta, left, due) ==
  LET copy == Applied(delta, relay.copy)
      dressed == Dress(copy, relay.overlay)
  IN  IF InStep(delta)
      THEN /\ wire' = Append(wire,
                        Message(Delta(Dress(delta, relay.overlay)), dressed))
           /\ Loop([relay EXCEPT !.copy = copy, !.unsaved = TRUE,
                      !.shown = Shown(copy, relay.overlay)], left, due)
      ELSE ShowNew(copy, left, due)

\* Mutant: does not note what it has shown.
HeartbeatUnnoted(left, due) ==
  /\ IF relay.copy # None /\ relay.shown # Shown(relay.copy, relay.overlay)
     THEN wire' = Append(wire, Showing(relay.copy, relay.overlay))
     ELSE UNCHANGED wire
  /\ Loop(relay, left, due)

\* A quiet moment: the whole copy again if what is added to it has changed.
\* (A heartbeat that says nothing is left out.)
Heartbeat(left, due) ==
  IF relay.copy # None /\ relay.shown # Shown(relay.copy, relay.overlay)
  THEN /\ wire' = Append(wire, Showing(relay.copy, relay.overlay))
       /\ Loop([relay EXCEPT !.shown = Shown(relay.copy, relay.overlay)],
               left, due)
  ELSE /\ Loop(relay, left, due)
       /\ UNCHANGED wire

\* A reply has come.  A change that does not fit: start again from a baseline.
Take(due) ==
  /\ relay # None /\ Len(wire) < MaxWire
  /\ stream # None /\ stream.chan # <<>>
  /\ LET reply == Head(stream.chan).reply
         read == [stream EXCEPT !.chan = Tail(@)]
     IN  IF ~Takes(reply, relay.copy)
         THEN /\ Loop([relay EXCEPT !.copy = None], None, due)
              /\ UNCHANGED wire
         ELSE CASE reply.kind = "session"   -> ShowNew(reply.session, read, due)
                [] reply.kind = "delta"     -> Forward(reply.delta, read, due)
                [] reply.kind = "unchanged" -> Heartbeat(read, due)
  /\ UNCHANGED <<serverVars, linkVars, heldVars, leaving, appVars, readVars>>

\* No reply has come for a second, or there is no stream.
Idle(due) ==
  /\ relay # None /\ Len(wire) < MaxWire
  /\ stream # None => stream.open /\ stream.chan = <<>>
  /\ Heartbeat(stream, due)
  /\ UNCHANGED <<serverVars, linkVars, heldVars, leaving, appVars, readVars>>

\* The stream has closed: the copy is saved now, and a new stream opened when
\* the server is back.
Closed ==
  /\ relay # None /\ Len(wire) < MaxWire
  /\ stream # None /\ ~stream.open /\ stream.chan = <<>>
  /\ Heartbeat(None, TRUE)
  /\ UNCHANGED <<serverVars, linkVars, heldVars, leaving, appVars, readVars>>

\* A relay whose app is gone notices when it next sends, and saves its copy.
Leave ==
  /\ leaving # None
  /\ cache' = Cached(leaving)
  /\ leaving' = None
  /\ UNCHANGED <<serverVars, linkVars, heldVars, stream, relay, wire, appVars,
                 readVars>>

-----------------------------------------------------------------------------
(* The app *)

\* The app's subscription ends: its connection breaks, the service of this
\* computer stops (then the relay's copy may not be saved), or the user looks
\* at another session (then what was not shown is dropped).
End(saved, kept) ==
  /\ relay # None /\ ends < MaxEnds /\ More
  /\ leaving = None
  /\ ends' = ends + 1
  /\ relay' = None
  /\ stream' = None
  /\ wire' = <<>>
  /\ current' = None
  /\ latest' = IF kept THEN latest ELSE None
  /\ leaving' = IF saved /\ relay.unsaved THEN relay.copy ELSE None
  /\ UNCHANGED <<serverVars, linkVars, heldVars, cache, view, readVars>>

\* The subscription's thread takes a reply and leaves the whole session for
\* the interface.  A change that does not fit ends the subscription.
Receive ==
  /\ wire # <<>>
  /\ LET reply == Head(wire).reply
     IN  IF Takes(reply, current)
         THEN /\ current' = Taken(reply, current)
              /\ latest' = current'
              /\ wire' = Tail(wire)
              /\ UNCHANGED <<relay, stream, leaving>>
         ELSE /\ current' = None
              /\ wire' = <<>>
              /\ relay' = None
              /\ stream' = None
              /\ leaving' = IF relay.unsaved THEN relay.copy ELSE leaving
              /\ UNCHANGED latest
  /\ UNCHANGED <<serverVars, linkVars, heldVars, cache, view, ends, readVars>>

\* Mutant: a copy of the same version brings nothing new.
ViewedNewer(s) == IF view # None /\ view.version >= s.version THEN view ELSE s

\* The interface shows a session unless it shows a newer one.
Viewed(s) == IF view # None /\ view.version > s.version THEN view ELSE s

Show ==
  /\ latest # None
  /\ view' = Viewed(latest)
  /\ latest' = None
  /\ UNCHANGED <<serverVars, linkVars, heldVars, stream, cache, relay, leaving,
                 wire, current, ends, readVars>>

\* A read of the session: from the server, which the cache keeps, or from the
\* cache while the server is away.
Read ==
  /\ reading = None /\ reads < MaxReads /\ More
  /\ link \/ cache # None
  /\ reads' = reads + 1
  /\ reading' = Dress(IF link THEN mem ELSE cache, CurrentOverlay)
  /\ cache' = IF link THEN Cached(mem) ELSE cache
  /\ UNCHANGED <<serverVars, linkVars, heldVars, stream, relay, leaving, wire,
                 appVars>>

HandleRead ==
  /\ reading # None
  /\ view' = Viewed(reading)
  /\ reading' = None
  /\ UNCHANGED <<serverVars, linkVars, heldVars, stream, cache, relay, leaving,
                 wire, current, latest, ends, reads>>

-----------------------------------------------------------------------------
(* Specification *)

Fresh == [version |-> 0, overlay |-> Plain, entries |-> <<>>,
          subagents |-> [a \in Agents |-> None]]

\* The app has opened the session for the first time.
Init ==
  /\ mem = Fresh /\ disk = Fresh /\ was = {Fresh}
  /\ runs = 0 /\ lost = FALSE
  /\ link = TRUE /\ drops = 0
  /\ held = FALSE /\ holds = 0
  /\ stream = None /\ cache = None /\ relay = None /\ leaving = None
  /\ wire = <<>>
  /\ current = None /\ latest = None /\ view = None /\ ends = 0
  /\ reading = None /\ reads = 0

Server == \/ \E edit \in EditKind, agent \in Agents : Update(edit, agent)
          \/ Flush
          \/ \E rewritten, noted \in BOOLEAN : Crash(rewritten, noted)
          \/ Stream

Computer == \/ Drop \/ Connect
            \/ Hold \/ Delivered \/ Prefetch
            \/ Subscribe
            \/ \E due \in BOOLEAN : Take(due)
            \/ \E due \in BOOLEAN : Idle(due)
            \/ Closed \/ Leave

App == \/ \E saved, kept \in BOOLEAN : End(saved, kept)
       \/ Receive \/ Show \/ Read \/ HandleRead

Next == Server \/ Computer \/ App

Spec == Init /\ [][Next]_vars

\* The threads of the three processes run, a dropped connection is made again
\* (Link's worker), and a subscription that ended is opened again after a
\* second (watch.rs).  No edit, fault, read, prefetch or end is owed.
Fairness ==
  /\ WF_vars(Flush)
  /\ WF_vars(Stream)
  /\ WF_vars(Connect)
  /\ WF_vars(Delivered)
  /\ WF_vars(Subscribe)
  /\ WF_vars(Closed \/ \E due \in BOOLEAN : Take(due) \/ Idle(due))
  /\ WF_vars(Receive)
  /\ WF_vars(Show)
  /\ WF_vars(HandleRead)

FairSpec == Spec /\ Fairness

-----------------------------------------------------------------------------
(* Properties *)

Channel(c) == /\ c \in Seq({c[i] : i \in DOMAIN c})
              /\ \A i \in DOMAIN c : c[i].gives \in Session

\* Types.
TypeOK ==
  /\ {mem, disk} \cup was \subseteq Session
  /\ runs \in 0..MaxCrashes /\ lost \in BOOLEAN
  /\ link \in BOOLEAN /\ drops \in 0..MaxDrops
  /\ held \in BOOLEAN /\ holds \in 0..MaxHolds
  /\ stream # None => /\ stream.open \in BOOLEAN
                      /\ stream.sent \in Optional(Session)
                      /\ Channel(stream.chan)
  /\ relay \in Optional(Relays)
  /\ Channel(wire)
  /\ {cache, leaving, current, latest, view, reading}
       \subseteq Optional(Session)
  /\ ends \in 0..MaxEnds /\ reads \in 0..MaxReads

\* One who holds `first` can take every reply of a channel in its order, and
\* holds after each what its sender takes him to hold.
Chained(first, chan) ==
  \A i \in DOMAIN chan :
    LET before == IF i = 1 THEN first ELSE chan[i - 1].gives
    IN  /\ Takes(chan[i].reply, before)
        /\ Taken(chan[i].reply, before) = chan[i].gives

Last(first, chan) == IF chan = <<>> THEN first ELSE chan[Len(chan)].gives

\* What a server streams fits the relay's copy, also when that copy is from
\* before a crash that gave its version to another session: the relay never
\* has to start again from a baseline, and while the stream is open it ends up
\* with what the server has sent last (transport.rs: resume, Delta::apply).
StreamFits ==
  stream # None =>
    /\ relay # None
    /\ Chained(relay.copy, stream.chan)
    /\ stream.open =>
         IF stream.sent # None
         THEN Last(relay.copy, stream.chan) = stream.sent
         ELSE /\ stream.chan = <<>>
              /\ stream.held = IF relay.copy = None THEN None
                               ELSE Fingerprint(relay.copy)

\* The relay knows what the app holds: its own copy, with the additions it has
\* noted.  Every change it forwards fits (federation.rs: Relay::apply, show).
AppInStep ==
  relay # None =>
    /\ Chained(current, wire)
    /\ relay.copy # None =>
         /\ relay.shown = Shown(relay.copy, relay.shown.overlay)
         /\ Last(current, wire) = Dress(relay.copy, relay.shown.overlay)

\* Nobody is shown, sent or left with a mixture: every copy on this computer
\* is a session the server has had, up to what this computer adds to it.
NothingIsMixed ==
  \A s \in {cache, leaving, current, latest, view, reading}
           \cup (IF relay = None THEN {} ELSE {relay.copy}) :
    s # None => Dress(s, Plain) \in was

\* The app comes to show the session as it is on the server, unless a crash
\* took a change back; with what this computer adds, unless it also reads the
\* session beside its watch (ui.rs: a copy is dropped only for a newer one, so
\* that what was read before a restart may replace what came after it).
CatchesUp ==
  []<>(\/ lost \/ (runs > 0 /\ reads > 0)
       \/ /\ view # None
          /\ Dress(view, Plain) = mem
          /\ reads = 0 => view.overlay = CurrentOverlay)

\* The same also after a crash that took a change back ("Reconnect with a full
\* snapshot rather than trusting it", watch.rs:84).
CatchesUpAfterCrash ==
  []<>(view # None /\ Dress(view, Plain) = mem)

\* The same when the session is also read beside the watch.
CatchesUpAfterRead ==
  []<>(lost \/ (view # None /\ Dress(view, Plain) = mem))

\* The same for what this computer adds, whatever else reads the session.
MarksCatchUp ==
  []<>(lost \/ (view # None /\ view.overlay = CurrentOverlay))
=============================================================================
