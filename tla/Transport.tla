------------------------------ MODULE Transport ------------------------------
(***************************************************************************)
(* What travels of a session to those who watch it: the whole of it, or    *)
(* what has changed since the copy the watcher holds.  A change is found   *)
(* by comparing two sessions, or a session with the fingerprint of a copy  *)
(* the watcher has kept.                                                   *)
(*                                                                         *)
(* Of a session only what the comparison tells apart is kept: its version, *)
(* what the watcher's own service adds to it (Dress), its entries and      *)
(* those of its sub-agents.                                                *)
(***************************************************************************)
EXTENDS Naturals, Sequences

CONSTANTS
  Entry,   \* the entries of a transcript
  Agents,  \* the sub-agents a session may have
  None     \* nothing held, sent or shown

\* Held: a message waits on this computer; offline: its server is not reached.
Overlay == [held : BOOLEAN, offline : BOOLEAN]

\* Servers send sessions without either.
Plain == [held |-> FALSE, offline |-> FALSE]

Session ==
  [version   : Nat,
   overlay   : Overlay,
   entries   : Seq(Entry),
   subagents : [Agents -> Seq(Entry) \cup {None}]]

ASSUME TransportAssumption == None \notin Session

\* The service's additions replace the ones there are, in a session and in a
\* change of one.
Dress(s, overlay) == [s EXCEPT !.overlay = overlay]

-----------------------------------------------------------------------------
(* Changes *)

\* The entries of one transcript that another does not have at their place.
Part(old, new) ==
  [count   |-> Len(new),
   entries |-> [i \in {j \in DOMAIN new :
                         j \notin DOMAIN old \/ old[j] # new[j]} |-> new[i]]]

\* The sub-agents there are; another has said nothing.
Present(s) == {a \in Agents : s.subagents[a] # None}
Said(s, a) == IF a \in Present(s) THEN s.subagents[a] ELSE <<>>

Between(previous, next) ==
  [base      |-> previous.version,
   version   |-> next.version,
   overlay   |-> next.overlay,
   main      |-> Part(previous.entries, next.entries),
   subagents |-> [a \in Present(next) |->
                    Part(Said(previous, a), next.subagents[a])]]

\* Past the old length every entry must come with the change.
PartFits(part, old) ==
  /\ DOMAIN part.entries \subseteq 1..part.count
  /\ \A i \in 1..part.count : i \in DOMAIN part.entries \cup DOMAIN old

Patched(part, old) ==
  [i \in 1..part.count |->
     IF i \in DOMAIN part.entries THEN part.entries[i] ELSE old[i]]

Fits(delta, s) ==
  /\ delta.base = s.version
  /\ PartFits(delta.main, s.entries)
  /\ \A a \in DOMAIN delta.subagents :
       PartFits(delta.subagents[a], Said(s, a))

\* A sub-agent the change does not name is gone.
Applied(delta, s) ==
  [version   |-> delta.version,
   overlay   |-> delta.overlay,
   entries   |-> Patched(delta.main, s.entries),
   subagents |-> [a \in Agents |->
                    IF a \in DOMAIN delta.subagents
                    THEN Patched(delta.subagents[a], Said(s, a)) ELSE None]]

-----------------------------------------------------------------------------
(* Fingerprints *)

\* SHA-256 and its first 64 bits: nothing else has them.
Hash(x) == [sha |-> x]
Hashes(entries) == [i \in DOMAIN entries |-> Hash(entries[i])]

Fingerprint(s) ==
  [version   |-> s.version,
   digest    |-> Hash(s),
   entries   |-> Hashes(s.entries),
   subagents |-> [a \in Present(s) |-> Hashes(s.subagents[a])]]

\* Mutant: takes a transcript to have only grown.
HashedPartGrown(hashes, new) ==
  [count   |-> Len(new),
   entries |-> [i \in DOMAIN new \ DOMAIN hashes |-> new[i]]]

\* The same comparison with a copy of which only the fingerprint is here.
HashedPart(hashes, new) ==
  [count   |-> Len(new),
   entries |-> [i \in {j \in DOMAIN new :
                         j \notin DOMAIN hashes \/ hashes[j] # Hash(new[j])}
                  |-> new[i]]]

Against(held, next) ==
  [base      |-> held.version,
   version   |-> next.version,
   overlay   |-> next.overlay,
   main      |-> HashedPart(held.entries, next.entries),
   subagents |-> [a \in Present(next) |->
                    HashedPart(IF a \in DOMAIN held.subagents
                               THEN held.subagents[a] ELSE <<>>,
                               next.subagents[a])]]

-----------------------------------------------------------------------------
(* Replies *)

Unchanged   == [kind |-> "unchanged"]
Whole(s)    == [kind |-> "session", session |-> s]
Delta(d)    == [kind |-> "delta", delta |-> d]

\* Mutant: trusts the version of the copy.
ResumeByVersion(held, s) ==
  IF held.version = s.version THEN Unchanged ELSE Delta(Against(held, s))

\* The first reply to a watcher that holds a copy.
Resume(held, s) ==
  IF held.digest = Hash(s) THEN Unchanged ELSE Delta(Against(held, s))

\* Whether one who holds s (or nothing) can take the reply, and what he holds
\* then.
Takes(reply, s) ==
  reply.kind = "delta" => s # None /\ Fits(reply.delta, s)

Taken(reply, s) ==
  CASE reply.kind = "session"   -> reply.session
    [] reply.kind = "unchanged" -> s
    [] reply.kind = "delta"     -> Applied(reply.delta, s)
=============================================================================
