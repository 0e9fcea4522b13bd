--------------------------- MODULE Transport_proofs ---------------------------
(***************************************************************************)
(* A change applied to what it was made for gives what it was made from:   *)
(* both when it was found by comparing two sessions and when of one of     *)
(* them only the fingerprint was known, whatever was in them.  And what a  *)
(* service adds to a session and to a change of it does not get in the     *)
(* way.                                                                    *)
(***************************************************************************)
EXTENDS Transport, TLAPS

\* All the fields of a change.
IsDelta(d) ==
  d = [base |-> d.base, version |-> d.version, overlay |-> d.overlay,
       main |-> d.main, subagents |-> d.subagents]

-----------------------------------------------------------------------------
(* One transcript *)

\* What Part finds is what Patched needs (Delta::between, Delta::apply).
LEMMA PartPatches ==
  ASSUME NEW a \in Seq(Entry), NEW b \in Seq(Entry)
  PROVE  PartFits(Part(a, b), a) /\ Patched(Part(a, b), a) = b
<1> DEFINE part == Part(a, b)
<1>1. /\ part.count = Len(b) /\ Len(b) \in Nat
      /\ DOMAIN part.entries = {j \in DOMAIN b : j \notin DOMAIN a \/ a[j] # b[j]}
      /\ \A j \in DOMAIN part.entries : part.entries[j] = b[j]
  BY DEF Part
<1>2. DOMAIN b = 1..Len(b) /\ b = [i \in 1..Len(b) |-> b[i]]
  OBVIOUS
<1>3. PartFits(part, a)
  BY <1>1, <1>2 DEF PartFits
<1>4. Patched(part, a) = [i \in 1..Len(b) |-> b[i]]
  BY <1>1, <1>2 DEF Patched
<1> QED BY <1>2, <1>3, <1>4

\* The hashes of a transcript say as much (Delta::against).
LEMMA HashedPartIsPart ==
  ASSUME NEW a, NEW b
  PROVE  HashedPart(Hashes(a), b) = Part(a, b)
<1>1. DOMAIN Hashes(a) = DOMAIN a
  BY DEF Hashes
<1>2. ASSUME NEW j \in DOMAIN a, NEW x
      PROVE  Hashes(a)[j] # Hash(x) <=> a[j] # x
  <2>1. Hashes(a)[j] = [sha |-> a[j]] /\ Hash(x) = [sha |-> x]
    BY DEF Hashes, Hash
  <2>2. [sha |-> a[j]].sha = a[j] /\ [sha |-> x].sha = x
    OBVIOUS
  <2> QED BY <2>1, <2>2
<1>3. {j \in DOMAIN b : j \notin DOMAIN a \/ Hashes(a)[j] # Hash(b[j])}
        = {j \in DOMAIN b : j \notin DOMAIN a \/ a[j] # b[j]}
  BY <1>2
<1> QED BY <1>1, <1>3 DEF HashedPart, Part

-----------------------------------------------------------------------------
(* A session *)

\* Whoever holds the previous session can apply the change, and holds the next
\* one then (Delta::between, Delta::apply).
THEOREM BetweenApplies ==
  ASSUME NEW s \in Session, NEW t \in Session
  PROVE  /\ IsDelta(Between(s, t))
         /\ Fits(Between(s, t), s)
         /\ Applied(Between(s, t), s) = t
<1> DEFINE d == Between(s, t)
<1>1. /\ d.base = s.version /\ d.version = t.version /\ d.overlay = t.overlay
      /\ d.main = Part(s.entries, t.entries)
      /\ DOMAIN d.subagents = Present(t)
      /\ \A a \in Present(t) : d.subagents[a] = Part(Said(s, a), t.subagents[a])
  BY DEF Between
<1>2. s.entries \in Seq(Entry) /\ t.entries \in Seq(Entry)
  BY DEF Session
<1>3. ASSUME NEW a \in Present(t)
      PROVE  a \in Agents /\ Said(s, a) \in Seq(Entry) /\ t.subagents[a] \in Seq(Entry)
  <2>1. a \in DOMAIN t.subagents /\ DOMAIN t.subagents = Agents
    BY DEF Present, Session
  <2>2. t.subagents[a] \in Seq(Entry)
    BY <2>1 DEF Present, Session
  <2>3. s.subagents \in [Agents -> Seq(Entry) \cup {None}]
    BY DEF Session
  <2>4. Said(s, a) \in Seq(Entry)
    BY <2>1, <2>3 DEF Said, Present
  <2> QED BY <2>1, <2>2, <2>4
<1>4. IsDelta(d)
  BY DEF IsDelta, Between
<1>5. Fits(d, s)
  <2>1. PartFits(d.main, s.entries)
    BY <1>1, <1>2, PartPatches
  <2>2. ASSUME NEW a \in DOMAIN d.subagents
        PROVE  PartFits(d.subagents[a], Said(s, a))
    BY <1>1, <1>3, PartPatches
  <2> QED BY <1>1, <2>1, <2>2 DEF Fits
<1>6. Patched(d.main, s.entries) = t.entries
  BY <1>1, <1>2, PartPatches
<1>7. [a \in Agents |-> IF a \in DOMAIN d.subagents
                        THEN Patched(d.subagents[a], Said(s, a)) ELSE None]
        = t.subagents
  <2>1. t.subagents \in [Agents -> Seq(Entry) \cup {None}]
    BY DEF Session
  <2>2. ASSUME NEW a \in Agents
        PROVE  t.subagents[a] = IF a \in DOMAIN d.subagents
                                THEN Patched(d.subagents[a], Said(s, a)) ELSE None
    <3>1. CASE a \in Present(t)
      BY <3>1, <1>1, <1>3, PartPatches
    <3>2. CASE a \notin Present(t)
      BY <3>2, <1>1, <2>1 DEF Present
    <3> QED BY <3>1, <3>2
  <2> QED BY <2>1, <2>2
<1>8. Applied(d, s) = [version |-> t.version, overlay |-> t.overlay,
                       entries |-> t.entries, subagents |-> t.subagents]
  BY <1>1, <1>6, <1>7 DEF Applied
<1>9. t = [version |-> t.version, overlay |-> t.overlay,
           entries |-> t.entries, subagents |-> t.subagents]
  BY DEF Session
<1> QED BY <1>4, <1>5, <1>8, <1>9

\* Comparing with a fingerprint finds what comparing with the session would
\* (Fingerprint, Delta::against).
THEOREM AgainstIsBetween ==
  ASSUME NEW s, NEW t
  PROVE  Against(Fingerprint(s), t) = Between(s, t)
<1> DEFINE print == Fingerprint(s)
<1>1. /\ print.version = s.version
      /\ print.entries = Hashes(s.entries)
      /\ print.subagents = [a \in Present(s) |-> Hashes(s.subagents[a])]
  BY DEF Fingerprint
<1>2. HashedPart(print.entries, t.entries) = Part(s.entries, t.entries)
  BY <1>1, HashedPartIsPart
<1>3. ASSUME NEW a
      PROVE  HashedPart(IF a \in DOMAIN print.subagents
                        THEN print.subagents[a] ELSE <<>>, t.subagents[a])
               = Part(Said(s, a), t.subagents[a])
  <2>1. CASE a \in Present(s)
    BY <2>1, <1>1, HashedPartIsPart DEF Said
  <2>2. CASE a \notin Present(s)
    <3>1. Hashes(<<>>) = <<>>
      BY DEF Hashes
    <3>2. HashedPart(<<>>, t.subagents[a]) = Part(<<>>, t.subagents[a])
      BY <3>1, HashedPartIsPart
    <3> QED BY <3>2, <2>2, <1>1 DEF Said
  <2> QED BY <2>1, <2>2
<1>4. [a \in Present(t) |-> HashedPart(IF a \in DOMAIN print.subagents
                                       THEN print.subagents[a] ELSE <<>>,
                                       t.subagents[a])]
        = [a \in Present(t) |-> Part(Said(s, a), t.subagents[a])]
  BY <1>3
<1> HIDE DEF print
<1>5. Against(print, t)
        = [base |-> s.version, version |-> t.version, overlay |-> t.overlay,
           main |-> Part(s.entries, t.entries),
           subagents |-> [a \in Present(t) |-> Part(Said(s, a), t.subagents[a])]]
  BY <1>1, <1>2, <1>4 DEF Against
<1> QED BY <1>5 DEF print, Between

\* The first reply to a watcher with a copy fits that copy and makes it the
\* session, also when both have the same version (transport::resume).
THEOREM ResumeApplies ==
  ASSUME NEW s \in Session, NEW t \in Session
  PROVE  LET reply == Resume(Fingerprint(s), t)
         IN  Takes(reply, s) /\ Taken(reply, s) = t
<1> DEFINE reply == Resume(Fingerprint(s), t)
<1>1. CASE Fingerprint(s).digest = Hash(t)
  <2>1. [sha |-> s].sha = [sha |-> t].sha
    BY <1>1 DEF Fingerprint, Hash
  <2>2. s = t
    BY <2>1
  <2>3. reply = [kind |-> "unchanged"]
    BY <1>1 DEF Resume, Unchanged
  <2> QED BY <2>2, <2>3 DEF Takes, Taken
<1>2. CASE Fingerprint(s).digest # Hash(t)
  <2>1. reply = [kind |-> "delta", delta |-> Between(s, t)]
    BY <1>2, AgainstIsBetween DEF Resume, Delta
  <2>2. s # None
    BY TransportAssumption
  <2> QED BY <2>1, <2>2, BetweenApplies DEF Takes, Taken
<1> QED BY <1>1, <1>2

\* A change that fits a copy fits it also when either has been dressed, and
\* then makes it what the dressed session is (federation::dress, Relay::apply).
THEOREM DressedApplies ==
  ASSUME NEW d, IsDelta(d), NEW s \in Session, NEW o, NEW p
  PROVE  /\ Fits(Dress(d, o), Dress(s, p)) <=> Fits(d, s)
         /\ Applied(Dress(d, o), Dress(s, p)) = Dress(Applied(d, s), o)
<1> DEFINE e == Dress(d, o)
           t == Dress(s, p)
<1>1. /\ e.base = d.base /\ e.version = d.version /\ e.overlay = o
      /\ e.main = d.main /\ e.subagents = d.subagents
  BY DEF IsDelta, Dress
<1>2. /\ t.version = s.version /\ t.entries = s.entries
      /\ t.subagents = s.subagents
  BY DEF Session, Dress
<1>3. \A a : Said(t, a) = Said(s, a)
  BY <1>2 DEF Said, Present
<1>4. Fits(e, t) <=> Fits(d, s)
  BY <1>1, <1>2, <1>3 DEF Fits
<1>5. [a \in Agents |-> IF a \in DOMAIN e.subagents
                        THEN Patched(e.subagents[a], Said(t, a)) ELSE None]
        = [a \in Agents |-> IF a \in DOMAIN d.subagents
                            THEN Patched(d.subagents[a], Said(s, a)) ELSE None]
  BY <1>1, <1>3
<1>6. Patched(e.main, t.entries) = Patched(d.main, s.entries)
  BY <1>1, <1>2
<1> HIDE DEF e, t
<1>7. Applied(e, t)
        = [version |-> d.version, overlay |-> o,
           entries |-> Patched(d.main, s.entries),
           subagents |-> [a \in Agents |->
                            IF a \in DOMAIN d.subagents
                            THEN Patched(d.subagents[a], Said(s, a)) ELSE None]]
  BY <1>1, <1>5, <1>6 DEF Applied
<1>8. ASSUME NEW v, NEW w, NEW x, NEW y
      PROVE  Dress([version |-> v, overlay |-> w, entries |-> x,
                    subagents |-> y], o)
               = [version |-> v, overlay |-> o, entries |-> x, subagents |-> y]
  BY DEF Dress
<1>9. Dress(Applied(d, s), o) = Applied(e, t)
  BY <1>7, <1>8 DEF Applied
<1> QED BY <1>4, <1>9 DEF e, t

\* A session in other clothes is a session, and takes off what was put on.
LEMMA Dressed ==
  ASSUME NEW s \in Session, NEW o \in Overlay
  PROVE  /\ Dress(s, o) \in Session
         /\ Dress(s, o).version = s.version
         /\ Dress(s, o).overlay = o
         /\ \A p : Dress(Dress(s, o), p) = Dress(s, p)
         /\ Dress(s, s.overlay) = s
  BY DEF Session, Dress
=============================================================================
