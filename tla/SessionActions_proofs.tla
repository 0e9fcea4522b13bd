------------------------- MODULE SessionActions_proofs -------------------------
(***************************************************************************)
(* Clear, Repository, a change of model and Delete, for any number of      *)
(* messages, requests and failures: a deleted session stays deleted, no    *)
(* accepted message vanishes, messages wait in the order they were         *)
(* written, and none is sent while scheduled actions are being applied.    *)
(*                                                                         *)
(* The invariant has layers.  Held says what each party holds.  Line       *)
(* orders the queue together with what was taken out of it.  Apart keeps   *)
(* what waits disjoint from what was sent, in the record and in its file,  *)
(* which a restart goes back to.  Kept accounts for every message.  Sent   *)
(* keeps what waits apart also from older records: the file's, and the one *)
(* that a change of model is about to write back.                          *)
(***************************************************************************)
EXTENDS SessionActions, FiniteSetTheorems, TLAPS

-----------------------------------------------------------------------------
(* The invariant *)

Steps ==
  {"none", "mark", "check", "read", "queue", "send", "stop", "discard",
   "reset", "write", "worktree", "media", "history"}

Good(s) == s \in Session /\ Range(s.actions) \subseteq Tools

\* The thread that applies actions holds the queue.
Holding == apply.step \in {"next", "ask", "asked", "done"}

\* The record and its file come and go together.
Records ==
  /\ Known => Good(mem)
  /\ file # Gone => Good(file)
  /\ Known <=> file # Gone

\* A turn runs in a worker, and so does a session that starts, unless it has yet
\* to be prepared.
Working ==
  /\ worker \in Worker /\ initial \in Seq(Messages \cup {Continue})
  /\ Known /\ Active(mem) => worker # "off" \/ Preparing(mem)

\* A change of model has read a record whose queue was empty.
Locked ==
  /\ job \in [by : {"none", "user", "apply"},
              kind : Kinds \cup {"none", "delete", "message"},
              step : Steps, read : Session \cup {Gone}]
  /\ job.step = "write" => /\ job.kind = "model" /\ Good(job.read)
                           /\ job.read.queue = <<>>
  /\ written \in 0..MaxMessages
  /\ job.kind = "message" => written # 0 /\ job.step \in {"read", "queue", "send"}

Applies ==
  [step : {"off", "next", "ask", "asked", "done"},
   todo : Seq(Kinds), aside : Seq(Messages), live : BOOLEAN]

\* Only while a request of its own is prepared or under the lock does the
\* thread hold messages aside.
Applying ==
  /\ apply \in Applies
  /\ IF apply.step \in {"ask", "asked", "done"} THEN apply.todo # <<>>
     ELSE apply.aside = <<>>
  /\ job.by = "apply" <=> apply.step = "asked"
  /\ due \in {"no", "finished", "unfinished"}
  /\ due # "no" => apply.step = "off"

Held == Records /\ Working /\ Locked /\ Applying

Ascending(q) == \A i, j \in DOMAIN q : i < j => q[i] < q[j]

\* What was taken aside goes before the queue, and all of it was written.
Line ==
  /\ Ascending(apply.aside) /\ Range(apply.aside) \subseteq Accepted
  /\ Known =>
       /\ Ascending(mem.queue) /\ Range(mem.queue) \subseteq Accepted
       /\ \A m \in Range(apply.aside), n \in Range(mem.queue) : m < n
       /\ Ascending(file.queue) /\ Range(file.queue) \subseteq 1..written

\* No message waits that was sent, and while actions are applied the record
\* says so.
Apart ==
  Known /\ ~history.overwrote =>
    /\ mem.chat \cup Range(initial) \subseteq Accepted \cup {Continue}
    /\ file.chat \subseteq 1..written
    /\ (Range(mem.queue) \cup Range(apply.aside))
         \cap (mem.chat \cup Range(initial)) = {}
    /\ Range(file.queue) \cap file.chat = {}
    /\ Holding => mem.applying

\* Where a message is that is not shown.
Elsewhere ==
  Range(apply.aside) \cup history.cleared \cup history.lost \cup history.refused

Kept ==
  Known /\ ~history.overwrote =>
    /\ Accepted \subseteq Shown(mem) \cup Elsewhere
    /\ Accepted \subseteq Shown(file) \cup Elsewhere

Histories ==
  [cleared : SUBSET Messages, lost : SUBSET Messages, refused : SUBSET Messages,
   stranded : SUBSET Messages, overwrote : BOOLEAN, raced : BOOLEAN]

Recorded == history \in Histories

Inv == Held /\ Line /\ Apart /\ Kept /\ Recorded

-----------------------------------------------------------------------------
(* Sequences *)

LEMMA RangeIs ==
  ASSUME NEW S, NEW q \in Seq(S)
  PROVE  /\ Range(q) \subseteq S /\ DOMAIN q = 1..Len(q) /\ Len(q) \in Nat
         /\ \A i \in DOMAIN q : q[i] \in Range(q)
         /\ \A x \in Range(q) : \E i \in DOMAIN q : x = q[i]
         /\ Range(<<>>) = {} /\ Ascending(<<>>)
BY DEF Range, Ascending

LEMMA AppendIs ==
  ASSUME NEW S, NEW q \in Seq(S), NEW x \in S
  PROVE  /\ Append(q, x) \in Seq(S) /\ Range(Append(q, x)) = Range(q) \cup {x}
         /\ DOMAIN Append(q, x) = 1..(Len(q) + 1)
         /\ \A i \in DOMAIN Append(q, x) :
              Append(q, x)[i] = IF i \in DOMAIN q THEN q[i] ELSE x
<1>1. /\ Append(q, x) \in Seq(S) /\ DOMAIN Append(q, x) = 1..(Len(q) + 1)
      /\ DOMAIN q = 1..Len(q) /\ Len(q) \in Nat
      /\ \A i \in 1..Len(q) : Append(q, x)[i] = q[i]
      /\ Append(q, x)[Len(q) + 1] = x
  OBVIOUS
<1>2. \A i \in DOMAIN Append(q, x) :
        Append(q, x)[i] = IF i \in DOMAIN q THEN q[i] ELSE x
  BY <1>1
<1>3. Range(Append(q, x)) = Range(q) \cup {x}
  <2>1. Len(q) + 1 \in DOMAIN Append(q, x) /\ DOMAIN q \subseteq DOMAIN Append(q, x)
    BY <1>1
  <2> QED BY <1>1, <1>2, <2>1 DEF Range
<1> QED BY <1>1, <1>2, <1>3

LEMMA TailIs ==
  ASSUME NEW S, NEW q \in Seq(S), q # <<>>
  PROVE  /\ Tail(q) \in Seq(S) /\ Head(q) \in S
         /\ 1 \in DOMAIN q /\ Head(q) = q[1]
         /\ Range(q) = Range(Tail(q)) \cup {Head(q)}
         /\ \A i \in DOMAIN Tail(q) : i + 1 \in DOMAIN q /\ Tail(q)[i] = q[i + 1]
<1>1. /\ Tail(q) \in Seq(S) /\ Head(q) \in S /\ Head(q) = q[1]
      /\ DOMAIN q = 1..Len(q) /\ Len(q) \in Nat \ {0}
      /\ DOMAIN Tail(q) = 1..(Len(q) - 1)
      /\ \A i \in DOMAIN Tail(q) : Tail(q)[i] = q[i + 1]
  OBVIOUS
<1>2. Range(q) \subseteq Range(Tail(q)) \cup {Head(q)}
  <2> SUFFICES ASSUME NEW i \in DOMAIN q PROVE q[i] \in Range(Tail(q)) \cup {Head(q)}
    BY DEF Range
  <2>1. CASE i = 1
    BY <1>1, <2>1
  <2>2. CASE i # 1
    <3>1. i - 1 \in DOMAIN Tail(q) /\ Tail(q)[i - 1] = q[i]
      BY <1>1, <2>2
    <3> QED BY <3>1 DEF Range
  <2> QED BY <2>1, <2>2
<1>3. Range(Tail(q)) \cup {Head(q)} \subseteq Range(q)
  BY <1>1 DEF Range
<1> QED BY <1>1, <1>2, <1>3

LEMMA ConcatIs ==
  ASSUME NEW S, NEW p \in Seq(S), NEW q \in Seq(S)
  PROVE  /\ p \o q \in Seq(S) /\ Range(p \o q) = Range(p) \cup Range(q)
         /\ DOMAIN (p \o q) = 1..(Len(p) + Len(q))
         /\ \A i \in DOMAIN p : i \in DOMAIN (p \o q) /\ (p \o q)[i] = p[i]
         /\ \A i \in DOMAIN q : Len(p) + i \in DOMAIN (p \o q)
                                /\ (p \o q)[Len(p) + i] = q[i]
         /\ \A i \in DOMAIN (p \o q) :
              i \in DOMAIN p \/ (i > Len(p) /\ i - Len(p) \in DOMAIN q)
<1>1. /\ p \o q \in Seq(S) /\ DOMAIN (p \o q) = 1..(Len(p) + Len(q))
      /\ DOMAIN p = 1..Len(p) /\ Len(p) \in Nat
      /\ DOMAIN q = 1..Len(q) /\ Len(q) \in Nat
      /\ \A i \in 1..Len(p) : (p \o q)[i] = p[i]
      /\ \A i \in 1..(Len(p) + Len(q)) : i > Len(p) => (p \o q)[i] = q[i - Len(p)]
  OBVIOUS
<1>2. /\ \A i \in DOMAIN p : i \in DOMAIN (p \o q) /\ (p \o q)[i] = p[i]
      /\ \A i \in DOMAIN (p \o q) :
           i \in DOMAIN p \/ (i > Len(p) /\ i - Len(p) \in DOMAIN q)
  BY <1>1
<1>3. ASSUME NEW i \in DOMAIN q
      PROVE  Len(p) + i \in DOMAIN (p \o q) /\ (p \o q)[Len(p) + i] = q[i]
  <2>1. Len(p) + i \in 1..(Len(p) + Len(q)) /\ Len(p) + i > Len(p)
        /\ (Len(p) + i) - Len(p) = i
    BY <1>1
  <2> QED BY <1>1, <2>1
<1>4. Range(p) \cup Range(q) \subseteq Range(p \o q)
  BY <1>2, <1>3 DEF Range
<1>5. Range(p \o q) \subseteq Range(p) \cup Range(q)
  BY <1>1, <1>2 DEF Range
<1> QED BY <1>1, <1>2, <1>3, <1>4, <1>5

\* Two lines in order, the first before the second, are one line in order.
LEMMA AscendingConcat ==
  ASSUME NEW S \in SUBSET Int, NEW p \in Seq(S), NEW q \in Seq(S)
  PROVE  Ascending(p \o q)
           <=> /\ Ascending(p) /\ Ascending(q)
               /\ \A m \in Range(p), n \in Range(q) : m < n
<1>0. /\ DOMAIN p = 1..Len(p) /\ Len(p) \in Nat
      /\ DOMAIN q = 1..Len(q) /\ Len(q) \in Nat
  OBVIOUS
<1>1. ASSUME Ascending(p), Ascending(q), \A m \in Range(p), n \in Range(q) : m < n,
             NEW i \in DOMAIN (p \o q), NEW j \in DOMAIN (p \o q), i < j
      PROVE  (p \o q)[i] < (p \o q)[j]
  <2>0. /\ i \in Int /\ j \in Int
        /\ i \in DOMAIN p \/ (i > Len(p) /\ i - Len(p) \in DOMAIN q)
        /\ j \in DOMAIN p \/ (j > Len(p) /\ j - Len(p) \in DOMAIN q)
    BY <1>0, ConcatIs
  <2>1. CASE j \in DOMAIN p
    <3>1. i \in DOMAIN p
      BY <1>0, <1>1, <2>0, <2>1
    <3> QED BY <1>1, <2>1, <3>1, ConcatIs DEF Ascending
  <2>2. CASE i \in DOMAIN p /\ j > Len(p) /\ j - Len(p) \in DOMAIN q
    <3>1. (p \o q)[i] = p[i] /\ (p \o q)[Len(p) + (j - Len(p))] = q[j - Len(p)]
      BY <2>2, ConcatIs
    <3>2. Len(p) + (j - Len(p)) = j
      BY <1>0, <2>0
    <3>3. p[i] \in Range(p) /\ q[j - Len(p)] \in Range(q)
      BY <2>2 DEF Range
    <3> QED BY <1>1, <3>1, <3>2, <3>3
  <2>3. CASE /\ i > Len(p) /\ i - Len(p) \in DOMAIN q
             /\ j > Len(p) /\ j - Len(p) \in DOMAIN q
    <3>1. /\ (p \o q)[Len(p) + (i - Len(p))] = q[i - Len(p)]
          /\ (p \o q)[Len(p) + (j - Len(p))] = q[j - Len(p)]
      BY <2>3, ConcatIs
    <3>2. /\ Len(p) + (i - Len(p)) = i /\ Len(p) + (j - Len(p)) = j
          /\ i - Len(p) < j - Len(p)
      BY <1>0, <1>1, <2>0
    <3> QED BY <1>1, <2>3, <3>1, <3>2 DEF Ascending
  <2> QED BY <1>0, <1>1, <2>0, <2>1, <2>2, <2>3
<1>2. ASSUME Ascending(p \o q)
      PROVE  /\ Ascending(p) /\ Ascending(q)
             /\ \A m \in Range(p), n \in Range(q) : m < n
  <2>1. Ascending(p)
    BY <1>2, ConcatIs DEF Ascending
  <2>2. ASSUME NEW i \in DOMAIN q, NEW j \in DOMAIN q, i < j PROVE q[i] < q[j]
    <3>1. Len(p) + i < Len(p) + j
      BY <1>0, <2>2
    <3> QED BY <1>2, <3>1, ConcatIs DEF Ascending
  <2>3. ASSUME NEW m \in Range(p), NEW n \in Range(q) PROVE m < n
    <3>1. PICK i \in DOMAIN p, j \in DOMAIN q : m = p[i] /\ n = q[j]
      BY DEF Range
    <3>2. i < Len(p) + j
      BY <1>0
    <3> QED BY <1>2, <3>1, <3>2, ConcatIs DEF Ascending
  <2> QED BY <2>1, <2>2, <2>3 DEF Ascending
<1> QED BY <1>1, <1>2 DEF Ascending

\* Messages in order are no more than there are messages.
LEMMA AscendingIsShort ==
  ASSUME NEW n \in Nat, NEW q \in Seq(1..n), Ascending(q) PROVE Len(q) <= n
<1>1. DOMAIN q = 1..Len(q) /\ Len(q) \in Nat
  OBVIOUS
<1>2. ASSUME NEW k \in Nat PROVE IsFiniteSet(1..k) /\ Cardinality(1..k) = k
  <2>1. IsFiniteSet(1..k) /\ Cardinality(1..k) = IF 1 > k THEN 0 ELSE k - 1 + 1
    BY FS_Interval
  <2> QED BY <2>1
<1>3. q \in [1..Len(q) -> 1..n]
  BY <1>1
<1>4. \A i, j \in 1..Len(q) : i # j => q[i] # q[j]
  BY <1>1, <1>3 DEF Ascending
<1>5. q \in Injection(1..Len(q), 1..n)
  BY <1>3, <1>4 DEF Injection, IsInjective
<1>6. Cardinality(1..Len(q)) <= Cardinality(1..n)
  BY <1>2, <1>5, FS_Injection
<1> QED BY <1>1, <1>2, <1>6

-----------------------------------------------------------------------------
(* Changes of a record *)

LEMMA GoneIsNoSession == Gone \notin Session
BY DEF Gone, Session

\* The queue stays, or is shown as unsent; nothing is sent or forgotten.
Stays(s, t) ==
  /\ t.queue \in {s.queue, <<>>} /\ t.chat = s.chat /\ Shown(t) = Shown(s)
  /\ t.applying = s.applying

\* A session that is active was so before, and prepared no more than it was.
Starts(s, t) == Active(t) => Active(s) /\ (Preparing(s) => Preparing(t))

LEMMA SameStart ==
  ASSUME NEW s, NEW t, t.status = s.status, t.thread = s.thread, t.ready = s.ready
  PROVE  Starts(s, t)
BY DEF Starts, Active, Preparing

LEMMA FieldsOf ==
  ASSUME NEW s, Good(s)
  PROVE  /\ s \in Session /\ s # Gone
         /\ s.status \in {"Starting", "Running", "Idle", "Interrupted", "Failed"}
         /\ s.thread \in BOOLEAN /\ s.ready \in BOOLEAN /\ s.applying \in BOOLEAN
         /\ s.clearing \in BOOLEAN /\ s.stage \in Stages
         /\ s.queue \in Seq(Messages) /\ s.chat \subseteq Messages
         /\ s.unsent \subseteq Messages /\ s.actions \in Seq(Kinds)
         /\ Range(s.actions) \subseteq Tools /\ Range(s.queue) \subseteq Messages
<1>1. s \in Session
  BY DEF Good
<1>2. Range(s.queue) \subseteq Messages
  BY <1>1 DEF Session, Range
<1> QED BY <1>1, <1>2, GoneIsNoSession DEF Good, Session

\* A change of what is neither a message nor an action.
LEMMA Plain ==
  ASSUME NEW s, Good(s), NEW t \in Session, t.queue = s.queue, t.chat = s.chat,
         t.unsent = s.unsent, t.actions = s.actions, t.applying = s.applying
  PROVE  Good(t) /\ Stays(s, t)
BY DEF Good, Stays, Shown

LEMMA StaysOn ==
  ASSUME NEW r, NEW s, NEW t, Stays(r, s), Stays(s, t) PROVE Stays(r, t)
BY DEF Stays

\* The file holds what the record does, but for its schedule.
LEMMA SavedGood ==
  ASSUME NEW s, Good(s)
  PROVE  /\ Good(Saved(s)) /\ Saved(s).queue = s.queue /\ Saved(s).chat = s.chat
         /\ Shown(Saved(s)) = Shown(s) /\ Saved(s) # Gone
<1> DEFINE t == Saved(s)
<1>1. s \in Session /\ <<>> \in Seq(Kinds) /\ FALSE \in BOOLEAN
  BY FieldsOf
<1>2. t \in Session
  BY <1>1, Zenon DEF Saved, Session
<1>3. /\ t.queue = s.queue /\ t.chat = s.chat /\ t.unsent = s.unsent
      /\ t.actions = <<>>
  BY <1>1 DEF Saved, Session
<1>4. Good(t)
  BY <1>2, <1>3 DEF Good, Range
<1> QED BY <1>3, <1>4, FieldsOf DEF Shown

LEMMA QueueUnsentGood ==
  ASSUME NEW s, Good(s)
  PROVE  LET t == QueueUnsent(s)
         IN  /\ Good(t) /\ Stays(s, t) /\ t.queue = <<>>
             /\ t.status = s.status /\ t.actions = s.actions
<1> DEFINE t == QueueUnsent(s)
<1>1. /\ s \in Session /\ <<>> \in Seq(Messages)
      /\ s.unsent \cup Range(s.queue) \in SUBSET Messages
  BY FieldsOf
<1>2. t \in Session
  BY <1>1, Zenon DEF QueueUnsent, Session
<1>3. /\ t.queue = <<>> /\ t.chat = s.chat /\ t.unsent = s.unsent \cup Range(s.queue)
      /\ t.actions = s.actions /\ t.applying = s.applying /\ t.status = s.status
  BY <1>1 DEF QueueUnsent, Session
<1>4. Shown(t) = Shown(s)
  BY <1>3 DEF Shown, Range
<1> QED BY <1>2, <1>3, <1>4 DEF Good, Stays

LEMMA WorkerEndedGood ==
  ASSUME NEW s, Good(s), NEW c \in BOOLEAN
  PROVE  LET t == WorkerEnded(s, c)
         IN  Good(t) /\ Stays(s, t) /\ t.queue = <<>> /\ ~Active(t)
<1> DEFINE r == QueueUnsent(s)
           x == IF ~c THEN "Failed"
                ELSE IF Active(s) THEN "Interrupted" ELSE r.status
           t == [r EXCEPT !.status = x]
<1>1. Good(r) /\ Stays(s, r) /\ r.queue = <<>> /\ r.status = s.status
  BY QueueUnsentGood
<1>2. /\ x \in {"Starting", "Running", "Idle", "Interrupted", "Failed"}
      /\ x \notin {"Starting", "Running"}
  BY <1>1, FieldsOf DEF Active
<1>3. WorkerEnded(s, c) = t
  BY DEF WorkerEnded
<1> HIDE DEF x, r
<1>4. r \in Session
  BY <1>1, FieldsOf
<1>5. t \in Session
  BY <1>2, <1>4 DEF Session
<1>6. /\ t.queue = r.queue /\ t.chat = r.chat /\ t.unsent = r.unsent
      /\ t.actions = r.actions /\ t.applying = r.applying /\ t.status = x
  BY <1>4 DEF Session
<1>7. Good(t) /\ Stays(r, t)
  BY <1>1, <1>5, <1>6, Plain
<1>8. ~Active(t)
  BY <1>2, <1>6 DEF Active
<1> QED BY <1>1, <1>3, <1>6, <1>7, <1>8, StaysOn

\* The worker is stopped, or there is none.
LEMMA WorkerStoppedGood ==
  ASSUME NEW s, Good(s), Active(s) => worker # "off" \/ Preparing(s)
  PROVE  LET t == WorkerStopped(s)
         IN  /\ Good(t) /\ Stays(s, t) /\ (Active(t) => Preparing(t))
             /\ ~Active(s) => ~Active(t)
<1>1. CASE worker = "off"
  BY <1>1 DEF WorkerStopped, Stays
<1>2. CASE worker # "off"
  <2> DEFINE r == WorkerEnded(s, TRUE)
             x == r.clearing /\ worker # "prepare"
             t == [r EXCEPT !.clearing = x]
  <2>1. Good(r) /\ Stays(s, r) /\ r.queue = <<>> /\ ~Active(r)
    BY WorkerEndedGood
  <2>2. x \in BOOLEAN
    OBVIOUS
  <2>3. WorkerStopped(s) = t
    BY <1>2 DEF WorkerStopped
  <2> HIDE DEF x, r
  <2>4. r \in Session
    BY <2>1, FieldsOf
  <2>5. t \in Session
    BY <2>2, <2>4, Zenon DEF Session
  <2>6. /\ t.queue = r.queue /\ t.chat = r.chat /\ t.unsent = r.unsent
        /\ t.actions = r.actions /\ t.applying = r.applying /\ t.status = r.status
    BY <2>4 DEF Session
  <2>7. Good(t) /\ Stays(r, t)
    BY <2>1, <2>5, <2>6, Plain
  <2> QED BY <2>1, <2>3, <2>6, <2>7, StaysOn DEF Active
<1> QED BY <1>1, <1>2

LEMMA ResetWorkspaceGood ==
  ASSUME NEW s, Good(s)
  PROVE  LET t == ResetWorkspace(s)
         IN  Good(t) /\ Stays(s, t) /\ t.queue = <<>> /\ ~Active(t)
<1> DEFINE r == QueueUnsent(s)
           t == [r EXCEPT !.status = "Idle", !.ready = FALSE]
<1>1. Good(r) /\ Stays(s, r) /\ r.queue = <<>>
  BY QueueUnsentGood
<1>2. ResetWorkspace(s) = t
  BY DEF ResetWorkspace
<1> HIDE DEF r
<1>3. /\ r \in Session /\ FALSE \in BOOLEAN
      /\ "Idle" \in {"Starting", "Running", "Idle", "Interrupted", "Failed"}
  BY <1>1, FieldsOf
<1>4. t \in Session
  BY <1>3, Zenon DEF Session
<1>5. /\ t.queue = r.queue /\ t.chat = r.chat /\ t.unsent = r.unsent
      /\ t.actions = r.actions /\ t.applying = r.applying /\ t.status = "Idle"
  BY <1>3 DEF Session
<1>6. Good(t) /\ Stays(r, t)
  BY <1>1, <1>4, <1>5, Plain
<1> QED BY <1>1, <1>2, <1>5, <1>6, StaysOn DEF Active

LEMMA ClearConversationGood ==
  ASSUME NEW s, Good(s)
  PROVE  LET t == ClearConversation(s)
         IN  /\ Good(t) /\ t.queue = s.queue /\ t.chat = {}
             /\ t.applying = s.applying /\ Preparing(t)
<1> DEFINE t == ClearConversation(s)
<1>1. /\ s \in Session /\ FALSE \in BOOLEAN /\ <<>> \in Seq(Kinds)
      /\ "Starting" \in {"Starting", "Running", "Idle", "Interrupted", "Failed"}
      /\ {} \in SUBSET Messages
  BY FieldsOf
<1>2. t \in Session
  BY <1>1, Zenon DEF ClearConversation, Session
<1>3. /\ t.queue = s.queue /\ t.chat = {} /\ t.actions = <<>>
      /\ t.applying = s.applying
  BY <1>1 DEF ClearConversation, Session
<1>4. Preparing(t)
  BY <1>1 DEF ClearConversation, Session, Preparing
<1> QED BY <1>2, <1>3, <1>4 DEF Good, Range

LEMMA ScheduleGood ==
  ASSUME NEW s, Good(s), NEW k \in Tools
  PROVE  Good(Schedule(s, k)) /\ Stays(s, Schedule(s, k))
         /\ Schedule(s, k).status = s.status
<1>1. CASE k \in Range(s.actions)
  BY <1>1 DEF Schedule, Stays
<1>2. CASE k \notin Range(s.actions)
  <2> DEFINE a == Append(s.actions, k)
             t == [s EXCEPT !.actions = a]
  <2>1. s \in Session /\ s.actions \in Seq(Kinds) /\ k \in Kinds
    BY FieldsOf, SessionActionsAssumption
  <2>2. a \in Seq(Kinds) /\ Range(a) = Range(s.actions) \cup {k}
    BY <2>1, AppendIs
  <2>3. Schedule(s, k) = t
    BY <1>2 DEF Schedule
  <2> HIDE DEF a
  <2>4. t \in Session
    BY <2>1, <2>2, Zenon DEF Session
  <2>5. /\ t.queue = s.queue /\ t.chat = s.chat /\ t.unsent = s.unsent
        /\ t.actions = a /\ t.applying = s.applying /\ t.status = s.status
    BY <2>1 DEF Session
  <2> QED BY <2>2, <2>3, <2>4, <2>5, FieldsOf DEF Good, Stays, Shown
<1> QED BY <1>1, <1>2

LEMMA AfterRestartGood ==
  ASSUME NEW s, Good(s)
  PROVE  /\ Good(AfterRestart(s)) /\ Stays(s, AfterRestart(s))
<1> DEFINE x == IF Active(s) THEN "Interrupted" ELSE s.status
           r == [s EXCEPT !.clearing = FALSE, !.stage = "None", !.status = x]
           t == [r EXCEPT !.status = "Starting"]
<1>1. /\ s \in Session /\ FALSE \in BOOLEAN /\ "None" \in Stages
      /\ x \in {"Starting", "Running", "Idle", "Interrupted", "Failed"}
      /\ "Starting" \in {"Starting", "Running", "Idle", "Interrupted", "Failed"}
  BY FieldsOf DEF Stages
<1>2. AfterRestart(s) \in {t, QueueUnsent(r)}
  BY Zenon DEF AfterRestart
<1> HIDE DEF x
<1>3. r \in Session
  BY <1>1, Zenon DEF Session
<1>4. /\ r.queue = s.queue /\ r.chat = s.chat /\ r.unsent = s.unsent
      /\ r.actions = s.actions /\ r.applying = s.applying
  BY <1>1 DEF Session
<1>5. Good(r) /\ Stays(s, r)
  BY <1>3, <1>4, Plain
<1> HIDE DEF r
<1>6. t \in Session
  BY <1>1, <1>3, Zenon DEF Session
<1>7. /\ t.queue = r.queue /\ t.chat = r.chat /\ t.unsent = r.unsent
      /\ t.actions = r.actions /\ t.applying = r.applying
  BY <1>3 DEF Session
<1>8. Good(t) /\ Stays(r, t)
  BY <1>5, <1>6, <1>7, Plain
<1>9. Good(QueueUnsent(r)) /\ Stays(r, QueueUnsent(r))
  BY <1>5, QueueUnsentGood
<1> HIDE DEF t
<1> QED BY <1>2, <1>5, <1>8, <1>9, StaysOn

-----------------------------------------------------------------------------
(* What the parties hold, kept step by step *)

FileFollows == file' = file \/ file' = Saved(mem')

LEMMA RecordsFollow ==
  ASSUME Records, Known, Good(mem'), FileFollows PROVE Records' /\ Known'
<1>1. mem' # Gone /\ Good(Saved(mem')) /\ Saved(mem') # Gone
  BY FieldsOf, SavedGood
<1>2. file # Gone /\ Good(file)
  BY DEF Records
<1> QED BY <1>1, <1>2 DEF Records, Known, FileFollows

LEMMA RecordsSame == ASSUME Records, UNCHANGED <<mem, file>> PROVE Records'
BY DEF Records, Known

LEMMA SavedOrNot ==
  ASSUME NEW s, Good(s)
  PROVE  /\ Update(s) => mem' = s /\ FileFollows
         /\ UpdateAndSave(s) => mem' = s /\ file' = Saved(mem') /\ FileFollows
BY FieldsOf DEF Update, UpdateAndSave, Save, FileFollows

\* The worker is given no new message.
NothingGiven == Range(initial') \subseteq Range(initial) \cup {Continue}

LEMMA WorkingOn ==
  ASSUME Working, UNCHANGED <<worker, initial>>,
         Known' /\ Active(mem') => worker # "off" \/ Preparing(mem')
  PROVE  Working' /\ NothingGiven
BY DEF Working, NothingGiven, Active, Preparing

LEMMA WorkerIsOff ==
  ASSUME StopWorker, Known' /\ Active(mem') => Preparing(mem')
  PROVE  Working' /\ NothingGiven
<1>1. worker' = "off" /\ initial' = <<>>
  BY DEF StopWorker
<1>2. Range(initial') = {}
  BY <1>1 DEF Range
<1> QED BY <1>1, <1>2 DEF Working, NothingGiven, Worker, Active, Preparing

LEMMA WorkerStarts ==
  ASSUME Working, NEW p \in Seq(Messages \cup {Continue}), StartWith(p)
  PROVE  /\ Working' /\ worker' # "off"
         /\ initial' = p \/ initial' = initial
BY DEF Working, StartWith, Worker

LEMMA WorkerPrepares ==
  ASSUME Working, StartEmpty PROVE Working' /\ NothingGiven
<1>1. CASE worker = "off"
  <2>1. worker' = "prepare" /\ initial' = <<>>
    BY <1>1 DEF StartEmpty
  <2>2. Range(initial') = {}
    BY <2>1 DEF Range
  <2> QED BY <2>1, <2>2 DEF Working, NothingGiven, Worker
<1>2. CASE worker # "off"
  BY <1>2 DEF StartEmpty, Work, Working, NothingGiven
<1> QED BY <1>1, <1>2

\* Nothing is accepted or taken aside, and the queue is not held anew.
SameLock ==
  /\ Accepted' = Accepted /\ written <= written'
  /\ apply'.aside = apply.aside /\ (Holding' => Holding)

LEMMA LockSame ==
  ASSUME Locked, Applying, UNCHANGED <<job, apply, due, written>>
  PROVE  Locked' /\ Applying' /\ SameLock
BY DEF Locked, Applying, SameLock, Accepted, Holding

LEMMA LockIsDone ==
  ASSUME Locked, Applying, Done, UNCHANGED <<due, written>>
  PROVE  /\ Locked' /\ Applying' /\ Accepted' = 1..written
         /\ apply'.aside = apply.aside /\ (Holding' => Holding)
         /\ job.kind # "message" => SameLock
<1>1. /\ job' = NoJob /\ NoJob.by = "none" /\ NoJob.kind = "none"
      /\ NoJob.step = "none"
      /\ NoJob \in [by : {"none", "user", "apply"},
                    kind : Kinds \cup {"none", "delete", "message"},
                    step : Steps, read : Session \cup {Gone}]
  BY DEF Done, NoJob, Steps
<1>2. Locked'
  BY <1>1 DEF Locked
<1>3. CASE job.by = "apply"
  <2>1. apply.step = "asked" /\ apply' = [apply EXCEPT !.step = "done"]
    BY <1>3 DEF Applying, Done
  <2>2. /\ apply' \in Applies
        /\ apply'.step = "done" /\ apply'.aside = apply.aside
        /\ apply'.todo = apply.todo
    BY <2>1 DEF Applying, Applies
  <2> QED BY <1>1, <1>2, <2>1, <2>2 DEF Applying, Accepted, SameLock, Holding, Locked
<1>4. CASE job.by # "apply"
  <2>1. apply' = apply /\ apply.step # "asked"
    BY <1>4 DEF Done, Applying
  <2> QED BY <1>1, <1>2, <2>1 DEF Applying, Accepted, SameLock, Holding, Locked
<1> QED BY <1>3, <1>4

LEMMA LockSteps ==
  ASSUME Locked, Applying, NEW x \in Steps \ {"write"}, Step(x),
         job.kind = "message" => x \in {"queue", "send"},
         UNCHANGED <<apply, due, written>>
  PROVE  Locked' /\ Applying' /\ SameLock
<1>1. /\ job'.by = job.by /\ job'.kind = job.kind /\ job'.step = x
      /\ job' \in [by : {"none", "user", "apply"},
                   kind : Kinds \cup {"none", "delete", "message"},
                   step : Steps, read : Session \cup {Gone}]
  BY DEF Locked, Step
<1> QED BY <1>1 DEF Locked, Applying, SameLock, Accepted, Holding

\* A request gets the lock.
LEMMA LockBegins ==
  ASSUME Locked, NEW by \in {"user", "apply"},
         NEW kind \in Kinds \cup {"delete", "message"}, Begin(by, kind)
  PROVE  /\ job.kind = "none" /\ job.by = "none"
         /\ job' \in [by : {"none", "user", "apply"},
                      kind : Kinds \cup {"none", "delete", "message"},
                      step : Steps, read : Session \cup {Gone}]
         /\ job'.by = by /\ job'.kind = kind /\ job'.step # "write"
         /\ kind = "message" => job'.step = "read"
<1> DEFINE x == FirstStep(kind)
<1>1. x \in Steps \ {"write"} /\ (kind = "message" => x = "read")
  BY DEF FirstStep, Steps, Kinds
<1>2. job = NoJob /\ job' = [NoJob EXCEPT !.by = by, !.kind = kind, !.step = x]
  BY DEF Begin
<1> HIDE DEF x
<1> QED BY <1>1, <1>2 DEF NoJob, Locked

-----------------------------------------------------------------------------
(* Where the messages are, after a step *)

LEMMA LineFollows ==
  ASSUME Held, Held', Line, Known, Known', FileFollows, written <= written',
         Ascending(apply'.aside), Range(apply'.aside) \subseteq Accepted',
         Ascending(mem'.queue), Range(mem'.queue) \subseteq Accepted',
         \A m \in Range(apply'.aside), n \in Range(mem'.queue) : m < n
  PROVE  Line'
<1>1. /\ written \in Nat /\ written' \in Nat /\ 1..written \subseteq 1..written'
      /\ Accepted' \subseteq 1..written'
  BY SessionActionsAssumption DEF Held, Locked, Accepted
<1>2. Good(mem') /\ Saved(mem').queue = mem'.queue
  BY SavedGood DEF Held, Records
<1>3. Ascending(file'.queue) /\ Range(file'.queue) \subseteq 1..written'
  <2>1. CASE file' = file
    BY <1>1, <2>1 DEF Line
  <2>2. CASE file' = Saved(mem')
    BY <1>1, <1>2, <2>2
  <2> QED BY <2>1, <2>2 DEF FileFollows
<1> QED BY <1>3 DEF Line

LEMMA ApartFollows ==
  ASSUME Held, Held', Apart, Known, Known', FileFollows, written <= written',
         history.overwrote => history'.overwrote,
         ~history'.overwrote =>
           /\ mem'.chat \cup Range(initial') \subseteq Accepted' \cup {Continue}
           /\ (Range(mem'.queue) \cup Range(apply'.aside))
                \cap (mem'.chat \cup Range(initial')) = {}
           /\ Holding' => mem'.applying
  PROVE  Apart'
<1> SUFFICES ASSUME ~history'.overwrote PROVE Apart'
  BY DEF Apart
<1>1. /\ written \in Nat /\ written' \in Nat /\ 1..written \subseteq 1..written'
      /\ Accepted' \subseteq 1..written'
  BY SessionActionsAssumption DEF Held, Locked, Accepted
<1>2. /\ Good(mem') /\ Saved(mem').queue = mem'.queue /\ Saved(mem').chat = mem'.chat
  BY SavedGood DEF Held, Records
<1>3. mem'.chat \subseteq 1..written'
  <2>1. mem'.chat \subseteq 1..MaxMessages
    BY <1>2, FieldsOf DEF Messages
  <2>2. Continue \notin 1..MaxMessages
    BY DEF Continue
  <2> QED BY <1>1, <2>1, <2>2
<1>4. file'.chat \subseteq 1..written' /\ Range(file'.queue) \cap file'.chat = {}
  <2>1. CASE file' = file
    BY <1>1, <2>1 DEF Apart
  <2>2. CASE file' = Saved(mem')
    BY <1>2, <1>3, <2>2
  <2> QED BY <2>1, <2>2 DEF FileFollows
<1> QED BY <1>4 DEF Apart

LEMMA KeptFollows ==
  ASSUME Held', Kept, Known, Known',
         history.overwrote => history'.overwrote,
         ~history'.overwrote =>
           /\ Accepted' \subseteq Shown(mem') \cup Elsewhere'
           /\ \/ file' = Saved(mem')
              \/ /\ file' = file /\ Accepted' \subseteq Accepted
                 /\ Elsewhere \subseteq Elsewhere'
  PROVE  Kept'
<1> SUFFICES ASSUME ~history'.overwrote PROVE Kept'
  BY DEF Kept
<1>1. Shown(Saved(mem')) = Shown(mem')
  BY SavedGood DEF Held, Records
<1>2. Accepted' \subseteq Shown(file') \cup Elsewhere'
  BY <1>1 DEF Kept
<1> QED BY <1>2 DEF Kept, Shown

\* What the ghosts remember.
Grows ==
  /\ Recorded => Recorded'
  /\ history.cleared \subseteq history'.cleared /\ history.lost \subseteq history'.lost
  /\ history.refused \subseteq history'.refused
  /\ history.overwrote => history'.overwrote

\* The queue stays, or is shown as unsent; no message is sent.
Quiet ==
  /\ Known /\ Known' /\ FileFollows /\ Grows
  /\ mem'.queue \in {mem.queue, <<>>} /\ mem'.chat = mem.chat
  /\ Shown(mem') = Shown(mem)
  /\ Accepted' = Accepted /\ written <= written' /\ apply'.aside = apply.aside
  /\ Holding' => mem'.applying \/ (Holding /\ mem'.applying = mem.applying)
  /\ NothingGiven

LEMMA QueueIs ==
  ASSUME Held
  PROVE  /\ apply.aside \in Seq(Messages) /\ Range(apply.aside) \subseteq Messages
         /\ Messages \subseteq Nat \ {0} /\ Continue \notin Messages
         /\ Known => /\ mem.queue \in Seq(Messages)
                     /\ Range(mem.queue) \subseteq Messages
                     /\ mem.chat \subseteq Messages
         /\ Ascending(<<>>) /\ Range(<<>>) = {}
<1>1. apply.aside \in Seq(Messages)
  BY DEF Held, Applying, Applies
<1>2. Known => /\ mem.queue \in Seq(Messages) /\ Range(mem.queue) \subseteq Messages
               /\ mem.chat \subseteq Messages
  BY FieldsOf DEF Held, Records
<1>3. Messages \subseteq Nat \ {0} /\ Continue \notin Messages
  BY SessionActionsAssumption DEF Messages, Continue
<1> QED BY <1>1, <1>2, <1>3 DEF Ascending, Range

LEMMA QuietKeeps == ASSUME Inv, Held', Quiet PROVE Inv'
<1>1. /\ Held /\ Line /\ Apart /\ Kept /\ Known /\ Known' /\ FileFollows
      /\ written <= written' /\ (history.overwrote => history'.overwrote)
  BY DEF Inv, Quiet, Grows
<1>2. Range(mem'.queue) \subseteq Range(mem.queue)
      /\ (Ascending(mem.queue) => Ascending(mem'.queue))
  BY <1>1, QueueIs DEF Quiet
<1>3. Line'
  BY <1>1, <1>2, LineFollows DEF Line, Quiet
<1>4. ~history'.overwrote =>
        /\ mem'.chat \cup Range(initial') \subseteq Accepted' \cup {Continue}
        /\ (Range(mem'.queue) \cup Range(apply'.aside))
             \cap (mem'.chat \cup Range(initial')) = {}
        /\ Holding' => mem'.applying
  BY <1>1, <1>2, QueueIs DEF Apart, Quiet, NothingGiven
<1>5. Apart'
  BY <1>1, <1>4, ApartFollows
<1>6. Elsewhere \subseteq Elsewhere'
  BY DEF Quiet, Grows, Elsewhere
<1>7. Kept'
  <2>1. ~history'.overwrote => Accepted' \subseteq Shown(mem') \cup Elsewhere'
    BY <1>1, <1>6 DEF Kept, Quiet
  <2>2. Accepted' \subseteq Accepted
    BY DEF Quiet
  <2> QED BY <1>1, <1>6, <2>1, <2>2, KeptFollows DEF FileFollows
<1>8. Recorded'
  BY DEF Inv, Quiet, Grows
<1> QED BY <1>3, <1>5, <1>7, <1>8 DEF Inv

\* Once the session is gone, only what was taken aside is left of it.
LEMMA AbsentKeeps ==
  ASSUME Inv, Held', ~Known', apply'.aside \in {apply.aside, <<>>},
         Accepted \subseteq Accepted', Recorded'
  PROVE  Inv'
<1>1. Ascending(apply'.aside) /\ Range(apply'.aside) \subseteq Accepted'
  BY QueueIs DEF Inv, Line
<1> QED BY <1>1 DEF Inv, Line, Apart, Kept

-----------------------------------------------------------------------------
(* Steps that send and accept no message *)

LEMMA QuietIs ==
  ASSUME Held, Known, Good(mem'), Stays(mem, mem'), FileFollows, Working',
         Locked', Applying', SameLock, Grows, NothingGiven
  PROVE  Held' /\ Quiet
<1>1. Records' /\ Known'
  BY RecordsFollow DEF Held
<1>2. Quiet
  BY <1>1 DEF Quiet, Stays, SameLock
<1> QED BY <1>1, <1>2 DEF Held

LEMMA GhostsSame == ASSUME UNCHANGED history PROVE Grows
BY DEF Grows, Recorded

\* The record stays as it is.
LEMMA QuietRecord ==
  ASSUME Held, Known, UNCHANGED <<mem, file>>
  PROVE  /\ Good(mem') /\ Stays(mem, mem') /\ FileFollows /\ Known'
         /\ (Active(mem') => worker # "off" \/ Preparing(mem'))
BY DEF Held, Records, Working, Stays, FileFollows, Known, Active, Preparing

LEMMA StatusGood ==
  ASSUME NEW s, Good(s),
         NEW x \in {"Starting", "Running", "Idle", "Interrupted", "Failed"}
  PROVE  /\ Good([s EXCEPT !.status = x]) /\ Stays(s, [s EXCEPT !.status = x])
         /\ [s EXCEPT !.status = x].status = x
<1> DEFINE t == [s EXCEPT !.status = x]
<1>1. s \in Session
  BY FieldsOf
<1>2. t \in Session
  BY <1>1 DEF Session
<1>3. /\ t.queue = s.queue /\ t.chat = s.chat /\ t.unsent = s.unsent
      /\ t.actions = s.actions /\ t.applying = s.applying /\ t.status = x
  BY <1>1 DEF Session
<1> QED BY <1>2, <1>3, Plain

LEMMA ClearingGood ==
  ASSUME NEW s, Good(s), NEW x \in BOOLEAN
  PROVE  /\ Good([s EXCEPT !.clearing = x]) /\ Stays(s, [s EXCEPT !.clearing = x])
         /\ Starts(s, [s EXCEPT !.clearing = x])
<1> DEFINE t == [s EXCEPT !.clearing = x]
<1>1. s \in Session
  BY FieldsOf
<1>2. t \in Session
  BY <1>1, Zenon DEF Session
<1>3. /\ t.queue = s.queue /\ t.chat = s.chat /\ t.unsent = s.unsent
      /\ t.actions = s.actions /\ t.applying = s.applying /\ t.status = s.status
      /\ t.thread = s.thread /\ t.ready = s.ready
  BY <1>1 DEF Session
<1> QED BY <1>2, <1>3, Plain, SameStart

LEMMA StageGood ==
  ASSUME NEW s, Good(s), NEW x \in Stages
  PROVE  /\ Good([s EXCEPT !.stage = x]) /\ Stays(s, [s EXCEPT !.stage = x])
         /\ Starts(s, [s EXCEPT !.stage = x])
<1> DEFINE t == [s EXCEPT !.stage = x]
<1>1. s \in Session
  BY FieldsOf
<1>2. t \in Session
  BY <1>1, Zenon DEF Session
<1>3. /\ t.queue = s.queue /\ t.chat = s.chat /\ t.unsent = s.unsent
      /\ t.actions = s.actions /\ t.applying = s.applying /\ t.status = s.status
      /\ t.thread = s.thread /\ t.ready = s.ready
  BY <1>1 DEF Session
<1> QED BY <1>2, <1>3, Plain, SameStart

LEMMA PreparedQuiet == ASSUME Inv, Prepared PROVE Held' /\ Quiet
<1> DEFINE t == [mem EXCEPT !.status = "Idle", !.clearing = FALSE, !.ready = TRUE]
<1>0. Held /\ Known /\ Good(mem) /\ Working /\ Locked /\ Applying
  BY DEF Inv, Held, Records, Prepared
<1>1. /\ mem \in Session /\ TRUE \in BOOLEAN /\ FALSE \in BOOLEAN
      /\ "Idle" \in {"Starting", "Running", "Idle", "Interrupted", "Failed"}
  BY <1>0, FieldsOf
<1>2. t \in Session
  BY <1>1, Zenon DEF Session
<1>3. /\ t.queue = mem.queue /\ t.chat = mem.chat /\ t.unsent = mem.unsent
      /\ t.actions = mem.actions /\ t.applying = mem.applying
  BY <1>1 DEF Session
<1>4. Good(t) /\ Stays(mem, t)
  BY <1>0, <1>2, <1>3, Plain
<1>5. UpdateAndSave(t)
  BY DEF Prepared
<1> HIDE DEF t
<1>6. mem' = t /\ FileFollows
  BY <1>4, <1>5, SavedOrNot
<1>7. Working' /\ NothingGiven
  BY <1>0 DEF Prepared, Working, NothingGiven, Worker
<1>8. Locked' /\ Applying' /\ SameLock /\ Grows
  BY <1>0, LockSame, GhostsSame DEF Prepared, Loop, Ghosts
<1> QED BY <1>0, <1>4, <1>6, <1>7, <1>8, QuietIs

LEMMA PrepareFailsQuiet == ASSUME Inv, PrepareFails PROVE Held' /\ Quiet
<1> DEFINE r == [mem EXCEPT !.clearing = FALSE]
           t == WorkerEnded(r, FALSE)
<1>0. Held /\ Known /\ Good(mem) /\ Locked /\ Applying
  BY DEF Inv, Held, Records, PrepareFails
<1>1. Good(r) /\ Stays(mem, r)
  BY <1>0, ClearingGood
<1>2. UpdateAndSave(t)
  BY DEF PrepareFails
<1> HIDE DEF r
<1>3. Good(t) /\ Stays(r, t) /\ ~Active(t)
  BY <1>1, WorkerEndedGood
<1> HIDE DEF t
<1>4. mem' = t /\ FileFollows /\ Stays(mem, t)
  BY <1>1, <1>2, <1>3, SavedOrNot, StaysOn
<1>5. Working' /\ NothingGiven
  BY <1>3, <1>4, WorkerIsOff DEF PrepareFails
<1>6. Locked' /\ Applying' /\ SameLock /\ Grows
  BY <1>0, LockSame, GhostsSame DEF PrepareFails, Loop
<1> QED BY <1>0, <1>3, <1>4, <1>5, <1>6, QuietIs

LEMMA FirstMessageQuiet == ASSUME Inv, FirstMessage PROVE Held' /\ Quiet
<1> DEFINE t == [mem EXCEPT !.status = "Starting"]
<1>0. Held /\ Known /\ Good(mem) /\ Working /\ Locked /\ Applying
  BY DEF Inv, Held, Records, FirstMessage
<1>1. Good(t) /\ Stays(mem, t)
  BY <1>0, StatusGood
<1>2. UpdateAndSave(t)
  BY DEF FirstMessage
<1> HIDE DEF t
<1>3. mem' = t /\ FileFollows
  BY <1>1, <1>2, SavedOrNot
<1>4. Working' /\ NothingGiven
  BY <1>0 DEF FirstMessage, Working, NothingGiven, Worker
<1>5. Locked' /\ Applying' /\ SameLock /\ Grows
  BY <1>0, LockSame, GhostsSame DEF FirstMessage, Loop, Ghosts
<1> QED BY <1>0, <1>1, <1>3, <1>4, <1>5, QuietIs

LEMMA ConnectFailsQuiet == ASSUME Inv, ConnectFails PROVE Held' /\ Quiet
<1> DEFINE t == WorkerEnded(mem, FALSE)
<1>0. Held /\ Known /\ Good(mem) /\ Locked /\ Applying
  BY DEF Inv, Held, Records, ConnectFails
<1>1. Good(t) /\ Stays(mem, t) /\ ~Active(t)
  BY <1>0, WorkerEndedGood
<1>2. UpdateAndSave(t)
  BY DEF ConnectFails
<1> HIDE DEF t
<1>3. mem' = t /\ FileFollows
  BY <1>1, <1>2, SavedOrNot
<1>4. Working' /\ NothingGiven
  BY <1>1, <1>3, WorkerIsOff DEF ConnectFails
<1>5. Locked' /\ Applying' /\ SameLock /\ Grows
  BY <1>0, LockSame, GhostsSame DEF ConnectFails, Loop
<1> QED BY <1>0, <1>1, <1>3, <1>4, <1>5, QuietIs

LEMMA LoopFailsQuiet == ASSUME Inv, LoopFails PROVE Held' /\ Quiet
<1> DEFINE t == WorkerEnded(mem, FALSE)
<1>0. Held /\ Known /\ Good(mem) /\ Locked /\ Applying
  BY DEF Inv, Held, Records, LoopFails
<1>1. Good(t) /\ Stays(mem, t) /\ ~Active(t)
  BY <1>0, WorkerEndedGood
<1>2. UpdateAndSave(t)
  BY DEF LoopFails
<1> HIDE DEF t
<1>3. mem' = t /\ FileFollows
  BY <1>1, <1>2, SavedOrNot
<1>4. Working' /\ NothingGiven
  BY <1>1, <1>3, WorkerIsOff DEF LoopFails
<1>5. Locked' /\ Applying' /\ SameLock /\ Grows
  BY <1>0, LockSame, GhostsSame DEF LoopFails, Loop
<1> QED BY <1>0, <1>1, <1>3, <1>4, <1>5, QuietIs

LEMMA AgentSchedulesQuiet ==
  ASSUME Inv, NEW k \in Tools, AgentSchedules(k) PROVE Held' /\ Quiet
<1> DEFINE t == Schedule(mem, k)
<1>0. Held /\ Known /\ Good(mem) /\ Working /\ Locked /\ Applying
  BY DEF Inv, Held, Records, AgentSchedules
<1>1. Good(t) /\ Stays(mem, t) /\ UpdateAndSave(t)
  BY <1>0, ScheduleGood DEF AgentSchedules
<1> HIDE DEF t
<1>2. mem' = t /\ FileFollows
  BY <1>1, SavedOrNot
<1>3. Working' /\ NothingGiven
  BY <1>0, WorkingOn DEF AgentSchedules, Work
<1>4. Locked' /\ Applying' /\ SameLock /\ Grows
  BY <1>0, LockSame, GhostsSame DEF AgentSchedules, Loop, Ghosts
<1> QED BY <1>0, <1>1, <1>2, <1>3, <1>4, QuietIs

LEMMA EndTurnQuiet ==
  ASSUME Inv, NEW status \in {"Idle", "Interrupted", "Failed"}, EndTurn(status)
  PROVE  Held' /\ Quiet
<1> DEFINE t == [mem EXCEPT !.status = status]
           r == QueueUnsent(mem)
           u == [r EXCEPT !.status = status]
<1>0. Held /\ Known /\ Good(mem) /\ Working /\ Locked /\ Applying
  BY DEF Inv, Held, Records, EndTurn
<1>1. Good(t) /\ Stays(mem, t)
  BY <1>0, StatusGood
<1>2. Good(r) /\ Stays(mem, r)
  BY <1>0, QueueUnsentGood
<1>3. Update(t) \/ Update(u)
  BY DEF EndTurn
<1> HIDE DEF t, r
<1>4. Good(u) /\ Stays(mem, u)
  BY <1>2, StatusGood, StaysOn
<1> HIDE DEF u
<1>5. Good(mem') /\ Stays(mem, mem') /\ FileFollows
  BY <1>1, <1>3, <1>4, SavedOrNot
<1>6. Working' /\ NothingGiven
  BY <1>0, WorkingOn DEF EndTurn
<1>7. Locked' /\ Applying' /\ SameLock /\ Grows
  BY <1>0, LockSame, GhostsSame DEF EndTurn, Loop, Ghosts
<1> QED BY <1>0, <1>5, <1>6, <1>7, QuietIs

-----------------------------------------------------------------------------
(* Requests *)

LEMMA AskQuiet ==
  ASSUME Inv, NEW kind \in Requests, Ask(kind) PROVE Held' /\ Quiet
<1>0. /\ Held /\ Known /\ Working /\ Locked /\ Applying
      /\ kind \in Kinds \cup {"delete", "message"} /\ Begin("user", kind)
      /\ kind # "message"
  BY SessionActionsAssumption DEF Inv, Held, Ask, Begin, Kinds
<1>1. /\ job.kind = "none" /\ job.by = "none"
      /\ job' \in [by : {"none", "user", "apply"},
                   kind : Kinds \cup {"none", "delete", "message"},
                   step : Steps, read : Session \cup {Gone}]
      /\ job'.by = "user" /\ job'.kind = kind /\ job'.step # "write"
  BY <1>0, LockBegins
<1>2. /\ UNCHANGED <<mem, file, worker, initial, apply, due, written>>
      /\ Grows
  BY GhostsSame DEF Ask, Loop, Work
<1>3. Locked' /\ Applying' /\ SameLock
  BY <1>0, <1>1, <1>2 DEF Locked, Applying, SameLock, Accepted, Holding
<1>4. /\ Good(mem') /\ Stays(mem, mem') /\ FileFollows /\ Known'
      /\ (Active(mem') => worker # "off" \/ Preparing(mem'))
  BY <1>0, <1>2, QuietRecord
<1>5. Working' /\ NothingGiven
  BY <1>0, <1>2, <1>4, WorkingOn
<1> QED BY <1>0, <1>2, <1>3, <1>4, <1>5, QuietIs

LEMMA WriteQuiet == ASSUME Inv, Write PROVE Held' /\ Quiet
<1>0. /\ Held /\ Known /\ Working /\ Locked /\ Applying
      /\ "message" \in Kinds \cup {"delete", "message"} /\ Begin("user", "message")
  BY DEF Inv, Held, Write, Begin
<1>1. /\ job.kind = "none" /\ job.by = "none"
      /\ job' \in [by : {"none", "user", "apply"},
                   kind : Kinds \cup {"none", "delete", "message"},
                   step : Steps, read : Session \cup {Gone}]
      /\ job'.by = "user" /\ job'.kind = "message" /\ job'.step # "write"
      /\ job'.step = "read"
  BY <1>0, LockBegins
<1>2. /\ UNCHANGED <<mem, file, worker, initial, apply, due>> /\ Grows
      /\ written' = written + 1 /\ written < MaxMessages
  BY GhostsSame DEF Write, Loop, Work
<1>3. written \in Nat /\ written' \in 0..MaxMessages /\ written' # 0
  BY <1>0, <1>2, SessionActionsAssumption DEF Locked
<1>4. Accepted' = Accepted
  BY <1>1, <1>2, <1>3 DEF Accepted
<1>5. Locked' /\ Applying' /\ SameLock
  BY <1>0, <1>1, <1>2, <1>3, <1>4 DEF Locked, Applying, SameLock, Holding
<1>6. /\ Good(mem') /\ Stays(mem, mem') /\ FileFollows /\ Known'
      /\ (Active(mem') => worker # "off" \/ Preparing(mem'))
  BY <1>0, <1>2, QuietRecord
<1>7. Working' /\ NothingGiven
  BY <1>0, <1>2, <1>6, WorkingOn
<1> QED BY <1>0, <1>2, <1>5, <1>6, <1>7, QuietIs

\* A step of a request that leaves the record alone.
LEMMA OnlyLockMoves ==
  ASSUME Inv, Known, UNCHANGED <<mem, file, worker, initial, history>>,
         Locked', Applying', SameLock
  PROVE  Held' /\ Quiet
<1>0. Held /\ Working
  BY DEF Inv, Held
<1>1. /\ Good(mem') /\ Stays(mem, mem') /\ FileFollows /\ Known'
      /\ (Active(mem') => worker # "off" \/ Preparing(mem'))
  BY <1>0, QuietRecord
<1>2. Working' /\ NothingGiven
  BY <1>0, <1>1, WorkingOn
<1> QED BY <1>0, <1>1, <1>2, GhostsSame, QuietIs

LEMMA MessageReadQuiet ==
  ASSUME Inv, NEW queue \in BOOLEAN, MessageRead(queue) PROVE Held' /\ Quiet
<1>0. Locked /\ Applying /\ Known
  BY DEF Inv, Held, MessageRead, At
<1>1. PICK x \in Steps \ {"write"} : Step(x) /\ x \in {"queue", "send"}
  BY DEF MessageRead, Steps
<1>2. UNCHANGED <<mem, file, worker, initial, history, apply, due, written>>
  BY DEF MessageRead, Work, Loop, Ghosts
<1>3. Locked' /\ Applying' /\ SameLock
  BY <1>0, <1>1, <1>2, LockSteps
<1> QED BY <1>0, <1>2, <1>3, OnlyLockMoves

LEMMA ModelCheckedQuiet == ASSUME Inv, ModelChecked PROVE Held' /\ Quiet
<1>0. /\ Held /\ Working /\ Locked /\ Applying /\ Known /\ job.kind # "message"
      /\ UNCHANGED <<due, written, history>>
  BY DEF Inv, Held, ModelChecked, At, Loop, Ghosts
<1>1. CASE Active(mem) \/ mem.queue # <<>>
  <2>1. Done /\ UNCHANGED <<mem, file, worker, initial>>
    BY <1>1 DEF ModelChecked, Work
  <2>2. Locked' /\ Applying' /\ SameLock
    BY <1>0, <2>1, LockIsDone
  <2> QED BY <1>0, <2>1, <2>2, OnlyLockMoves
<1>2. CASE ~(Active(mem) \/ mem.queue # <<>>)
  <2> DEFINE t == WorkerStopped(mem)
  <2>1. Step("read") /\ UpdateAndSave(t) /\ StopWorker /\ UNCHANGED apply
    BY <1>2 DEF ModelChecked
  <2>2. Good(t) /\ Stays(mem, t) /\ ~Active(t)
    BY <1>0, <1>2, WorkerStoppedGood DEF Held, Records
  <2> HIDE DEF t
  <2>3. mem' = t /\ FileFollows
    BY <2>1, <2>2, SavedOrNot
  <2>4. Working' /\ NothingGiven
    BY <2>1, <2>2, <2>3, WorkerIsOff
  <2>5. "read" \in Steps \ {"write"}
    BY DEF Steps
  <2>6. Locked' /\ Applying' /\ SameLock
    BY <1>0, <2>1, <2>5, LockSteps
  <2> QED BY <1>0, <2>2, <2>3, <2>4, <2>6, GhostsSame, QuietIs
<1> QED BY <1>1, <1>2

LEMMA ModelReadQuiet == ASSUME Inv, ModelRead PROVE Held' /\ Quiet
<1>0. /\ Held /\ Locked /\ Applying /\ Known /\ job.kind = "model"
      /\ UNCHANGED <<mem, file, worker, initial, due, written, history>>
  BY DEF Inv, Held, ModelRead, At, Loop, Ghosts, Work
<1>1. CASE Active(mem) \/ mem.queue # <<>>
  <2>1. Done
    BY <1>1 DEF ModelRead
  <2>2. Locked' /\ Applying' /\ SameLock
    BY <1>0, <2>1, LockIsDone
  <2> QED BY <1>0, <2>2, OnlyLockMoves
<1>2. CASE ~(Active(mem) \/ mem.queue # <<>>)
  <2>1. job' = [job EXCEPT !.step = "write", !.read = mem] /\ UNCHANGED apply
    BY <1>2 DEF ModelRead
  <2>2. Good(mem) /\ mem \in Session /\ mem.queue = <<>> /\ "write" \in Steps
    BY <1>0, <1>2, FieldsOf DEF Held, Records, Steps
  <2>3. /\ job' \in [by : {"none", "user", "apply"},
                     kind : Kinds \cup {"none", "delete", "message"},
                     step : Steps, read : Session \cup {Gone}]
        /\ job'.by = job.by /\ job'.kind = job.kind /\ job'.read = mem
    BY <1>0, <2>1, <2>2 DEF Locked
  <2>4. Locked'
    BY <1>0, <2>2, <2>3 DEF Locked
  <2>5. Applying' /\ SameLock
    BY <1>0, <2>1, <2>3 DEF Applying, SameLock, Accepted, Holding, Locked
  <2> QED BY <1>0, <2>4, <2>5, OnlyLockMoves
<1> QED BY <1>1, <1>2

LEMMA MarkedQuiet == ASSUME Inv, Marked PROVE Held' /\ Quiet
<1>0. /\ Held /\ Working /\ Locked /\ Applying /\ Known /\ job.kind # "message"
      /\ UNCHANGED <<worker, initial, due, written, history>>
  BY DEF Inv, Held, Marked, At, Loop, Ghosts, Work
<1>1. CASE mem.clearing
  <2>1. Done /\ UNCHANGED <<mem, file>>
    BY <1>1 DEF Marked
  <2>2. Locked' /\ Applying' /\ SameLock
    BY <1>0, <2>1, LockIsDone
  <2> QED BY <1>0, <2>1, <2>2, OnlyLockMoves
<1>2. CASE ~mem.clearing
  <2> DEFINE t == [mem EXCEPT !.clearing = TRUE]
  <2>1. Update(t) /\ Step("stop") /\ UNCHANGED apply
    BY <1>2 DEF Marked
  <2>2. Good(t) /\ Stays(mem, t) /\ Starts(mem, t)
    BY <1>0, ClearingGood DEF Held, Records
  <2> HIDE DEF t
  <2>3. mem' = t /\ FileFollows
    BY <2>1, <2>2, SavedOrNot
  <2>4. Working' /\ NothingGiven
    BY <1>0, <2>2, <2>3, WorkingOn DEF Working, Starts
  <2>5. "stop" \in Steps \ {"write"}
    BY DEF Steps
  <2>6. Locked' /\ Applying' /\ SameLock
    BY <1>0, <2>1, <2>5, LockSteps
  <2> QED BY <1>0, <2>2, <2>3, <2>4, <2>6, GhostsSame, QuietIs
<1> QED BY <1>1, <1>2

LEMMA StoppedQuiet == ASSUME Inv, Stopped PROVE Held' /\ Quiet
<1> DEFINE t == WorkerStopped(mem)
<1>0. /\ Held /\ Working /\ Locked /\ Applying /\ Known
      /\ UNCHANGED <<apply, due, written, history>> /\ job.kind # "message"
  BY DEF Inv, Held, Stopped, Loop, Ghosts, Locked
<1>1. Step("discard") /\ UpdateAndSave(t) /\ StopWorker
  BY DEF Stopped
<1>2. Good(t) /\ Stays(mem, t) /\ (Active(t) => Preparing(t))
  BY <1>0, WorkerStoppedGood DEF Held, Records, Working
<1> HIDE DEF t
<1>3. mem' = t /\ FileFollows
  BY <1>1, <1>2, SavedOrNot
<1>4. Working' /\ NothingGiven
  BY <1>1, <1>2, <1>3, WorkerIsOff
<1>5. "discard" \in Steps \ {"write"}
  BY DEF Steps
<1>6. Locked' /\ Applying' /\ SameLock
  BY <1>0, <1>1, <1>5, LockSteps
<1> QED BY <1>0, <1>2, <1>3, <1>4, <1>6, GhostsSame, QuietIs

LEMMA DiscardedQuiet == ASSUME Inv, Discarded PROVE Held' /\ Quiet
<1>0. /\ Locked /\ Applying /\ Known /\ Step("reset")
      /\ "reset" \in Steps \ {"write"} /\ job.kind # "message"
  BY DEF Inv, Held, Discarded, Steps, Locked
<1>1. UNCHANGED <<mem, file, worker, initial, history, apply, due, written>>
  BY DEF Discarded, Work, Loop, Ghosts
<1>2. Locked' /\ Applying' /\ SameLock
  BY <1>0, <1>1, LockSteps
<1> QED BY <1>0, <1>1, <1>2, OnlyLockMoves

\* Repository: the workspace is chosen anew, and nothing is cleared.
LEMMA RepositoryQuiet ==
  ASSUME Inv, Reset, job.kind # "clear" PROVE Held' /\ Quiet
<1> DEFINE t == ResetWorkspace(mem)
<1>0. /\ Held /\ Working /\ Locked /\ Applying /\ Known /\ Done
      /\ UNCHANGED <<worker, initial, due, written, history>>
      /\ job.kind # "message"
  BY DEF Inv, Held, Reset, Loop, Work, Locked
<1>1. UpdateAndSave(t)
  BY DEF Reset
<1>2. Good(t) /\ Stays(mem, t) /\ ~Active(t)
  BY <1>0, ResetWorkspaceGood DEF Held, Records
<1> HIDE DEF t
<1>3. mem' = t /\ FileFollows
  BY <1>1, <1>2, SavedOrNot
<1>4. Working' /\ NothingGiven
  BY <1>0, <1>2, <1>3, WorkingOn
<1>5. Locked' /\ Applying' /\ SameLock
  BY <1>0, LockIsDone
<1> QED BY <1>0, <1>2, <1>3, <1>4, <1>5, GhostsSame, QuietIs

\* A step of a request that fails or goes on, having changed what is no
\* message of the record.
LEMMA LockAndRecord ==
  ASSUME Inv, Known, NEW t, Good(t), Stays(mem, t),
         Starts(mem, t), Update(t) \/ UpdateAndSave(t),
         UNCHANGED <<worker, initial, history>>, Locked', Applying', SameLock
  PROVE  Held' /\ Quiet
<1>0. Held /\ Working
  BY DEF Inv, Held
<1>1. mem' = t /\ FileFollows
  BY SavedOrNot
<1>2. Working' /\ NothingGiven
  BY <1>0, <1>1, WorkingOn DEF Working, Starts
<1> QED BY <1>0, <1>1, <1>2, GhostsSame, QuietIs

LEMMA ClearFailsQuiet == ASSUME Inv, ClearFails PROVE Held' /\ Quiet
<1> DEFINE t == [mem EXCEPT !.clearing = FALSE]
<1>0. /\ Held /\ Locked /\ Applying /\ Known /\ job.kind = "clear" /\ Done
      /\ UNCHANGED <<worker, initial, due, written, history>> /\ UpdateAndSave(t)
  BY DEF Inv, Held, ClearFails, Loop, Work
<1>1. Good(t) /\ Stays(mem, t) /\ Starts(mem, t)
  BY <1>0, ClearingGood DEF Held, Records
<1>2. Locked' /\ Applying' /\ SameLock
  BY <1>0, LockIsDone
<1> HIDE DEF t
<1> QED BY <1>0, <1>1, <1>2, LockAndRecord

LEMMA RepositoryFailsQuiet == ASSUME Inv, RepositoryFails PROVE Held' /\ Quiet
<1>0. /\ Held /\ Locked /\ Applying /\ Known /\ job.kind = "repository" /\ Done
      /\ UNCHANGED <<mem, file, worker, initial, due, written, history>>
  BY DEF Inv, Held, RepositoryFails, Loop, Work
<1>1. Locked' /\ Applying' /\ SameLock
  BY <1>0, LockIsDone
<1> QED BY <1>0, <1>1, OnlyLockMoves

LEMMA DeleteMarkedQuiet == ASSUME Inv, DeleteMarked PROVE Held' /\ Quiet
<1> DEFINE t == [mem EXCEPT !.stage = "Stopping"]
<1>0. /\ Held /\ Locked /\ Applying /\ Known /\ job.kind = "delete" /\ Step("stop")
      /\ UNCHANGED <<worker, initial, apply, due, written, history>> /\ Update(t)
      /\ "Stopping" \in Stages /\ "stop" \in Steps \ {"write"}
  BY DEF Inv, Held, DeleteMarked, At, Loop, Work, Ghosts, Stages, Steps
<1>1. Good(t) /\ Stays(mem, t) /\ Starts(mem, t)
  BY <1>0, StageGood DEF Held, Records
<1>2. Locked' /\ Applying' /\ SameLock
  BY <1>0, LockSteps
<1> HIDE DEF t
<1> QED BY <1>0, <1>1, <1>2, LockAndRecord

LEMMA DeleteWorktreeQuiet == ASSUME Inv, DeleteWorktree PROVE Held' /\ Quiet
<1> DEFINE t == [mem EXCEPT !.stage = "Attachments"]
<1>0. /\ Held /\ Locked /\ Applying /\ Known /\ job.kind = "delete" /\ Step("media")
      /\ UNCHANGED <<worker, initial, apply, due, written, history>> /\ Update(t)
      /\ "Attachments" \in Stages /\ "media" \in Steps \ {"write"}
  BY DEF Inv, Held, DeleteWorktree, At, Loop, Work, Ghosts, Stages, Steps
<1>1. Good(t) /\ Stays(mem, t) /\ Starts(mem, t)
  BY <1>0, StageGood DEF Held, Records
<1>2. Locked' /\ Applying' /\ SameLock
  BY <1>0, LockSteps
<1> HIDE DEF t
<1> QED BY <1>0, <1>1, <1>2, LockAndRecord

LEMMA DeleteMediaQuiet == ASSUME Inv, DeleteMedia PROVE Held' /\ Quiet
<1> DEFINE t == [mem EXCEPT !.stage = "History"]
<1>0. /\ Held /\ Locked /\ Applying /\ Known /\ job.kind = "delete" /\ Step("history")
      /\ UNCHANGED <<worker, initial, apply, due, written, history>> /\ Update(t)
      /\ "History" \in Stages /\ "history" \in Steps \ {"write"}
  BY DEF Inv, Held, DeleteMedia, At, Loop, Work, Ghosts, Stages, Steps
<1>1. Good(t) /\ Stays(mem, t) /\ Starts(mem, t)
  BY <1>0, StageGood DEF Held, Records
<1>2. Locked' /\ Applying' /\ SameLock
  BY <1>0, LockSteps
<1> HIDE DEF t
<1> QED BY <1>0, <1>1, <1>2, LockAndRecord

LEMMA DeleteFailsQuiet == ASSUME Inv, DeleteFails PROVE Held' /\ Quiet
<1> DEFINE t == [mem EXCEPT !.stage = "None"]
<1>0. /\ Held /\ Locked /\ Applying /\ Known /\ job.kind = "delete" /\ Done
      /\ UNCHANGED <<worker, initial, due, written, history>> /\ UpdateAndSave(t)
      /\ "None" \in Stages
  BY DEF Inv, Held, DeleteFails, Loop, Work, Stages
<1>1. Good(t) /\ Stays(mem, t) /\ Starts(mem, t)
  BY <1>0, StageGood DEF Held, Records
<1>2. Locked' /\ Applying' /\ SameLock
  BY <1>0, LockIsDone
<1> HIDE DEF t
<1> QED BY <1>0, <1>1, <1>2, LockAndRecord

LEMMA DeleteStoppedQuiet == ASSUME Inv, DeleteStopped PROVE Held' /\ Quiet
<1> DEFINE r == WorkerStopped(mem)
           x == IF Active(mem) THEN "Interrupted" ELSE r.status
           t == [r EXCEPT !.status = x, !.stage = "Worktree"]
<1>0. /\ Held /\ Working /\ Locked /\ Applying /\ Known /\ job.kind = "delete"
      /\ UNCHANGED <<apply, due, written, history>>
      /\ Step("worktree") /\ StopWorker
      /\ "Worktree" \in Stages /\ "worktree" \in Steps \ {"write"}
  BY DEF Inv, Held, DeleteStopped, At, Loop, Ghosts, Stages, Steps
<1>1. Good(r) /\ Stays(mem, r) /\ (~Active(mem) => ~Active(r))
  BY <1>0, WorkerStoppedGood DEF Held, Records, Working
<1>2. Update(t)
  BY DEF DeleteStopped
<1> HIDE DEF r
<1>3. /\ x \in {"Starting", "Running", "Idle", "Interrupted", "Failed"}
      /\ x \notin {"Starting", "Running"} /\ r \in Session
  BY <1>1, FieldsOf DEF Active
<1> HIDE DEF x
<1>4. t \in Session
  BY <1>0, <1>3, Zenon DEF Session
<1>5. /\ t.queue = r.queue /\ t.chat = r.chat /\ t.unsent = r.unsent
      /\ t.actions = r.actions /\ t.applying = r.applying /\ t.status = x
  BY <1>3 DEF Session
<1>6. Good(t) /\ Stays(mem, t) /\ ~Active(t)
  BY <1>1, <1>3, <1>4, <1>5, Plain, StaysOn DEF Active
<1> HIDE DEF t
<1>7. mem' = t /\ FileFollows
  BY <1>2, <1>6, SavedOrNot
<1>8. Working' /\ NothingGiven
  BY <1>0, <1>6, <1>7, WorkerIsOff
<1>9. Locked' /\ Applying' /\ SameLock
  BY <1>0, LockSteps
<1> QED BY <1>0, <1>6, <1>7, <1>8, <1>9, GhostsSame, QuietIs

-----------------------------------------------------------------------------
(* The main loop, and the thread that applies scheduled actions *)

\* The schedule changes, and no message.
LEMMA ScheduleChanges ==
  ASSUME NEW s, Good(s), NEW t \in Session, t.queue = s.queue, t.chat = s.chat,
         t.unsent = s.unsent, t.actions \in {s.actions, <<>>}
  PROVE  /\ Good(t) /\ t.queue \in {s.queue, <<>>} /\ t.chat = s.chat
         /\ Shown(t) = Shown(s)
<1>1. Range(t.actions) \subseteq Tools
  BY DEF Good, Range
<1> QED BY <1>1 DEF Good, Shown

LEMMA SeeDueQuiet == ASSUME Inv, SeeDue PROVE Held' /\ Quiet
<1>0. /\ Locked /\ Applying /\ Known
      /\ UNCHANGED <<mem, file, worker, initial, history, job, apply, written>>
  BY DEF Inv, Held, SeeDue, Work, Ghosts
<1>1. Locked' /\ Applying' /\ SameLock
  BY <1>0 DEF Locked, Applying, SameLock, Accepted, Holding, SeeDue
<1> QED BY <1>0, <1>1, OnlyLockMoves

LEMMA TakeDueQuiet == ASSUME Inv, TakeDue, Known PROVE Held' /\ Quiet
<1> DEFINE x == (due = "finished")
           t == [mem EXCEPT !.actions = <<>>, !.applying = x]
<1>0. /\ Held /\ Working /\ Locked /\ Applying /\ Good(mem) /\ apply.step = "off"
      /\ Known /\ due' = "no" /\ UNCHANGED <<worker, initial, job, written>>
      /\ apply.aside = <<>>
  BY DEF Inv, Held, Records, Applying, TakeDue, Work
<1>1. Update(t) \/ UpdateAndSave(t)
  BY DEF TakeDue
<1>2. /\ mem \in Session /\ <<>> \in Seq(Kinds) /\ x \in BOOLEAN
      /\ mem.actions \in Seq(Kinds)
  BY <1>0, FieldsOf
<1>3. t \in Session
  BY <1>2, Zenon DEF Session
<1>4. /\ t.queue = mem.queue /\ t.chat = mem.chat /\ t.unsent = mem.unsent
      /\ t.actions = <<>> /\ t.applying = x
      /\ t.status = mem.status /\ t.thread = mem.thread /\ t.ready = mem.ready
  BY <1>2 DEF Session
<1>5. /\ Good(t) /\ t.queue \in {mem.queue, <<>>} /\ t.chat = mem.chat
      /\ Shown(t) = Shown(mem)
  BY <1>0, <1>3, <1>4, ScheduleChanges
<1> HIDE DEF t
<1>6. mem' = t /\ FileFollows
  BY <1>1, <1>5, SavedOrNot
<1>7. Records' /\ Known'
  BY <1>0, <1>5, <1>6, RecordsFollow DEF Held
<1>8. Working' /\ NothingGiven
  BY <1>0, <1>4, <1>6, SameStart, WorkingOn DEF Working, Starts
<1>9. Grows
  <2>1. \/ UNCHANGED history
        \/ history' = [history EXCEPT !.stranded = @ \cup Range(mem.queue)]
    BY DEF TakeDue
  <2>2. Range(mem.queue) \subseteq Messages
    BY <1>0, QueueIs
  <2> QED BY <2>1, <2>2, GhostsSame DEF Grows, Inv, Recorded, Histories
<1>10. CASE due = "finished"
  <2>1. apply' = [NoApply EXCEPT !.step = "next", !.todo = mem.actions,
                                 !.live = (worker # "off")]
    BY <1>10 DEF TakeDue
  <2>2. <<>> \in Seq(Messages) /\ (worker # "off") \in BOOLEAN /\ NoApply \in Applies
    BY DEF NoApply, Applies
  <2>3. apply' \in Applies
    BY <1>2, <2>1, <2>2, Zenon DEF Applies
  <2>4. apply'.step = "next" /\ apply'.aside = <<>>
    BY <2>1 DEF NoApply
  <2>5. Locked' /\ Applying'
    BY <1>0, <2>3, <2>4 DEF Locked, Applying, Applies
  <2>6. Accepted' = Accepted /\ written <= written' /\ mem'.applying
    <3>1. mem'.applying
      BY <1>4, <1>6, <1>10, Zenon
    <3> QED BY <1>0, <3>1, SessionActionsAssumption DEF Accepted, Locked
  <2>7. Quiet
    BY <1>0, <1>4, <1>5, <1>6, <1>7, <1>8, <1>9, <1>10, <2>4, <2>6
       DEF Quiet
  <2> QED BY <1>7, <1>8, <2>5, <2>7 DEF Held
<1>11. CASE due # "finished"
  <2>1. apply' = apply
    BY <1>11 DEF TakeDue
  <2>2. Locked' /\ Applying' /\ ~Holding'
    BY <1>0, <2>1 DEF Locked, Applying, Holding
  <2>3. Quiet
    BY <1>0, <1>5, <1>6, <1>7, <1>8, <1>9, <2>1, <2>2 DEF Quiet, Accepted, Locked
  <2> QED BY <1>7, <1>8, <2>2, <2>3 DEF Held
<1> QED BY <1>10, <1>11

\* The thread takes its next step.
LEMMA ApplySteps ==
  ASSUME Applying, NEW x \in {"off", "next", "ask", "asked", "done"},
         apply' = [apply EXCEPT !.step = x]
  PROVE  /\ apply' \in Applies /\ apply'.step = x /\ apply'.todo = apply.todo
         /\ apply'.aside = apply.aside
BY DEF Applying, Applies

LEMMA ApplyIsOff == NoApply \in Applies /\ NoApply.step = "off" /\ NoApply.aside = <<>>
BY DEF NoApply, Applies

\* Clear and Repository leave the queue where it is.
LEMMA AskNextQuiet ==
  ASSUME Inv, TakeAside, Head(apply.todo) # "model" PROVE Held' /\ Quiet
<1>0. /\ Locked /\ Applying /\ Known /\ apply.step = "next" /\ apply.todo # <<>>
      /\ UNCHANGED <<mem, file, worker, initial, history, job, due, written>>
      /\ apply' = [apply EXCEPT !.step = "ask"]
  BY DEF Inv, Held, TakeAside, Work, Loop, Ghosts
<1>1. /\ apply' \in Applies /\ apply'.step = "ask" /\ apply'.todo = apply.todo
      /\ apply'.aside = apply.aside
  BY <1>0, ApplySteps
<1>2. Locked' /\ Applying' /\ SameLock
  BY <1>0, <1>1 DEF Locked, Applying, Applies, SameLock, Accepted, Holding
<1> QED BY <1>0, <1>2, OnlyLockMoves

LEMMA AskScheduledQuiet == ASSUME Inv, AskScheduled PROVE Held' /\ Quiet
<1> DEFINE k == Head(apply.todo)
<1>0. /\ Locked /\ Applying /\ Known /\ apply.step = "ask" /\ Begin("apply", k)
      /\ UNCHANGED <<mem, file, worker, initial, history, due, written>>
      /\ apply' = [apply EXCEPT !.step = "asked"] /\ k \in Kinds
  BY DEF Inv, Held, Applying, Applies, AskScheduled, Work, Loop, Ghosts
<1>1. k \in Kinds \cup {"delete", "message"} /\ k # "message"
  BY <1>0 DEF Kinds
<1> HIDE DEF k
<1>2. /\ job.kind = "none" /\ job.by = "none"
      /\ job' \in [by : {"none", "user", "apply"},
                   kind : Kinds \cup {"none", "delete", "message"},
                   step : Steps, read : Session \cup {Gone}]
      /\ job'.by = "apply" /\ job'.kind = k /\ job'.step # "write"
  BY <1>0, <1>1, LockBegins
<1>3. /\ apply' \in Applies /\ apply'.step = "asked"
      /\ apply'.todo = apply.todo /\ apply'.aside = apply.aside
  BY <1>0, ApplySteps
<1>4. Locked' /\ Applying' /\ SameLock
  BY <1>0, <1>1, <1>2, <1>3
     DEF Locked, Applying, Applies, SameLock, Accepted, Holding
<1> QED BY <1>0, <1>4, OnlyLockMoves

\* Nothing is aside when the thread lets go of the queue.
LEMMA ReleaseQuiet == ASSUME Inv, Release PROVE Held' /\ Quiet
<1> DEFINE t == [mem EXCEPT !.applying = FALSE]
<1>0. /\ Held /\ Working /\ Locked /\ Applying /\ Good(mem) /\ apply.step = "next"
      /\ Known /\ apply' = NoApply /\ apply.aside = <<>>
      /\ UNCHANGED <<worker, initial, history, job, due, written>>
  BY DEF Inv, Held, Records, Applying, Release, Work, Ghosts
<1>1. Update(t) /\ mem \in Session /\ FALSE \in BOOLEAN
  BY <1>0, FieldsOf DEF Release
<1>2. t \in Session
  BY <1>1, Zenon DEF Session
<1>3. /\ t.queue = mem.queue /\ t.chat = mem.chat /\ t.unsent = mem.unsent
      /\ t.actions = mem.actions
      /\ t.status = mem.status /\ t.thread = mem.thread /\ t.ready = mem.ready
  BY <1>1 DEF Session
<1>4. /\ Good(t) /\ t.queue \in {mem.queue, <<>>} /\ t.chat = mem.chat
      /\ Shown(t) = Shown(mem)
  BY <1>0, <1>2, <1>3, ScheduleChanges
<1> HIDE DEF t
<1>5. mem' = t /\ FileFollows
  BY <1>1, <1>4, SavedOrNot
<1>6. Records' /\ Known'
  BY <1>0, <1>4, <1>5, RecordsFollow DEF Held
<1>7. Working' /\ NothingGiven
  BY <1>0, <1>3, <1>5, SameStart, WorkingOn DEF Working, Starts
<1>8. /\ apply' \in Applies /\ apply'.step = "off" /\ apply'.aside = apply.aside
  BY <1>0, ApplyIsOff
<1>9. Locked' /\ Applying' /\ ~Holding'
  BY <1>0, <1>8 DEF Locked, Applying, Applies, Holding
<1>10. Quiet
  BY <1>0, <1>4, <1>5, <1>6, <1>7, <1>8, <1>9, GhostsSame
     DEF Quiet, Accepted, Locked
<1> QED BY <1>6, <1>7, <1>9, <1>10 DEF Held

LEMMA LookAtQueueQuiet == ASSUME Inv, LookAtQueue PROVE Held' /\ Quiet
<1>0. /\ Held /\ Working /\ Locked /\ Applying /\ Known
      /\ UNCHANGED <<mem, file, worker, initial, job, apply, due, written>>
  BY DEF Inv, Held, LookAtQueue, Work
<1>1. Locked' /\ Applying' /\ SameLock
  BY <1>0, LockSame
<1>2. Grows
  <2>1. \/ UNCHANGED history
        \/ history' = [history EXCEPT !.stranded = @ \cup Range(mem.queue)]
    BY DEF LookAtQueue
  <2>2. Range(mem.queue) \subseteq Messages
    BY <1>0, QueueIs
  <2> QED BY <2>1, <2>2, GhostsSame DEF Grows, Inv, Recorded, Histories
<1>3. /\ Good(mem') /\ Stays(mem, mem') /\ FileFollows /\ Known'
      /\ (Active(mem') => worker # "off" \/ Preparing(mem'))
  BY <1>0, QuietRecord
<1>4. Working' /\ NothingGiven
  BY <1>0, <1>3, WorkingOn
<1> QED BY <1>0, <1>1, <1>2, <1>3, <1>4, QuietIs

LEMMA NudgeQuiet == ASSUME Inv, Nudge PROVE Held' /\ Quiet
<1>0. /\ Held /\ Working /\ Locked /\ Applying /\ Known
      /\ UNCHANGED <<mem, file, job, apply, due, written>> /\ StartWith(<<>>)
  BY DEF Inv, Held, Nudge
<1>1. Locked' /\ Applying' /\ SameLock
  BY <1>0, LockSame
<1>2. Grows
  <2>1. (history.raced \/ (job # NoJob /\ worker = "off")) \in BOOLEAN
    BY DEF Inv, Recorded, Histories
  <2>2. /\ Recorded' /\ history'.cleared = history.cleared
        /\ history'.lost = history.lost /\ history'.refused = history.refused
        /\ history'.overwrote = history.overwrote
    BY <2>1 DEF Nudge, Inv, Recorded, Histories
  <2> QED BY <2>2 DEF Grows
<1>3. Good(mem') /\ Stays(mem, mem') /\ FileFollows /\ Known'
  BY <1>0, QuietRecord
<1>4. Working' /\ (initial' = <<>> \/ initial' = initial)
  <2>1. <<>> \in Seq(Messages \cup {Continue})
    OBVIOUS
  <2> QED BY <1>0, <2>1, WorkerStarts
<1>5. NothingGiven
  BY <1>4 DEF NothingGiven, Range
<1> QED BY <1>0, <1>1, <1>2, <1>3, <1>4, <1>5, QuietIs

LEMMA ListSessionsQuiet == ASSUME Inv, ListSessions PROVE Held' /\ Quiet
<1>0. /\ Locked /\ Applying /\ Known
      /\ UNCHANGED <<mem, file, worker, initial, history, job, apply, due, written>>
  BY DEF Inv, Held, ListSessions, Work, Ghosts
<1> QED BY <1>0, LockSame, OnlyLockMoves

LEMMA FlushQuiet == ASSUME Inv, Flush, Known PROVE Held' /\ Quiet
<1>0. /\ Held /\ Working /\ Locked /\ Applying
      /\ UNCHANGED <<mem, worker, initial, history, job, apply, due, written>>
  BY DEF Inv, Held, Flush, Work, Ghosts
<1>1. Good(mem') /\ Stays(mem, mem') /\ Known'
  BY <1>0 DEF Held, Records, Stays, Known
<1>2. FileFollows
  BY <1>0, <1>1, FieldsOf DEF Flush, Save, FileFollows
<1>3. Working' /\ NothingGiven
  BY <1>0, WorkingOn DEF Working, Active, Preparing
<1>4. Locked' /\ Applying' /\ SameLock
  BY <1>0, LockSame
<1> QED BY <1>0, <1>1, <1>2, <1>3, <1>4, GhostsSame, QuietIs

-----------------------------------------------------------------------------
(* Steps that take messages aside, put them back, send and accept them *)

LEMMA QueueGood ==
  ASSUME NEW s, Good(s), NEW q \in Seq(Messages)
  PROVE  LET t == [s EXCEPT !.queue = q]
         IN  /\ Good(t) /\ t.queue = q /\ t.chat = s.chat /\ t.unsent = s.unsent
             /\ t.applying = s.applying /\ Starts(s, t)
<1> DEFINE t == [s EXCEPT !.queue = q]
<1>1. s \in Session
  BY FieldsOf
<1>2. t \in Session
  BY <1>1 DEF Session
<1>3. /\ t.queue = q /\ t.chat = s.chat /\ t.unsent = s.unsent
      /\ t.actions = s.actions /\ t.applying = s.applying /\ t.status = s.status
      /\ t.thread = s.thread /\ t.ready = s.ready
  BY <1>1 DEF Session
<1> QED BY <1>2, <1>3, SameStart DEF Good

LEMMA TakeAsideKeeps ==
  ASSUME Inv, TakeAside, Head(apply.todo) = "model" PROVE Inv'
<1> DEFINE t == [mem EXCEPT !.queue = <<>>]
<1>0. /\ Held /\ Working /\ Locked /\ Applying /\ Known /\ apply.step = "next"
      /\ apply.todo # <<>> /\ apply.aside = <<>> /\ Good(mem)
      /\ UNCHANGED <<worker, initial, job, due, written, history>>
      /\ apply' = [apply EXCEPT !.step = "ask", !.aside = mem.queue] /\ Update(t)
  BY DEF Inv, Held, Records, Applying, TakeAside, Work, Loop, Ghosts
<1>1. /\ Good(t) /\ t.queue = <<>> /\ t.chat = mem.chat /\ t.unsent = mem.unsent
      /\ t.applying = mem.applying /\ Starts(mem, t)
      /\ mem.queue \in Seq(Messages)
  <2>1. <<>> \in Seq(Messages)
    OBVIOUS
  <2> QED BY <1>0, <2>1, QueueGood, FieldsOf
<1> HIDE DEF t
<1>2. mem' = t /\ file' = file /\ FileFollows
  BY <1>0, <1>1, SavedOrNot DEF Update
<1>3. Records' /\ Known'
  BY <1>0, <1>1, <1>2, RecordsFollow DEF Held
<1>4. Working' /\ NothingGiven
  BY <1>0, <1>1, <1>2, WorkingOn DEF Working, Starts
<1>5. /\ apply' \in Applies /\ apply'.step = "ask" /\ apply'.aside = mem.queue
      /\ apply'.todo = apply.todo
  BY <1>0, <1>1 DEF Applying, Applies
<1>6. Locked' /\ Applying' /\ Accepted' = Accepted /\ written <= written'
  BY <1>0, <1>5, SessionActionsAssumption DEF Locked, Applying, Accepted
<1>7. Held'
  BY <1>3, <1>4, <1>6 DEF Held
<1>8. Line /\ Apart /\ Kept /\ Recorded' /\ Range(apply.aside) = {}
      /\ Range(mem'.queue) = {} /\ Ascending(mem'.queue)
  BY <1>0, <1>1, <1>2, QueueIs DEF Inv, Recorded
<1>9. Line'
  BY <1>0, <1>2, <1>3, <1>5, <1>6, <1>7, <1>8, LineFollows DEF Line
<1>10. Apart'
  <2>1. ~history'.overwrote =>
          /\ mem'.chat \cup Range(initial') \subseteq Accepted' \cup {Continue}
          /\ (Range(mem'.queue) \cup Range(apply'.aside))
               \cap (mem'.chat \cup Range(initial')) = {}
          /\ mem'.applying
    BY <1>0, <1>1, <1>2, <1>5, <1>6, <1>8 DEF Apart, Holding
  <2> QED BY <1>0, <1>2, <1>3, <1>6, <1>7, <1>8, <2>1, ApartFollows
<1>11. Kept'
  <2>1. /\ Elsewhere \subseteq Elsewhere'
        /\ Shown(mem) \subseteq Shown(mem') \cup Elsewhere'
    BY <1>0, <1>1, <1>2, <1>5, <1>8 DEF Elsewhere, Shown
  <2>2. ~history'.overwrote => Accepted' \subseteq Shown(mem') \cup Elsewhere'
    BY <1>0, <1>6, <1>8, <2>1 DEF Kept
  <2> QED BY <1>0, <1>2, <1>3, <1>6, <1>7, <1>8, <2>1, <2>2, KeptFollows DEF FileFollows
<1> QED BY <1>7, <1>8, <1>9, <1>10, <1>11 DEF Inv

LEMMA AppliedKeeps == ASSUME Inv, Applied PROVE Inv'
<1> DEFINE t == PutBack(mem)
<1>0. /\ Held /\ Working /\ Locked /\ Applying /\ Known /\ apply.step = "done"
      /\ apply.todo # <<>> /\ Good(mem)
      /\ UNCHANGED <<worker, initial, job, due, written, history>>
      /\ apply' = [apply EXCEPT !.step = "next", !.todo = Tail(@), !.aside = <<>>]
      /\ UpdateAndSave(t)
  BY DEF Inv, Held, Records, Applying, Applied, Work, Loop, Ghosts
<1>1. /\ apply.aside \in Seq(Messages) /\ mem.queue \in Seq(Messages)
      /\ Messages \in SUBSET Int
      /\ Range(<<>>) = {} /\ Ascending(<<>>)
  BY <1>0, QueueIs
<1>2. /\ Good(t) /\ t.queue = apply.aside \o mem.queue /\ t.chat = mem.chat
      /\ t.unsent = mem.unsent
      /\ t.applying = mem.applying /\ Starts(mem, t)
  <2>1. apply.aside \o mem.queue \in Seq(Messages)
    BY <1>1
  <2> QED BY <1>0, <2>1, QueueGood DEF PutBack
<1> HIDE DEF t
<1>3. mem' = t /\ file' = Saved(mem') /\ FileFollows
  BY <1>0, <1>2, SavedOrNot
<1>4. Records' /\ Known'
  BY <1>0, <1>2, <1>3, RecordsFollow DEF Held
<1>5. Working' /\ NothingGiven
  BY <1>0, <1>2, <1>3, WorkingOn DEF Working, Starts
<1>6. apply' \in Applies /\ apply'.step = "next" /\ apply'.aside = <<>>
  <2>1. Tail(apply.todo) \in Seq(Kinds)
    BY <1>0 DEF Applying, Applies
  <2>2. apply \in Applies /\ <<>> \in Seq(Messages)
        /\ "next" \in {"off", "next", "ask", "asked", "done"}
    BY <1>0 DEF Applying
  <2>3. apply' \in Applies
    BY <1>0, <2>1, <2>2, Zenon DEF Applies
  <2> QED BY <1>0, <2>2, <2>3 DEF Applies
<1>7. Locked' /\ Applying' /\ Accepted' = Accepted /\ written <= written'
  BY <1>0, <1>6, SessionActionsAssumption DEF Locked, Applying, Accepted
<1>8. Held'
  BY <1>4, <1>5, <1>7 DEF Held
<1>9. Line /\ Apart /\ Kept /\ Recorded'
  BY <1>0 DEF Inv, Recorded
<1>10. Range(mem'.queue) = Range(apply.aside) \cup Range(mem.queue)
  <2>1. Range(apply.aside \o mem.queue) = Range(apply.aside) \cup Range(mem.queue)
    BY <1>1, ConcatIs
  <2> QED BY <1>2, <1>3, <2>1
<1>11. Line'
  <2>1. Ascending(mem'.queue)
    <3>1. Ascending(apply.aside \o mem.queue)
      BY <1>0, <1>1, <1>9, AscendingConcat DEF Line
    <3> QED BY <1>2, <1>3, <3>1
  <2>2. Range(mem'.queue) \subseteq Accepted'
    BY <1>0, <1>7, <1>9, <1>10 DEF Line
  <2> QED BY <1>0, <1>1, <1>3, <1>4, <1>6, <1>7, <1>8, <1>9, <2>1, <2>2, LineFollows
<1>12. Apart'
  <2>1. ~history'.overwrote =>
          /\ mem'.chat \cup Range(initial') \subseteq Accepted' \cup {Continue}
          /\ (Range(mem'.queue) \cup Range(apply'.aside))
               \cap (mem'.chat \cup Range(initial')) = {}
          /\ mem'.applying
    BY <1>0, <1>1, <1>2, <1>3, <1>6, <1>7, <1>9, <1>10 DEF Apart, Holding
  <2> QED BY <1>0, <1>3, <1>4, <1>7, <1>8, <1>9, <2>1, ApartFollows
<1>13. Kept'
  <2>1. Shown(mem) \cup Elsewhere \subseteq Shown(mem') \cup Elsewhere'
    BY <1>0, <1>2, <1>3, <1>10 DEF Elsewhere, Shown
  <2>2. ~history'.overwrote => Accepted' \subseteq Shown(mem') \cup Elsewhere'
    BY <1>0, <1>7, <1>9, <2>1 DEF Kept
  <2> QED BY <1>0, <1>3, <1>4, <1>7, <1>8, <1>9, <2>1, <2>2, KeptFollows
<1> QED BY <1>8, <1>9, <1>11, <1>12, <1>13 DEF Inv

\* The queue's head goes to the provider.
LEMMA SendQueuedKeeps == ASSUME Inv, SendQueued PROVE Inv'
<1> DEFINE h == Head(mem.queue)
           c == mem.chat \cup {h}
           q == Tail(mem.queue)
           t == [mem EXCEPT !.status = "Running", !.chat = c, !.queue = q]
<1>0. /\ Held /\ Working /\ Locked /\ Applying /\ Known /\ Good(mem)
      /\ worker' = worker /\ worker = "engine"
      /\ UNCHANGED <<initial, job, apply, due, written, history>>
      /\ Line /\ Apart /\ Kept /\ Recorded'
  BY DEF Inv, Held, Records, SendQueued, Loop, Ghosts, Recorded
<1>1. Locked' /\ Applying' /\ SameLock
  BY <1>0, LockSame
<1>2. CASE UNCHANGED <<mem, file>>
  <2>1. Held' /\ Quiet
    BY <1>0, <1>1, <1>2, OnlyLockMoves
  <2> QED BY <2>1, QuietKeeps
<1>3. CASE mem.queue # <<>> /\ UpdateAndSave(t)
  <2>1. /\ mem.queue \in Seq(Messages) /\ q \in Seq(Messages) /\ h \in Messages
        /\ 1 \in DOMAIN mem.queue /\ h = mem.queue[1]
        /\ Range(mem.queue) = Range(q) \cup {h}
        /\ \A i \in DOMAIN q : i + 1 \in DOMAIN mem.queue /\ q[i] = mem.queue[i + 1]
        /\ Messages \subseteq Nat \ {0} /\ DOMAIN q \subseteq Nat \ {0}
        /\ mem \in Session /\ c \in SUBSET Messages
        /\ \A j \in DOMAIN mem.queue : mem.queue[j] \in Messages
    BY <1>0, <1>3, FieldsOf, TailIs, QueueIs
  <2> HIDE DEF c, q, h
  <2>2. "Running" \in {"Starting", "Running", "Idle", "Interrupted", "Failed"}
    OBVIOUS
  <2>3. t \in Session
    BY <2>1, <2>2 DEF Session
  <2>4. /\ t.queue = q /\ t.chat = c /\ t.unsent = mem.unsent
        /\ t.actions = mem.actions /\ t.applying = mem.applying
    BY <2>1 DEF Session
  <2>5. Good(t)
    BY <1>0, <2>3, <2>4 DEF Good
  <2> HIDE DEF t
  <2>6. mem' = t /\ file' = Saved(mem') /\ FileFollows
    BY <1>3, <2>5, SavedOrNot
  <2>7. Records' /\ Known'
    BY <1>0, <2>5, <2>6, RecordsFollow DEF Held
  <2>8. Working'
    BY <1>0, WorkingOn
  <2>9. Held'
    BY <1>1, <2>7, <2>8 DEF Held
  <2>10. Ascending(q)
    <3> SUFFICES ASSUME NEW i \in DOMAIN q, NEW j \in DOMAIN q, i < j
                 PROVE  q[i] < q[j]
      BY DEF Ascending
    <3>1. i + 1 < j + 1 /\ i + 1 \in DOMAIN mem.queue /\ j + 1 \in DOMAIN mem.queue
      BY <2>1
    <3>2. mem.queue[i + 1] < mem.queue[j + 1]
      BY <1>0, <3>1 DEF Line, Ascending
    <3> QED BY <2>1, <3>2
  <2>11. h \notin Range(q) /\ h \notin Range(apply.aside)
    <3>1. ASSUME NEW i \in DOMAIN q PROVE q[i] # h
      <4>1. 1 < i + 1
        BY <2>1
      <4>2. mem.queue[1] < mem.queue[i + 1]
        BY <1>0, <2>1, <4>1 DEF Line, Ascending
      <4>3. q[i] = mem.queue[i + 1] /\ mem.queue[i + 1] \in Nat /\ h \in Nat
        BY <2>1
      <4> QED BY <2>1, <4>2, <4>3
    <3>2. ASSUME h \in Range(apply.aside) PROVE FALSE
      <4>1. h < h
        BY <1>0, <2>1, <3>2 DEF Line
      <4> QED BY <2>1, <4>1
    <3> QED BY <3>1, <3>2 DEF Range
  <2>12. Line'
    BY <1>0, <1>1, <2>1, <2>4, <2>6, <2>7, <2>9, <2>10, LineFollows DEF Line, SameLock
  <2>13. Apart'
    <3>1. h \in Accepted
      BY <1>0, <2>1 DEF Line
    <3>2. ~history'.overwrote =>
            /\ mem'.chat \cup Range(initial') \subseteq Accepted' \cup {Continue}
            /\ (Range(mem'.queue) \cup Range(apply'.aside))
                 \cap (mem'.chat \cup Range(initial')) = {}
            /\ Holding' => mem'.applying
      BY <1>0, <1>1, <2>1, <2>4, <2>6, <2>11, <3>1 DEF Apart, SameLock, c
    <3> QED BY <1>0, <1>1, <2>6, <2>7, <2>9, <3>2, ApartFollows DEF SameLock
  <2>14. Kept'
    <3>1. Shown(mem') = Shown(mem) /\ Elsewhere' = Elsewhere
      BY <1>0, <2>1, <2>4, <2>6 DEF Shown, Elsewhere, c
    <3> QED BY <1>0, <1>1, <2>6, <2>7, <2>9, <3>1, KeptFollows DEF Kept, SameLock
  <2> QED BY <1>0, <2>9, <2>12, <2>13, <2>14 DEF Inv
<1> QED BY <1>2, <1>3 DEF SendQueued

\* The prompt the worker was started with goes to the provider.
LEMMA ConnectedKeeps == ASSUME Inv, Connected PROVE Inv'
<1> DEFINE c == mem.chat \cup (Range(initial) \ {Continue})
           x == IF initial = <<>> THEN "Idle" ELSE "Running"
           t == [mem EXCEPT !.ready = TRUE, !.thread = TRUE, !.status = x, !.chat = c]
<1>0. /\ Held /\ Working /\ Locked /\ Applying /\ Known /\ Good(mem)
      /\ worker' = "engine" /\ initial' = <<>>
      /\ UNCHANGED <<job, apply, due, written, history>>
      /\ Line /\ Apart /\ Kept /\ Recorded' /\ UpdateAndSave(t)
  BY DEF Inv, Held, Records, Connected, Loop, Ghosts, Recorded
<1>1. Locked' /\ Applying' /\ SameLock
  BY <1>0, LockSame
<1>2. /\ mem \in Session /\ c \in SUBSET Messages /\ TRUE \in BOOLEAN
      /\ x \in {"Starting", "Running", "Idle", "Interrupted", "Failed"}
  <2>1. Range(initial) \subseteq Messages \cup {Continue}
    BY <1>0 DEF Working, Range
  <2> QED BY <1>0, <2>1, FieldsOf
<1> HIDE DEF c, x
<1>3. t \in Session
  BY <1>2, Zenon DEF Session
<1>4. /\ t.queue = mem.queue /\ t.chat = c /\ t.unsent = mem.unsent
      /\ t.actions = mem.actions /\ t.applying = mem.applying
  BY <1>2 DEF Session
<1>5. Good(t)
  BY <1>0, <1>3, <1>4 DEF Good
<1> HIDE DEF t
<1>6. mem' = t /\ file' = Saved(mem') /\ FileFollows
  BY <1>0, <1>5, SavedOrNot
<1>7. Records' /\ Known'
  BY <1>0, <1>5, <1>6, RecordsFollow DEF Held
<1>8. Held'
  BY <1>0, <1>1, <1>7 DEF Held, Working, Worker
<1>9. Line'
  BY <1>0, <1>1, <1>4, <1>6, <1>7, <1>8, LineFollows DEF Line, SameLock
<1>10. Apart'
  <2>1. Range(initial') = {}
    BY <1>0 DEF Range
  <2>2. ~history'.overwrote =>
          /\ mem'.chat \cup Range(initial') \subseteq Accepted' \cup {Continue}
          /\ (Range(mem'.queue) \cup Range(apply'.aside))
               \cap (mem'.chat \cup Range(initial')) = {}
          /\ Holding' => mem'.applying
    BY <1>0, <1>1, <1>4, <1>6, <2>1 DEF Apart, SameLock, c
  <2> QED BY <1>0, <1>1, <1>6, <1>7, <1>8, <2>2, ApartFollows DEF SameLock
<1>11. Kept'
  <2>1. Shown(mem) \subseteq Shown(mem') /\ Elsewhere' = Elsewhere
    BY <1>0, <1>4, <1>6 DEF Shown, Elsewhere, c
  <2> QED BY <1>0, <1>1, <1>6, <1>7, <1>8, <2>1, KeptFollows DEF Kept, SameLock
<1> QED BY <1>0, <1>8, <1>9, <1>10, <1>11 DEF Inv

\* A message is accepted: it is the last that was written.
LEMMA Accepts ==
  ASSUME Locked, Applying, job.kind = "message", Done, UNCHANGED <<due, written>>
  PROVE  /\ Locked' /\ Applying' /\ apply'.aside = apply.aside
         /\ (Holding' => Holding) /\ written <= written' /\ written \in Messages
         /\ Accepted' = Accepted \cup {written} /\ written \notin Accepted
         /\ \A m \in Accepted : m \in Nat /\ m < written
         /\ written \notin Accepted \cup {Continue}
<1>1. /\ Locked' /\ Applying' /\ Accepted' = 1..written
      /\ apply'.aside = apply.aside /\ (Holding' => Holding)
  BY LockIsDone
<1>2. written \in Nat \ {0} /\ written \in 1..MaxMessages
  BY SessionActionsAssumption DEF Locked
<1>3. Accepted = 1..written \ {written}
  BY DEF Accepted
<1> QED BY <1>1, <1>2, <1>3 DEF Messages, Continue

\* It is queued.
LEMMA QueuedKeeps ==
  ASSUME Inv, Known, job.kind = "message", Done, UpdateAndSave(Queued(mem)),
         UNCHANGED <<worker, initial, due, written>>, Grows
  PROVE  Inv'
<1> DEFINE t == Queued(mem)
           q == Append(mem.queue, written)
<1>0. /\ Held /\ Working /\ Locked /\ Applying /\ Good(mem)
      /\ Line /\ Apart /\ Kept /\ Recorded'
  BY DEF Inv, Held, Records, Grows
<1>1. /\ Locked' /\ Applying' /\ apply'.aside = apply.aside
      /\ (Holding' => Holding) /\ written <= written' /\ written \in Messages
      /\ Accepted' = Accepted \cup {written}
      /\ \A m \in Accepted : m \in Nat /\ m < written
      /\ written \notin Accepted \cup {Continue}
  BY <1>0, Accepts
<1>2. /\ mem.queue \in Seq(Messages) /\ q \in Seq(Messages)
      /\ Range(q) = Range(mem.queue) \cup {written}
      /\ DOMAIN q = 1..(Len(mem.queue) + 1) /\ DOMAIN mem.queue = 1..Len(mem.queue)
      /\ Len(mem.queue) \in Nat
      /\ \A i \in DOMAIN q : q[i] = IF i \in DOMAIN mem.queue THEN mem.queue[i] ELSE written
  <2>1. mem.queue \in Seq(Messages)
    BY <1>0, FieldsOf
  <2> QED BY <1>1, <2>1, AppendIs
<1>3. UpdateAndSave(t) /\ t = [mem EXCEPT !.queue = q]
  BY DEF Queued
<1> HIDE DEF q, t
<1>4. /\ Good(t) /\ t.queue = q /\ t.chat = mem.chat /\ t.unsent = mem.unsent
      /\ t.applying = mem.applying /\ Starts(mem, t)
  BY <1>0, <1>2, <1>3, QueueGood
<1>5. mem' = t /\ file' = Saved(mem') /\ FileFollows
  BY <1>3, <1>4, SavedOrNot
<1>6. Records' /\ Known'
  BY <1>0, <1>4, <1>5, RecordsFollow DEF Held
<1>7. Working'
  BY <1>0, <1>4, <1>5, WorkingOn DEF Working, Starts
<1>8. Held'
  BY <1>1, <1>6, <1>7 DEF Held
<1>9. Ascending(q)
  <2> SUFFICES ASSUME NEW i \in DOMAIN q, NEW j \in DOMAIN q, i < j PROVE q[i] < q[j]
    BY DEF Ascending
  <2>1. i \in DOMAIN mem.queue /\ q[i] = mem.queue[i] /\ mem.queue[i] \in Range(mem.queue)
    BY <1>2 DEF Range
  <2>2. CASE j \in DOMAIN mem.queue
    BY <1>0, <1>2, <2>1, <2>2 DEF Line, Ascending
  <2>3. CASE j \notin DOMAIN mem.queue
    BY <1>0, <1>1, <1>2, <2>1, <2>3 DEF Line
  <2> QED BY <2>2, <2>3
<1>10. Line'
  <2>1. Range(apply'.aside) \subseteq Accepted'
    BY <1>0, <1>1 DEF Line
  <2>2. Range(mem'.queue) \subseteq Accepted'
    BY <1>0, <1>1, <1>2, <1>4, <1>5 DEF Line
  <2>3. \A m \in Range(apply'.aside), n \in Range(mem'.queue) : m < n
    BY <1>0, <1>1, <1>2, <1>4, <1>5 DEF Line
  <2>4. Ascending(apply'.aside) /\ Ascending(mem'.queue)
    BY <1>0, <1>1, <1>4, <1>5, <1>9 DEF Line
  <2> QED BY <1>0, <1>1, <1>5, <1>6, <1>8, <2>1, <2>2, <2>3, <2>4, LineFollows
<1>11. Apart'
  <2>1. ~history'.overwrote =>
          /\ mem'.chat \cup Range(initial') \subseteq Accepted' \cup {Continue}
          /\ (Range(mem'.queue) \cup Range(apply'.aside))
               \cap (mem'.chat \cup Range(initial')) = {}
          /\ Holding' => mem'.applying
    BY <1>0, <1>1, <1>2, <1>4, <1>5 DEF Apart, Grows
  <2> QED BY <1>0, <1>1, <1>5, <1>6, <1>8, <2>1, ApartFollows DEF Grows
<1>12. Kept'
  <2>1. Elsewhere \subseteq Elsewhere'
    BY <1>1 DEF Elsewhere, Grows
  <2>2. Shown(mem') = Shown(mem) \cup {written}
    BY <1>2, <1>4, <1>5 DEF Shown
  <2>3. ~history'.overwrote => Accepted' \subseteq Shown(mem') \cup Elsewhere'
    BY <1>0, <1>1, <2>1, <2>2 DEF Kept, Grows
  <2> QED BY <1>0, <1>5, <1>6, <1>8, <2>3, KeptFollows DEF Grows
<1> QED BY <1>0, <1>8, <1>10, <1>11, <1>12 DEF Inv

LEMMA MessageQueuedKeeps == ASSUME Inv, MessageQueued PROVE Inv'
<1>1. /\ Known /\ job.kind = "message" /\ Done /\ UpdateAndSave(Queued(mem))
      /\ UNCHANGED <<worker, initial, due, written, history>>
  BY DEF MessageQueued, At, Work, Loop, Ghosts
<1> QED BY <1>1, GhostsSame, QueuedKeeps

\* It is sent, to the worker or with one that is started.
LEMMA GivenKeeps ==
  ASSUME Inv, Known, job.kind = "message", Done, UNCHANGED <<due, written, history>>,
         NEW x \in {"Starting", "Running"},
         UpdateAndSave([mem EXCEPT !.chat = @ \cup {written}, !.status = x]),
         Working', initial' \in {initial, <<written>>}
  PROVE  Inv'
<1> DEFINE c == mem.chat \cup {written}
           t == [mem EXCEPT !.chat = c, !.status = x]
<1>0. /\ Held /\ Locked /\ Applying /\ Good(mem)
      /\ Line /\ Apart /\ Kept /\ Recorded'
  BY DEF Inv, Held, Records, Recorded
<1>1. /\ Locked' /\ Applying' /\ apply'.aside = apply.aside
      /\ (Holding' => Holding) /\ written <= written' /\ written \in Messages
      /\ Accepted' = Accepted \cup {written}
      /\ written \notin Accepted \cup {Continue}
  BY <1>0, Accepts
<1>2. mem \in Session /\ c \in SUBSET Messages /\ UpdateAndSave(t)
  BY <1>0, <1>1, FieldsOf
<1> HIDE DEF c
<1>3. t \in Session
  BY <1>2 DEF Session
<1>4. /\ t.queue = mem.queue /\ t.chat = c /\ t.unsent = mem.unsent
      /\ t.actions = mem.actions /\ t.applying = mem.applying
  BY <1>2 DEF Session
<1>5. Good(t)
  BY <1>0, <1>3, <1>4 DEF Good
<1> HIDE DEF t
<1>6. mem' = t /\ file' = Saved(mem') /\ FileFollows
  BY <1>2, <1>5, SavedOrNot
<1>7. Records' /\ Known'
  BY <1>0, <1>5, <1>6, RecordsFollow DEF Held
<1>8. Held'
  BY <1>1, <1>7 DEF Held
<1>9. Line'
  BY <1>0, <1>1, <1>4, <1>6, <1>7, <1>8, LineFollows DEF Line
<1>10. Range(initial') \subseteq Range(initial) \cup {written}
  BY DEF Range
<1>11. Apart'
  <2>1. written \notin Range(mem.queue) \cup Range(apply.aside)
    BY <1>0, <1>1 DEF Line
  <2>2. ~history'.overwrote =>
          /\ mem'.chat \cup Range(initial') \subseteq Accepted' \cup {Continue}
          /\ (Range(mem'.queue) \cup Range(apply'.aside))
               \cap (mem'.chat \cup Range(initial')) = {}
          /\ Holding' => mem'.applying
    BY <1>0, <1>1, <1>4, <1>6, <1>10, <2>1 DEF Apart, c
  <2> QED BY <1>0, <1>1, <1>6, <1>7, <1>8, <2>2, ApartFollows
<1>12. Kept'
  <2>1. Elsewhere' = Elsewhere /\ Shown(mem') = Shown(mem) \cup {written}
    BY <1>1, <1>4, <1>6 DEF Elsewhere, Shown, c
  <2>2. ~history'.overwrote => Accepted' \subseteq Shown(mem') \cup Elsewhere'
    BY <1>0, <1>1, <2>1 DEF Kept
  <2> QED BY <1>0, <1>6, <1>7, <1>8, <2>2, KeptFollows
<1> QED BY <1>0, <1>8, <1>9, <1>11, <1>12 DEF Inv

LEMMA MessageSentKeeps == ASSUME Inv, MessageSent PROVE Inv'
<1>0. /\ Known /\ job.kind = "message" /\ Done /\ UNCHANGED <<due, written>>
      /\ Held /\ Working /\ Locked /\ Applying
  BY DEF MessageSent, At, Loop, Inv, Held
<1>1. CASE UpdateAndSave(Queued(mem)) /\ UNCHANGED <<worker, initial, history>>
  BY <1>0, <1>1, GhostsSame, QueuedKeeps
<1>2. CASE /\ worker = "engine" /\ UNCHANGED <<worker, initial, history>>
           /\ UpdateAndSave([mem EXCEPT !.chat = @ \cup {written}, !.status = "Running"])
  <2>1. Working'
    BY <1>0, <1>2, WorkingOn
  <2> QED BY <1>0, <1>2, <2>1, GivenKeeps
<1>3. CASE /\ StartWith(<<written>>) /\ UNCHANGED history
           /\ UpdateAndSave([mem EXCEPT !.chat = @ \cup {written}, !.status = "Starting"])
  <2>1. written \in Messages
    BY <1>0, Accepts
  <2>2. <<written>> \in Seq(Messages \cup {Continue})
    BY <2>1
  <2>3. Working' /\ initial' \in {initial, <<written>>}
    BY <1>0, <1>3, <2>2, WorkerStarts
  <2> QED BY <1>0, <1>3, <2>3, GivenKeeps
<1>4. CASE /\ history' = [history EXCEPT !.refused = @ \cup {written}]
           /\ UNCHANGED <<mem, file, worker, initial>>
  <2>1. /\ Locked' /\ Applying' /\ apply'.aside = apply.aside
        /\ (Holding' => Holding) /\ written <= written' /\ written \in Messages
        /\ Accepted' = Accepted \cup {written}
    BY <1>0, Accepts
  <2>2. /\ Grows /\ Recorded' /\ history'.refused = history.refused \cup {written}
    BY <1>4, <2>1 DEF Grows, Inv, Recorded, Histories
  <2>3. Line /\ Apart /\ Kept /\ Records' /\ Known' /\ FileFollows /\ Working'
    BY <1>0, <1>4, RecordsSame, WorkingOn, QuietRecord DEF Inv, Held
  <2>4. Held'
    BY <2>1, <2>3 DEF Held
  <2>5. Line'
    BY <1>0, <1>4, <2>1, <2>3, <2>4, LineFollows DEF Line
  <2>6. Apart'
    <3>1. ~history'.overwrote =>
            /\ mem'.chat \cup Range(initial') \subseteq Accepted' \cup {Continue}
            /\ (Range(mem'.queue) \cup Range(apply'.aside))
                 \cap (mem'.chat \cup Range(initial')) = {}
            /\ Holding' => mem'.applying
      BY <1>0, <1>4, <2>1, <2>2, <2>3 DEF Apart, Grows
    <3> QED BY <1>0, <2>1, <2>2, <2>3, <2>4, <3>1, ApartFollows DEF Grows
  <2>7. Kept'
    <3>1. Elsewhere \cup {written} \subseteq Elsewhere'
      BY <2>1, <2>2 DEF Elsewhere, Grows
    <3>2. ~history'.overwrote =>
            /\ Accepted' \subseteq Shown(mem) \cup Elsewhere'
            /\ Accepted' \subseteq Shown(file) \cup Elsewhere'
      BY <1>0, <2>1, <2>2, <2>3, <3>1 DEF Kept, Grows
    <3> QED BY <1>4, <2>2, <3>2 DEF Kept, Shown
  <2> QED BY <2>2, <2>4, <2>5, <2>6, <2>7 DEF Inv
<1> QED BY <1>1, <1>2, <1>3, <1>4 DEF MessageSent, Work

-----------------------------------------------------------------------------
(* Steps that forget, write an old record back, restart and delete *)

\* Clear forgets what it shows, and counts it as cleared.
LEMMA ForgetsKeeps ==
  ASSUME Inv, Known, Done, UNCHANGED <<due, written>>,
         NEW t, Good(t), t.queue = <<>>, t.chat = {}, t.applying = mem.applying,
         UpdateAndSave(t), Working', NothingGiven,
         history' = [history EXCEPT !.cleared = @ \cup Shown(mem)],
         job.kind = "clear"
  PROVE  Inv'
<1>0. /\ Held /\ Working /\ Locked /\ Applying /\ Good(mem)
      /\ Line /\ Apart /\ Kept /\ Recorded
  BY DEF Inv, Held, Records
<1>1. mem' = t /\ file' = Saved(mem') /\ FileFollows
  BY SavedOrNot
<1>2. Records' /\ Known'
  BY <1>0, <1>1, RecordsFollow DEF Held
<1>3. /\ Locked' /\ Applying' /\ SameLock
  BY <1>0, LockIsDone
<1>4. Held'
  BY <1>2, <1>3 DEF Held
<1>5. Shown(mem) \subseteq Messages
  BY <1>0, FieldsOf DEF Shown
<1>6. /\ Recorded' /\ history'.cleared = history.cleared \cup Shown(mem)
      /\ history'.lost = history.lost /\ history'.refused = history.refused
      /\ history'.overwrote = history.overwrote
  BY <1>0, <1>5 DEF Recorded, Histories
<1>7. Range(mem'.queue) = {} /\ Ascending(mem'.queue)
  BY <1>0, <1>1, QueueIs
<1>8. Line'
  BY <1>0, <1>1, <1>2, <1>3, <1>4, <1>7, LineFollows DEF Line, SameLock
<1>9. Apart'
  <2>1. ~history'.overwrote =>
          /\ mem'.chat \cup Range(initial') \subseteq Accepted' \cup {Continue}
          /\ (Range(mem'.queue) \cup Range(apply'.aside))
               \cap (mem'.chat \cup Range(initial')) = {}
          /\ Holding' => mem'.applying
    <3>1. Continue \notin Range(apply.aside)
      BY <1>0, QueueIs
    <3> QED BY <1>0, <1>1, <1>3, <1>6, <1>7, <3>1
            DEF Apart, SameLock, NothingGiven
  <2> QED BY <1>0, <1>1, <1>2, <1>3, <1>4, <1>6, <2>1, ApartFollows DEF SameLock
<1>10. Kept'
  <2>1. Elsewhere \cup Shown(mem) \subseteq Elsewhere'
    BY <1>3, <1>6 DEF Elsewhere, SameLock
  <2>2. ~history'.overwrote => Accepted' \subseteq Shown(mem') \cup Elsewhere'
    BY <1>0, <1>3, <1>6, <2>1 DEF Kept, SameLock
  <2> QED BY <1>0, <1>1, <1>2, <1>4, <1>6, <2>2, KeptFollows
<1> QED BY <1>4, <1>6, <1>8, <1>9, <1>10 DEF Inv

\* The cleared record, and the same once more unmarked.
LEMMA ClearedGood ==
  ASSUME NEW s, Good(s)
  PROVE  LET t == ClearConversation(ResetWorkspace(s))
             u == [t EXCEPT !.clearing = FALSE]
         IN  /\ Good(t) /\ t.queue = <<>> /\ t.chat = {}
             /\ t.applying = s.applying
             /\ Good(u) /\ u.queue = <<>> /\ u.chat = {}
             /\ u.applying = s.applying /\ Preparing(u)
<1> DEFINE r == ResetWorkspace(s)
           t == ClearConversation(r)
           u == [t EXCEPT !.clearing = FALSE]
<1>1. Good(r) /\ Stays(s, r) /\ r.queue = <<>>
  BY ResetWorkspaceGood
<1> HIDE DEF r
<1>2. /\ Good(t) /\ t.queue = <<>> /\ t.chat = {} /\ t.applying = s.applying
      /\ Preparing(t)
  BY <1>1, ClearConversationGood DEF Stays
<1> HIDE DEF t
<1>3. t \in Session /\ FALSE \in BOOLEAN
  BY <1>2, FieldsOf
<1>4. u \in Session
  BY <1>3, Zenon DEF Session
<1>5. /\ u.queue = t.queue /\ u.chat = t.chat /\ u.applying = t.applying
      /\ u.actions = t.actions /\ u.status = t.status /\ u.thread = t.thread
      /\ u.ready = t.ready
  BY <1>3 DEF Session
<1>6. Good(u) /\ Preparing(u)
  BY <1>2, <1>4, <1>5 DEF Good, Preparing
<1> QED BY <1>2, <1>5, <1>6 DEF t, r

LEMMA ClearedKeeps == ASSUME Inv, Reset, job.kind = "clear" PROVE Inv'
<1> DEFINE t == ClearConversation(ResetWorkspace(mem))
<1>0. /\ Working /\ Known /\ Good(mem) /\ Done
      /\ UNCHANGED <<due, written>> /\ StartEmpty /\ UpdateAndSave(t)
      /\ history' = [history EXCEPT !.cleared = @ \cup Shown(mem)]
  BY DEF Inv, Held, Records, Reset, Loop
<1>1. Good(t) /\ t.queue = <<>> /\ t.chat = {} /\ t.applying = mem.applying
  BY <1>0, ClearedGood
<1>2. Working' /\ NothingGiven
  BY <1>0, WorkerPrepares
<1> HIDE DEF t
<1> QED BY <1>0, <1>1, <1>2, ForgetsKeeps

\* No worker is started, and the session is left to be prepared.
LEMMA ClearFailsLateKeeps == ASSUME Inv, ClearFailsLate PROVE Inv'
<1> DEFINE t == ClearConversation(ResetWorkspace(mem))
           u == [t EXCEPT !.clearing = FALSE]
<1>0. /\ Working /\ Known /\ Good(mem) /\ Done /\ job.kind = "clear"
      /\ UNCHANGED <<worker, initial, due, written>> /\ UpdateAndSave(u)
      /\ history' = [history EXCEPT !.cleared = @ \cup Shown(mem)]
  BY DEF Inv, Held, Records, ClearFailsLate, At, Work, Loop
<1>1. /\ Good(u) /\ u.queue = <<>> /\ u.chat = {} /\ u.applying = mem.applying
      /\ Preparing(u)
  BY <1>0, ClearedGood
<1> HIDE DEF u
<1>2. mem' = u
  BY <1>0, <1>1, SavedOrNot
<1>3. Working' /\ NothingGiven
  BY <1>0, <1>1, <1>2, WorkingOn
<1> QED BY <1>0, <1>1, <1>3, ForgetsKeeps

\* A change of model writes back what it has read.  Its queue was empty; when
\* the record has changed since, that is remembered.
LEMMA ModelWrittenKeeps == ASSUME Inv, ModelWritten PROVE Inv'
<1> DEFINE t == [job.read EXCEPT !.status = "Idle", !.thread = FALSE]
<1>0. /\ Held /\ Working /\ Locked /\ Applying /\ Known /\ Good(mem) /\ Done
      /\ UNCHANGED <<worker, initial, due, written>> /\ UpdateAndSave(t)
      /\ Line /\ Apart /\ Kept /\ Recorded
      /\ job.kind = "model" /\ Good(job.read) /\ job.read.queue = <<>>
  BY DEF Inv, Held, Records, Locked, ModelWritten, At, Loop, Work
<1>1. /\ job.read \in Session /\ FALSE \in BOOLEAN
      /\ "Idle" \in {"Starting", "Running", "Idle", "Interrupted", "Failed"}
  BY <1>0, FieldsOf
<1>2. t \in Session
  BY <1>1, Zenon DEF Session
<1>3. /\ t.queue = <<>> /\ t.chat = job.read.chat /\ t.unsent = job.read.unsent
      /\ t.actions = job.read.actions /\ t.applying = job.read.applying
      /\ t.status = "Idle"
  BY <1>0, <1>1 DEF Session
<1>4. Good(t)
  BY <1>0, <1>2, <1>3 DEF Good
<1> HIDE DEF t
<1>5. mem' = t /\ file' = Saved(mem') /\ FileFollows
  BY <1>0, <1>4, SavedOrNot
<1>6. Records' /\ Known'
  BY <1>0, <1>4, <1>5, RecordsFollow DEF Held
<1>7. Locked' /\ Applying' /\ SameLock
  BY <1>0, LockIsDone
<1>8. Working' /\ NothingGiven
  BY <1>0, <1>3, <1>5, WorkingOn DEF Active
<1>9. Held'
  BY <1>6, <1>7, <1>8 DEF Held
<1>10. /\ Recorded' /\ history'.cleared = history.cleared
       /\ history'.lost = history.lost /\ history'.refused = history.refused
       /\ (history.overwrote => history'.overwrote)
       /\ ~history'.overwrote => mem = job.read
  <2>1. CASE mem = job.read
    BY <1>0, <2>1 DEF ModelWritten, Recorded
  <2>2. CASE mem # job.read
    <3>1. history' = [history EXCEPT !.overwrote = TRUE] /\ TRUE \in BOOLEAN
      BY <2>2 DEF ModelWritten
    <3>2. history' \in Histories
      BY <1>0, <3>1, Zenon DEF Recorded, Histories
    <3>3. /\ history'.overwrote = TRUE /\ history'.cleared = history.cleared
          /\ history'.lost = history.lost /\ history'.refused = history.refused
      BY <1>0, <3>1 DEF Recorded, Histories
    <3> QED BY <3>2, <3>3 DEF Recorded
  <2> QED BY <2>1, <2>2
<1>11. Range(mem'.queue) = {} /\ Ascending(mem'.queue)
  BY <1>0, <1>3, <1>5, QueueIs
<1>12. Line'
  BY <1>0, <1>5, <1>6, <1>7, <1>9, <1>11, LineFollows DEF Line, SameLock
<1>13. Apart'
  <2>1. ~history'.overwrote =>
          /\ mem'.chat \cup Range(initial') \subseteq Accepted' \cup {Continue}
          /\ (Range(mem'.queue) \cup Range(apply'.aside))
               \cap (mem'.chat \cup Range(initial')) = {}
          /\ Holding' => mem'.applying
    BY <1>0, <1>3, <1>5, <1>7, <1>10, <1>11 DEF Apart, SameLock
  <2> QED BY <1>0, <1>5, <1>6, <1>7, <1>9, <1>10, <2>1, ApartFollows DEF SameLock
<1>14. Kept'
  <2>1. Elsewhere' = Elsewhere
    BY <1>7, <1>10 DEF Elsewhere, SameLock
  <2>2. ~history'.overwrote => Shown(mem') = Shown(mem)
    BY <1>0, <1>3, <1>5, <1>10, <1>11 DEF Shown
  <2>3. ~history'.overwrote => Accepted' \subseteq Shown(mem') \cup Elsewhere'
    BY <1>0, <1>7, <1>10, <2>1, <2>2 DEF Kept, SameLock
  <2> QED BY <1>0, <1>5, <1>6, <1>9, <1>10, <2>3, KeptFollows
<1> QED BY <1>9, <1>10, <1>12, <1>13, <1>14 DEF Inv

\* After a restart nobody holds the lock, nor anything aside.
LEMMA LockIsFree ==
  ASSUME Locked, job' = NoJob, apply' = NoApply, due' = "no", written' = written
  PROVE  Locked' /\ Applying' /\ Accepted' = 1..written /\ ~Holding'
<1>1. /\ NoJob.by = "none" /\ NoJob.kind = "none" /\ NoJob.step = "none"
      /\ NoJob \in [by : {"none", "user", "apply"},
                    kind : Kinds \cup {"none", "delete", "message"},
                    step : Steps, read : Session \cup {Gone}]
  BY DEF NoJob, Steps
<1>2. /\ Locked' /\ Accepted' = 1..written
  BY <1>1 DEF Locked, Accepted
<1>3. Applying' /\ ~Holding'
  BY <1>1, ApplyIsOff DEF Applying, Holding
<1> QED BY <1>2, <1>3

\* A restart goes back to the file; what was aside is lost, what was about to
\* be accepted refused.
LEMMA RestartKeeps == ASSUME Inv, Restart PROVE Inv'
<1>0. /\ Held /\ Records /\ Working /\ Locked /\ Applying /\ Line /\ Apart /\ Kept
      /\ Recorded
      /\ job' = NoJob /\ apply' = NoApply /\ due' = "no" /\ written' = written
      /\ file' = mem'
      /\ history' = [history EXCEPT !.lost = @ \cup Range(apply.aside),
                                    !.refused = @ \cup (1..written \ Accepted)]
  BY DEF Inv, Held, Restart
<1>1. Locked' /\ Applying' /\ Accepted' = 1..written /\ ~Holding'
      /\ apply'.aside = <<>> /\ Range(apply'.aside) = {} /\ Ascending(<<>>)
  BY <1>0, LockIsFree, ApplyIsOff, QueueIs
<1>2. /\ Recorded' /\ history'.cleared = history.cleared
      /\ history'.lost = history.lost \cup Range(apply.aside)
      /\ history'.refused = history.refused \cup (1..written \ Accepted)
      /\ history'.overwrote = history.overwrote
  <2>1. Range(apply.aside) \subseteq Messages /\ 1..written \subseteq Messages
    BY <1>0, QueueIs, SessionActionsAssumption DEF Locked, Messages
  <2>2. /\ history.lost \cup Range(apply.aside) \in SUBSET Messages
        /\ history.refused \cup (1..written \ Accepted) \in SUBSET Messages
    BY <1>0, <2>1 DEF Recorded, Histories
  <2>3. history' \in Histories
    BY <1>0, <2>2, Zenon DEF Recorded, Histories
  <2> QED BY <1>0, <2>3 DEF Recorded, Histories
<1>3. /\ worker' \in Worker /\ initial' \in Seq(Messages \cup {Continue})
      /\ Range(initial') \subseteq {Continue}
      /\ Known' /\ Active(mem') => worker' # "off"
  <2>1. worker' \in {"off", "connect"} /\ initial' \in {<<>>, <<Continue>>}
        /\ (Known' /\ Active(mem') => worker' # "off")
    BY DEF Restart, Known
  <2>2. <<>> \in Seq(Messages \cup {Continue}) /\ Range(<<>>) = {}
        /\ <<Continue>> \in Seq(Messages \cup {Continue})
    BY DEF Range
  <2>3. Range(<<Continue>>) \subseteq {Continue}
    BY DEF Range
  <2> QED BY <2>1, <2>2, <2>3 DEF Worker
<1>4. Working'
  BY <1>3 DEF Working
<1>5. CASE file = Gone
  <2>1. mem' = Gone
    BY <1>5 DEF Restart
  <2>2. ~Known' /\ Records'
    BY <1>0, <2>1 DEF Known, Records
  <2>3. Held'
    BY <1>1, <1>4, <2>2 DEF Held
  <2>4. Accepted \subseteq Accepted'
    BY <1>1 DEF Accepted
  <2> QED BY <1>1, <1>2, <2>2, <2>3, <2>4, AbsentKeeps
<1>6. CASE file # Gone
  <2>1. /\ mem' = AfterRestart(file) /\ Good(file) /\ Known
    BY <1>0, <1>6 DEF Restart, Records
  <2>2. Good(mem') /\ Stays(file, mem') /\ Known'
    BY <2>1, AfterRestartGood, FieldsOf DEF Known
  <2>3. Records'
    BY <1>0, <2>2 DEF Records, Known
  <2>4. Held'
    BY <1>1, <1>4, <2>3 DEF Held
  <2>5. /\ Ascending(mem'.queue) /\ Range(mem'.queue) \subseteq Range(file.queue)
        /\ mem'.chat = file.chat
    BY <1>0, <1>1, <2>1, <2>2, QueueIs DEF Line, Stays
  <2>6. Line'
    <3>1. Ascending(apply'.aside)
      BY <1>1
    <3> QED BY <1>0, <1>1, <2>1, <2>5, <3>1 DEF Line
  <2>7. Apart'
    <3>1. Continue \notin Range(mem'.queue)
      BY <2>2, FieldsOf, QueueIs, <1>0
    <3> QED BY <1>0, <1>1, <1>2, <1>3, <2>1, <2>5, <3>1 DEF Apart
  <2>8. Kept'
    <3>1. ASSUME ~history.overwrote PROVE 1..written \subseteq Shown(mem') \cup Elsewhere'
      <4>1. Accepted \subseteq Shown(mem') \cup Elsewhere
        BY <1>0, <2>1, <2>2, <3>1 DEF Kept, Stays
      <4>2. Elsewhere \cup (1..written \ Accepted) \subseteq Elsewhere'
        BY <1>2 DEF Elsewhere
      <4> QED BY <4>1, <4>2
    <3>2. Shown(file') = Shown(mem')
      BY <1>0
    <3> QED BY <1>1, <1>2, <3>1, <3>2 DEF Kept, Shown
  <2> QED BY <1>2, <2>4, <2>6, <2>7, <2>8 DEF Inv
<1> QED BY <1>5, <1>6

\* The session is gone, and what is left of it comes to nothing.
LEMMA DeleteHistoryKeeps == ASSUME Inv, DeleteHistory PROVE Inv'
<1>0. /\ Held /\ Working /\ Locked /\ Applying /\ Done
      /\ UNCHANGED <<worker, initial, due, written, history>>
      /\ mem' = Gone /\ file' = Gone /\ job.kind = "delete"
  BY DEF Inv, Held, DeleteHistory, At, Loop, Work, Ghosts
<1>1. Locked' /\ Applying' /\ SameLock
  BY <1>0, LockIsDone
<1>2. Records' /\ ~Known'
  BY <1>0 DEF Records, Known
<1>3. Working'
  BY <1>0, <1>2 DEF Working
<1>4. Held' /\ Recorded'
  BY <1>0, <1>1, <1>2, <1>3 DEF Held, Inv, Recorded
<1> QED BY <1>1, <1>2, <1>4, AbsentKeeps DEF SameLock

LEMMA ForgottenKeeps ==
  ASSUME Inv, ~Known, UNCHANGED <<mem, file, job, written, history>>,
         Working', Applying', apply'.aside \in {apply.aside, <<>>}
  PROVE  Inv'
<1>1. Records' /\ Locked' /\ Recorded' /\ ~Known' /\ Accepted' = Accepted
  BY DEF Inv, Held, Records, Known, Locked, Recorded, Accepted
<1>2. Held'
  BY <1>1 DEF Held
<1> QED BY <1>1, <1>2, AbsentKeeps

LEMMA WorkerForgottenKeeps == ASSUME Inv, WorkerForgotten PROVE Inv'
<1>0. /\ Applying /\ ~Known /\ StopWorker
      /\ UNCHANGED <<mem, file, job, apply, due, written, history>>
  BY DEF Inv, Held, WorkerForgotten, Loop, Ghosts
<1>1. Working'
  BY <1>0, WorkerIsOff DEF Known
<1>2. Applying'
  BY <1>0 DEF Applying
<1> QED BY <1>0, <1>1, <1>2, ForgottenKeeps

\* A request under the lock is about a session that is known: the thread does
\* not give up while one of its own is.
LEMMA ApplyForgottenKeeps ==
  ASSUME Inv, ApplyForgotten, job.by # "apply" PROVE Inv'
<1>0. /\ Applying /\ Working /\ ~Known /\ apply' = NoApply
      /\ UNCHANGED <<mem, file, job, worker, initial, due, written, history>>
  BY DEF Inv, Held, ApplyForgotten, Loop, Work, Ghosts
<1>1. Working' /\ Applying'
  BY <1>0, ApplyIsOff DEF Working, Applying, Known
<1> QED BY <1>0, <1>1, ApplyIsOff, ForgottenKeeps

LEMMA FreedForgottenKeeps == ASSUME Inv, FreedForgotten PROVE Inv'
<1>0. /\ Applying /\ Working /\ ~Known
      /\ UNCHANGED <<mem, file, job, worker, initial, apply, due, written, history>>
  BY DEF Inv, Held, FreedForgotten, Work, Ghosts
<1>1. Working' /\ Applying'
  BY <1>0 DEF Working, Applying, Known
<1> QED BY <1>0, <1>1, ForgottenKeeps

LEMMA TakeDueForgottenKeeps == ASSUME Inv, TakeDue, ~Known PROVE Inv'
<1>0. /\ Applying /\ Working /\ ~Known /\ due' = "no"
      /\ UNCHANGED <<mem, file, job, worker, initial, apply, written, history>>
  BY DEF Inv, Held, TakeDue, Loop, Work, Ghosts
<1>1. Working' /\ Applying'
  BY <1>0 DEF Working, Applying, Known
<1> QED BY <1>0, <1>1, ForgottenKeeps

LEMMA FlushForgottenKeeps == ASSUME Inv, Flush, ~Known PROVE Inv'
<1>0. /\ Applying /\ Working /\ ~Known
      /\ UNCHANGED <<mem, file, job, worker, initial, apply, due, written, history>>
  BY DEF Inv, Held, Flush, Save, Known, Work, Ghosts
<1>1. Working' /\ Applying'
  BY <1>0 DEF Working, Applying, Known
<1> QED BY <1>0, <1>1, ForgottenKeeps

-----------------------------------------------------------------------------
(* What was sent stays apart from what waits, in the file and in the lock *)

Waiting == Range(mem.queue) \cup Range(apply.aside)

\* Neither the file nor the record that a change of model is about to write
\* back shows a message as sent that waits: they may be older than the queue.
Sent ==
  Known /\ ~history.overwrote =>
    /\ Waiting \cap file.chat = {}
    /\ job.step = "write" => Waiting \cap job.read.chat = {}

\* No request is under way for a session that is gone.
Over == ~Known => job = NoJob

IInv == Inv /\ Sent /\ Over

\* A message is sent from the queue only when the thread has let go of it.
SentInTime ==
  \A m \in Messages :
    Known /\ mem' # Gone /\ ~history.overwrote
      /\ m \in Range(mem.queue) /\ m \in mem'.chat
      => apply.step = "off" /\ mem.actions = <<>>

\* Only ModelRead reads a record to write it back.
Reads == job'.step = "write" => job' = job \/ job'.read = mem

LEMMA SentFollows ==
  ASSUME Inv, Inv', Sent, Known, Known', FileFollows,
         history.overwrote => history'.overwrote,
         file' = file => Waiting' \subseteq Waiting,
         job'.step = "write" => Waiting' \subseteq Waiting, Reads
  PROVE  Sent'
<1> SUFFICES ASSUME ~history'.overwrote PROVE Sent'
  BY DEF Sent
<1>0. Waiting \cap mem.chat = {} /\ Waiting' \cap mem'.chat = {} /\ ~history.overwrote
  BY DEF Inv, Apart, Waiting
<1>1. Waiting' \cap file'.chat = {}
  <2>1. CASE file' = file
    BY <1>0, <2>1 DEF Sent
  <2>2. CASE file' = Saved(mem')
    <3>1. file'.chat = mem'.chat
      BY <2>2, SavedGood DEF Inv, Held, Records
    <3> QED BY <1>0, <3>1
  <2> QED BY <2>1, <2>2 DEF FileFollows
<1>2. job'.step = "write" => Waiting' \cap job'.read.chat = {}
  BY <1>0 DEF Sent, Reads
<1> QED BY <1>1, <1>2 DEF Sent

LEMMA NothingSent ==
  ASSUME Inv,
         Known /\ Known' /\ ~history.overwrote => Range(mem.queue) \cap mem'.chat = {}
  PROVE  SentInTime
BY DEF SentInTime, Known

LEMMA QuietGoesOn ==
  ASSUME IInv, Held', Quiet, Reads PROVE IInv' /\ SentInTime
<1>1. Inv' /\ Inv /\ Known /\ Known' /\ FileFollows
  BY QuietKeeps DEF IInv, Quiet
<1>2. Waiting' \subseteq Waiting
  BY QueueIs DEF Quiet, Waiting, IInv, Inv
<1>3. Sent'
  BY <1>1, <1>2, SentFollows DEF IInv, Quiet, Grows
<1>4. Range(mem.queue) \cap mem'.chat = {} \/ history.overwrote
  BY <1>1 DEF Quiet, Inv, Apart
<1> QED BY <1>1, <1>3, <1>4, NothingSent DEF IInv, Over

\* Nothing is known of a session that is gone.
LEMMA GoneGoesOn ==
  ASSUME IInv, Inv', ~Known', job' = NoJob PROVE IInv' /\ SentInTime
BY DEF IInv, Sent, Over, SentInTime, Known

LEMMA SendQueuedGoesOn == ASSUME IInv, SendQueued PROVE IInv' /\ SentInTime
<1> DEFINE h == Head(mem.queue)
           c == mem.chat \cup {h}
           q == Tail(mem.queue)
           t == [mem EXCEPT !.status = "Running", !.chat = c, !.queue = q]
<1>0. /\ Inv /\ Inv' /\ Held /\ Known /\ Good(mem) /\ Sent /\ Apart /\ Applying
      /\ UNCHANGED <<job, apply, history>> /\ Reads
  BY SendQueuedKeeps DEF IInv, Inv, Held, Records, SendQueued, Loop, Ghosts, Reads
<1>1. CASE UNCHANGED <<mem, file>>
  <2>1. Sent' /\ Over' /\ mem' = mem /\ Known'
    BY <1>0, <1>1 DEF Sent, Over, Known, Waiting
  <2>2. SentInTime
    BY <1>0, <2>1, NothingSent DEF Apart
  <2> QED BY <1>0, <2>1, <2>2 DEF IInv
<1>2. CASE /\ mem.queue # <<>> /\ ~HoldsQueue(mem) /\ UpdateAndSave(t)
  <2>1. /\ mem.queue \in Seq(Messages) /\ q \in Seq(Messages) /\ h \in Messages
        /\ Range(mem.queue) = Range(q) \cup {h}
        /\ mem \in Session /\ c \in SUBSET Messages
    BY <1>0, <1>2, FieldsOf, TailIs, QueueIs
  <2> HIDE DEF c, q, h
  <2>2. t \in Session /\ t # Gone /\ t.queue = q /\ t.chat = c
    <3>1. "Running" \in {"Starting", "Running", "Idle", "Interrupted", "Failed"}
      OBVIOUS
    <3>2. t \in Session
      BY <2>1, <3>1 DEF Session
    <3> QED BY <2>1, <3>2, GoneIsNoSession DEF Session
  <2> HIDE DEF t
  <2>3. mem' = t /\ file' = Saved(mem') /\ FileFollows /\ Known'
    BY <1>2, <2>2 DEF UpdateAndSave, Save, FileFollows, Known
  <2>4. Waiting' \subseteq Waiting
    BY <1>0, <2>1, <2>2, <2>3 DEF Waiting
  <2>5. Sent' /\ Over'
    BY <1>0, <2>3, <2>4, SentFollows DEF Over
  <2>6. SentInTime
    <3>1. mem.actions = <<>> /\ ~mem.applying
      BY <1>2 DEF HoldsQueue
    <3>2. ~history.overwrote => apply.step = "off"
      BY <1>0, <3>1 DEF Apart, Holding, Applying, Applies
    <3> QED BY <3>1, <3>2 DEF SentInTime
  <2> QED BY <1>0, <2>5, <2>6 DEF IInv
<1> QED BY <1>1, <1>2 DEF SendQueued

LEMMA ConnectedGoesOn == ASSUME IInv, Connected PROVE IInv' /\ SentInTime
<1> DEFINE c == mem.chat \cup (Range(initial) \ {Continue})
           x == IF initial = <<>> THEN "Idle" ELSE "Running"
           t == [mem EXCEPT !.ready = TRUE, !.thread = TRUE, !.status = x, !.chat = c]
<1>0. /\ Inv /\ Inv' /\ Held /\ Known /\ Good(mem) /\ Sent /\ Apart
      /\ UNCHANGED <<job, apply, history>> /\ Reads /\ UpdateAndSave(t)
  BY ConnectedKeeps DEF IInv, Inv, Held, Records, Connected, Loop, Ghosts, Reads
<1>1. mem \in Session
  BY <1>0, FieldsOf
<1> HIDE DEF c, x
<1>2. t.queue = mem.queue /\ t.chat = c /\ t # Gone
  <2>1. t.queue = mem.queue /\ t.chat = c /\ "queue" \in DOMAIN t
    BY <1>1 DEF Session
  <2>2. "queue" \notin DOMAIN Gone
    BY DEF Gone
  <2> QED BY <2>1, <2>2
<1> HIDE DEF t
<1>3. mem' = t /\ FileFollows /\ Known'
  BY <1>0, <1>2 DEF UpdateAndSave, Save, FileFollows, Known
<1>4. Sent' /\ Over'
  BY <1>0, <1>2, <1>3, SentFollows DEF Over, Waiting
<1>5. SentInTime
  BY <1>0, <1>2, <1>3, NothingSent DEF Apart, c
<1> QED BY <1>0, <1>4, <1>5 DEF IInv

LEMMA TakeAsideGoesOn ==
  ASSUME IInv, TakeAside, Head(apply.todo) = "model" PROVE IInv' /\ SentInTime
<1> DEFINE t == [mem EXCEPT !.queue = <<>>]
<1>0. /\ Inv /\ Inv' /\ Held /\ Known /\ Good(mem) /\ Sent /\ Apart
      /\ UNCHANGED <<job, history>> /\ Reads /\ Update(t) /\ Applying
      /\ apply' = [apply EXCEPT !.step = "ask", !.aside = mem.queue]
  BY TakeAsideKeeps DEF IInv, Inv, Held, Records, TakeAside, Loop, Ghosts, Reads
<1>1. t.queue = <<>> /\ t.chat = mem.chat /\ t # Gone /\ apply'.aside = mem.queue
  <2>1. /\ t.queue = <<>> /\ t.chat = mem.chat /\ "queue" \in DOMAIN t
    BY <1>0, FieldsOf DEF Session
  <2>2. "queue" \notin DOMAIN Gone
    BY DEF Gone
  <2> QED BY <1>0, <2>1, <2>2 DEF Applying, Applies
<1> HIDE DEF t
<1>2. mem' = t /\ FileFollows /\ Known'
  BY <1>0, <1>1 DEF Update, FileFollows, Known
<1>3. Waiting' \subseteq Waiting
  BY <1>0, <1>1, <1>2, QueueIs DEF Waiting
<1>4. Sent' /\ Over'
  BY <1>0, <1>2, <1>3, SentFollows DEF Over
<1>5. SentInTime
  BY <1>0, <1>1, <1>2, NothingSent DEF Apart
<1> QED BY <1>0, <1>4, <1>5 DEF IInv

LEMMA AppliedGoesOn == ASSUME IInv, Applied PROVE IInv' /\ SentInTime
<1> DEFINE t == PutBack(mem)
<1>0. /\ Inv /\ Inv' /\ Held /\ Known /\ Good(mem) /\ Sent /\ Apart
      /\ UNCHANGED <<job, history>> /\ Reads /\ UpdateAndSave(t) /\ Applying
      /\ apply' = [apply EXCEPT !.step = "next", !.todo = Tail(@), !.aside = <<>>]
  BY AppliedKeeps DEF IInv, Inv, Held, Records, Applied, Loop, Ghosts, Reads
<1>1. apply.aside \in Seq(Messages) /\ mem.queue \in Seq(Messages)
      /\ Range(<<>>) = {}
  BY <1>0, QueueIs
<1>2. /\ t.queue = apply.aside \o mem.queue /\ t.chat = mem.chat /\ t # Gone
  <2>1. apply.aside \o mem.queue \in Seq(Messages)
    BY <1>1
  <2> QED BY <1>0, <2>1, QueueGood, FieldsOf DEF PutBack
<1> HIDE DEF t
<1>3. mem' = t /\ FileFollows /\ Known'
  BY <1>0, <1>2 DEF UpdateAndSave, Save, FileFollows, Known
<1>4. apply'.aside = <<>>
  BY <1>0 DEF Applying, Applies
<1>5. Waiting' \subseteq Waiting
  <2>1. Range(apply.aside \o mem.queue) = Range(apply.aside) \cup Range(mem.queue)
    BY <1>1, ConcatIs
  <2> QED BY <1>1, <1>2, <1>3, <1>4, <2>1 DEF Waiting
<1>6. Sent' /\ Over'
  BY <1>0, <1>3, <1>5, SentFollows DEF Over
<1>7. SentInTime
  BY <1>0, <1>2, <1>3, NothingSent DEF Apart
<1> QED BY <1>0, <1>6, <1>7 DEF IInv

\* A request that is done writes the record, if it changes it.
LEMMA DoneGoesOn ==
  ASSUME IInv, Inv', Known, Known', Done, history.overwrote => history'.overwrote,
         \/ file' = Saved(mem')
         \/ UNCHANGED <<mem, file>> /\ apply'.aside = apply.aside,
         Known /\ Known' /\ ~history.overwrote => Range(mem.queue) \cap mem'.chat = {}
  PROVE  IInv' /\ SentInTime
<1>1. job'.step # "write" /\ Reads
  BY DEF Done, NoJob, Reads
<1>2. /\ FileFollows
      /\ \/ file' = Saved(mem')
         \/ Waiting' = Waiting
  BY DEF FileFollows, Waiting
<1>3. Sent'
  <2>1. CASE Waiting' = Waiting
    BY <1>1, <1>2, <2>1, SentFollows DEF IInv
  <2>2. CASE file' = Saved(mem')
    <3>1. file'.chat = mem'.chat
      BY <2>2, SavedGood DEF Inv, Held, Records
    <3> QED BY <1>1, <3>1 DEF Sent, Inv, Apart, Waiting
  <2> QED BY <1>2, <2>1, <2>2
<1> QED BY <1>3, NothingSent DEF IInv, Over

\* A message is accepted: it has not been waiting.
LEMMA MessageQueuedGoesOn == ASSUME IInv, MessageQueued PROVE IInv' /\ SentInTime
<1> DEFINE q == Append(mem.queue, written)
           t == [mem EXCEPT !.queue = q]
<1>0. /\ Inv /\ Inv' /\ Known /\ Good(mem) /\ Apart /\ Done /\ UpdateAndSave(t)
      /\ UNCHANGED history
  BY MessageQueuedKeeps
     DEF IInv, Inv, Held, Records, MessageQueued, At, Queued, Ghosts
<1>1. written \in Messages
  BY Accepts DEF IInv, Inv, Held, MessageQueued, At, Loop, Ghosts
<1>2. /\ Good(t) /\ t.chat = mem.chat
  <2>1. mem.queue \in Seq(Messages)
    BY <1>0, FieldsOf
  <2>2. q \in Seq(Messages)
    BY <1>1, <2>1, AppendIs
  <2> HIDE DEF q
  <2> QED BY <1>0, <2>2, QueueGood
<1> HIDE DEF t
<1>3. mem' = t /\ file' = Saved(mem') /\ Known'
  BY <1>0, <1>2, SavedOrNot, FieldsOf DEF Known
<1> QED BY <1>0, <1>2, <1>3, DoneGoesOn DEF Apart

LEMMA MessageSentGoesOn == ASSUME IInv, MessageSent PROVE IInv' /\ SentInTime
<1>0. /\ Inv /\ Inv' /\ Known /\ Good(mem) /\ Apart /\ Line /\ Done
  BY MessageSentKeeps DEF IInv, Inv, Held, Records, MessageSent, At
<1>1. /\ written \in Messages /\ written \notin Accepted
      /\ apply'.aside = apply.aside
  BY Accepts DEF IInv, Inv, Held, MessageSent, At, Loop
<1>2. CASE UpdateAndSave(Queued(mem)) /\ UNCHANGED history
  <2> DEFINE q == Append(mem.queue, written)
             t == [mem EXCEPT !.queue = q]
  <2>1. q \in Seq(Messages)
    BY <1>0, <1>1, FieldsOf, AppendIs
  <2>2. UpdateAndSave(t)
    BY <1>2 DEF Queued
  <2> HIDE DEF q
  <2>3. Good(t) /\ t.chat = mem.chat
    BY <1>0, <2>1, QueueGood
  <2> HIDE DEF t
  <2>4. mem' = t /\ file' = Saved(mem') /\ Known'
    BY <2>2, <2>3, SavedOrNot, FieldsOf DEF Known
  <2> QED BY <1>0, <1>2, <2>3, <2>4, DoneGoesOn DEF Apart
<1>3. ASSUME NEW x \in {"Starting", "Running"}, UNCHANGED history,
             UpdateAndSave([mem EXCEPT !.chat = @ \cup {written}, !.status = x])
      PROVE  IInv' /\ SentInTime
  <2> DEFINE c == mem.chat \cup {written}
             t == [mem EXCEPT !.chat = c, !.status = x]
  <2>1. mem \in Session /\ c \in SUBSET Messages /\ UpdateAndSave(t)
    BY <1>0, <1>1, <1>3, FieldsOf
  <2> HIDE DEF c
  <2>2. t \in Session
    BY <2>1 DEF Session
  <2>3. t.chat = c /\ t # Gone
    BY <2>1, <2>2, GoneIsNoSession DEF Session
  <2> HIDE DEF t
  <2>4. mem' = t /\ file' = Saved(mem') /\ Known'
    BY <2>1, <2>3 DEF UpdateAndSave, Save, Known
  <2>5. ~history.overwrote => Range(mem.queue) \cap mem'.chat = {}
    BY <1>0, <1>1, <2>3, <2>4 DEF Apart, Line, c
  <2> QED BY <1>0, <1>3, <2>4, <2>5, DoneGoesOn
<1>4. CASE /\ UNCHANGED <<mem, file>>
           /\ history' = [history EXCEPT !.refused = @ \cup {written}]
  <2>1. history.overwrote => history'.overwrote
    BY <1>0, <1>4 DEF Inv, Recorded, Histories
  <2> QED BY <1>0, <1>1, <1>4, <2>1, DoneGoesOn DEF Apart, Known
<1> QED BY <1>2, <1>3, <1>4 DEF MessageSent

LEMMA ClearedGoesOn ==
  ASSUME IInv, Inv', Known, Done,
         NEW t, Good(t), t.chat = {}, UpdateAndSave(t),
         history' = [history EXCEPT !.cleared = @ \cup Shown(mem)]
  PROVE  IInv' /\ SentInTime
<1>1. mem' = t /\ file' = Saved(mem') /\ Known'
  BY SavedOrNot, FieldsOf DEF Known
<1>2. history.overwrote => history'.overwrote
  BY DEF IInv, Inv, Recorded, Histories
<1> QED BY <1>1, <1>2, DoneGoesOn

LEMMA ResetGoesOn ==
  ASSUME IInv, Reset, job.kind = "clear" PROVE IInv' /\ SentInTime
<1> DEFINE t == ClearConversation(ResetWorkspace(mem))
<1>0. /\ Inv' /\ Known /\ Good(mem) /\ Done /\ UpdateAndSave(t)
      /\ history' = [history EXCEPT !.cleared = @ \cup Shown(mem)]
  BY ClearedKeeps DEF IInv, Inv, Held, Records, Reset
<1>1. Good(t) /\ t.chat = {}
  BY <1>0, ClearedGood
<1> HIDE DEF t
<1> QED BY <1>0, <1>1, ClearedGoesOn

LEMMA ClearFailsLateGoesOn ==
  ASSUME IInv, ClearFailsLate PROVE IInv' /\ SentInTime
<1> DEFINE u == [ClearConversation(ResetWorkspace(mem)) EXCEPT !.clearing = FALSE]
<1>0. /\ Inv' /\ Known /\ Good(mem) /\ Done /\ UpdateAndSave(u)
      /\ history' = [history EXCEPT !.cleared = @ \cup Shown(mem)]
  BY ClearFailsLateKeeps DEF IInv, Inv, Held, Records, ClearFailsLate, At
<1>1. Good(u) /\ u.chat = {}
  BY <1>0, ClearedGood
<1> HIDE DEF u
<1> QED BY <1>0, <1>1, ClearedGoesOn

\* What a change of model writes back shows none of the messages that wait.
LEMMA ModelWrittenGoesOn == ASSUME IInv, ModelWritten PROVE IInv' /\ SentInTime
<1> DEFINE t == [job.read EXCEPT !.status = "Idle", !.thread = FALSE]
<1>0. /\ Inv /\ Inv' /\ Known /\ Done /\ UpdateAndSave(t) /\ Sent
      /\ job.step = "write" /\ job.read \in Session
  BY ModelWrittenKeeps, FieldsOf
     DEF IInv, Inv, Held, Locked, ModelWritten, At
<1>1. t.chat = job.read.chat /\ t # Gone
  <2>1. t.chat = job.read.chat /\ "queue" \in DOMAIN t
    BY <1>0 DEF Session
  <2>2. "queue" \notin DOMAIN Gone
    BY DEF Gone
  <2> QED BY <2>1, <2>2
<1> HIDE DEF t
<1>2. mem' = t /\ file' = Saved(mem') /\ Known'
  BY <1>0, <1>1 DEF UpdateAndSave, Save, Known
<1>3. history.overwrote => history'.overwrote
  <2>1. history' = history \/ history' = [history EXCEPT !.overwrote = TRUE]
    BY DEF ModelWritten
  <2>2. history \in Histories
    BY <1>0 DEF Inv, Recorded
  <2> QED BY <2>1, <2>2 DEF Histories
<1>4. ~history.overwrote => Range(mem.queue) \cap mem'.chat = {}
  BY <1>0, <1>1, <1>2 DEF Sent, Waiting
<1> QED BY <1>0, <1>2, <1>3, <1>4, DoneGoesOn

\* Nor does what a restart goes back to.
LEMMA RestartGoesOn == ASSUME IInv, Restart PROVE IInv' /\ SentInTime
<1>0. /\ Inv /\ Inv' /\ Sent /\ Records /\ job' = NoJob /\ file' = mem'
      /\ apply'.aside = <<>> /\ Recorded
  BY RestartKeeps, ApplyIsOff DEF IInv, Inv, Held, Restart
<1>1. history'.overwrote = history.overwrote
  BY <1>0 DEF Restart, Recorded, Histories
<1>2. CASE file = Gone
  <2>1. ~Known'
    BY <1>2 DEF Restart, Known
  <2> QED BY <1>0, <2>1, GoneGoesOn
<1>3. CASE file # Gone
  <2>1. Known /\ Known' /\ mem'.chat = file.chat
    BY <1>0, <1>3, AfterRestartGood, FieldsOf DEF Records, Restart, Stays, Known
  <2>2. SentInTime
    BY <1>0, <2>1, NothingSent DEF Sent, Waiting
  <2>3. ~history'.overwrote => Waiting' \cap file'.chat = {}
    BY <1>0, <2>1 DEF Inv, Apart, Waiting
  <2>4. Sent'
    BY <1>0, <2>3 DEF Sent, NoJob
  <2> QED BY <1>0, <2>1, <2>2, <2>4 DEF IInv, Over
<1> QED BY <1>2, <1>3

-----------------------------------------------------------------------------
(* Every step *)

\* Who has the lock keeps what it has read.
LEMMA LockReads ==
  ASSUME Inv,
         \/ UNCHANGED job
         \/ Done
         \/ \E x \in Steps \ {"write"} : Step(x)
         \/ \E by \in {"user", "apply"},
               kind \in Kinds \cup {"delete", "message"} : Begin(by, kind)
         \/ job' = [job EXCEPT !.step = "write", !.read = mem]
  PROVE  Reads
<1>0. Locked
  BY DEF Inv, Held
<1>1. CASE \E x \in Steps \ {"write"} : Step(x)
  BY <1>0, <1>1 DEF Reads, Step, Locked
<1>2. CASE \E by \in {"user", "apply"},
              kind \in Kinds \cup {"delete", "message"} : Begin(by, kind)
  BY <1>0, <1>2, LockBegins DEF Reads
<1>3. CASE job' = [job EXCEPT !.step = "write", !.read = mem]
  BY <1>0, <1>3 DEF Reads, Locked
<1>4. CASE UNCHANGED job \/ Done
  BY <1>4 DEF Reads, Done, NoJob
<1> QED BY <1>1, <1>2, <1>3, <1>4

\* The worker's steps.
LEMMA RunKeeps == ASSUME IInv, Run PROVE IInv' /\ SentInTime
<1>0. Inv
  BY DEF IInv
<1>1. CASE Prepared
  <2>1. Reads
    BY <1>0, <1>1, LockReads DEF Prepared
  <2> QED BY <1>0, <1>1, <2>1, PreparedQuiet, QuietGoesOn
<1>2. CASE FirstMessage
  <2>1. Reads
    BY <1>0, <1>2, LockReads DEF FirstMessage
  <2> QED BY <1>0, <1>2, <2>1, FirstMessageQuiet, QuietGoesOn
<1>3. CASE Connected
  BY <1>3, ConnectedGoesOn
<1>4. CASE ConnectFails
  <2>1. Reads
    BY <1>0, <1>4, LockReads DEF ConnectFails
  <2> QED BY <1>0, <1>4, <2>1, ConnectFailsQuiet, QuietGoesOn
<1>5. CASE WorkerForgotten
  <2>1. ~Known' /\ job' = NoJob
    BY <1>5 DEF WorkerForgotten, Known, IInv, Over
  <2> QED BY <1>0, <1>5, <2>1, WorkerForgottenKeeps, GoneGoesOn
<1>6. CASE SendQueued
  BY <1>6, SendQueuedGoesOn
<1>7. ASSUME NEW status \in {"Idle", "Interrupted", "Failed"}, EndTurn(status)
      PROVE  IInv' /\ SentInTime
  <2>1. Reads
    BY <1>0, <1>7, LockReads DEF EndTurn
  <2> QED BY <1>0, <1>7, <2>1, EndTurnQuiet, QuietGoesOn
<1> QED BY <1>1, <1>2, <1>3, <1>4, <1>5, <1>6, <1>7 DEF Run

\* The steps of a request under the lock.
LEMMA HandleKeeps == ASSUME IInv, Handle PROVE IInv' /\ SentInTime
<1>0. Inv /\ {"queue", "send", "read", "stop", "discard", "reset", "worktree",
              "media", "history"} \subseteq Steps \ {"write"}
  BY DEF IInv, Steps
<1>1. ASSUME NEW queue \in BOOLEAN, MessageRead(queue) PROVE IInv' /\ SentInTime
  <2>1. Reads
    BY <1>0, <1>1, LockReads DEF MessageRead
  <2> QED BY <1>0, <1>1, <2>1, MessageReadQuiet, QuietGoesOn
<1>2. CASE MessageQueued
  BY <1>2, MessageQueuedGoesOn
<1>3. CASE MessageSent
  BY <1>3, MessageSentGoesOn
<1>4. CASE ModelChecked
  <2>1. Reads
    BY <1>0, <1>4, LockReads DEF ModelChecked
  <2> QED BY <1>0, <1>4, <2>1, ModelCheckedQuiet, QuietGoesOn
<1>5. CASE ModelRead
  <2>1. Reads
    BY <1>0, <1>5, LockReads DEF ModelRead
  <2> QED BY <1>0, <1>5, <2>1, ModelReadQuiet, QuietGoesOn
<1>6. CASE ModelWritten
  BY <1>6, ModelWrittenGoesOn
<1>7. CASE Marked
  <2>1. Reads
    BY <1>0, <1>7, LockReads DEF Marked
  <2> QED BY <1>0, <1>7, <2>1, MarkedQuiet, QuietGoesOn
<1>8. CASE Stopped
  <2>1. Reads
    BY <1>0, <1>8, LockReads DEF Stopped
  <2> QED BY <1>0, <1>8, <2>1, StoppedQuiet, QuietGoesOn
<1>9. CASE Discarded
  <2>1. Reads
    BY <1>0, <1>9, LockReads DEF Discarded
  <2> QED BY <1>0, <1>9, <2>1, DiscardedQuiet, QuietGoesOn
<1>10. CASE Reset /\ job.kind = "clear"
  BY <1>10, ResetGoesOn
<1>11. CASE Reset /\ job.kind # "clear"
  <2>1. Reads
    BY <1>0, <1>11, LockReads DEF Reset
  <2> QED BY <1>0, <1>11, <2>1, RepositoryQuiet, QuietGoesOn
<1>12. CASE DeleteMarked
  <2>1. Reads
    BY <1>0, <1>12, LockReads DEF DeleteMarked
  <2> QED BY <1>0, <1>12, <2>1, DeleteMarkedQuiet, QuietGoesOn
<1>13. CASE DeleteStopped
  <2>1. Reads
    BY <1>0, <1>13, LockReads DEF DeleteStopped
  <2> QED BY <1>0, <1>13, <2>1, DeleteStoppedQuiet, QuietGoesOn
<1>14. CASE DeleteWorktree
  <2>1. Reads
    BY <1>0, <1>14, LockReads DEF DeleteWorktree
  <2> QED BY <1>0, <1>14, <2>1, DeleteWorktreeQuiet, QuietGoesOn
<1>15. CASE DeleteMedia
  <2>1. Reads
    BY <1>0, <1>15, LockReads DEF DeleteMedia
  <2> QED BY <1>0, <1>15, <2>1, DeleteMediaQuiet, QuietGoesOn
<1>16. CASE DeleteHistory
  <2>1. ~Known' /\ job' = NoJob
    BY <1>16 DEF DeleteHistory, Known, Done
  <2> QED BY <1>0, <1>16, <2>1, DeleteHistoryKeeps, GoneGoesOn
<1> QED BY <1>1, <1>2, <1>3, <1>4, <1>5, <1>6, <1>7, <1>8, <1>9, <1>10, <1>11,
           <1>12, <1>13, <1>14, <1>15, <1>16 DEF Handle

\* The steps of the thread that applies scheduled actions.
LEMMA ApplyKeeps == ASSUME IInv, Apply PROVE IInv' /\ SentInTime
<1>0. Inv
  BY DEF IInv
<1>1. CASE TakeAside /\ Head(apply.todo) = "model"
  BY <1>1, TakeAsideGoesOn
<1>2. CASE TakeAside /\ Head(apply.todo) # "model"
  <2>1. Reads
    BY <1>0, <1>2, LockReads DEF TakeAside
  <2> QED BY <1>0, <1>2, <2>1, AskNextQuiet, QuietGoesOn
<1>3. CASE AskScheduled
  <2>1. Head(apply.todo) \in Kinds \cup {"delete", "message"}
    BY <1>0, <1>3 DEF AskScheduled, Inv, Held, Applying, Applies
  <2>2. Begin("apply", Head(apply.todo))
    BY <1>3 DEF AskScheduled
  <2>3. Reads
    BY <1>0, <2>1, <2>2, LockReads
  <2> QED BY <1>0, <1>3, <2>3, AskScheduledQuiet, QuietGoesOn
<1>4. CASE Applied
  BY <1>4, AppliedGoesOn
<1>5. CASE Release
  <2>1. Reads
    BY <1>0, <1>5, LockReads DEF Release
  <2> QED BY <1>0, <1>5, <2>1, ReleaseQuiet, QuietGoesOn
<1>6. CASE ApplyForgotten
  <2>1. ~Known' /\ job' = NoJob /\ job.by # "apply"
    BY <1>6 DEF ApplyForgotten, Known, IInv, Over, NoJob
  <2> QED BY <1>0, <1>6, <2>1, ApplyForgottenKeeps, GoneGoesOn
<1> QED BY <1>1, <1>2, <1>3, <1>4, <1>5, <1>6 DEF Apply

\* What it does when it has let go of the queue.
LEMMA FreedKeeps == ASSUME IInv, Freed PROVE IInv' /\ SentInTime
<1>0. Inv
  BY DEF IInv
<1>1. CASE LookAtQueue
  <2>1. Reads
    BY <1>0, <1>1, LockReads DEF LookAtQueue
  <2> QED BY <1>0, <1>1, <2>1, LookAtQueueQuiet, QuietGoesOn
<1>2. CASE Nudge
  <2>1. Reads
    BY <1>0, <1>2, LockReads DEF Nudge
  <2> QED BY <1>0, <1>2, <2>1, NudgeQuiet, QuietGoesOn
<1>3. CASE FreedForgotten
  <2>1. ~Known' /\ job' = NoJob
    BY <1>3 DEF FreedForgotten, Known, IInv, Over
  <2> QED BY <1>0, <1>3, <2>1, FreedForgottenKeeps, GoneGoesOn
<1> QED BY <1>1, <1>2, <1>3 DEF Freed

\* Steps that fail.
LEMMA FailKeeps == ASSUME IInv, Fail PROVE IInv' /\ SentInTime
<1>0. Inv
  BY DEF IInv
<1>1. CASE PrepareFails
  <2>1. Reads
    BY <1>0, <1>1, LockReads DEF PrepareFails
  <2> QED BY <1>0, <1>1, <2>1, PrepareFailsQuiet, QuietGoesOn
<1>2. CASE ClearFails
  <2>1. Reads
    BY <1>0, <1>2, LockReads DEF ClearFails
  <2> QED BY <1>0, <1>2, <2>1, ClearFailsQuiet, QuietGoesOn
<1>3. CASE RepositoryFails
  <2>1. Reads
    BY <1>0, <1>3, LockReads DEF RepositoryFails
  <2> QED BY <1>0, <1>3, <2>1, RepositoryFailsQuiet, QuietGoesOn
<1>4. CASE DeleteFails
  <2>1. Reads
    BY <1>0, <1>4, LockReads DEF DeleteFails
  <2> QED BY <1>0, <1>4, <2>1, DeleteFailsQuiet, QuietGoesOn
<1>5. CASE LoopFails
  <2>1. Reads
    BY <1>0, <1>5, LockReads DEF LoopFails
  <2> QED BY <1>0, <1>5, <2>1, LoopFailsQuiet, QuietGoesOn
<1>6. CASE ClearFailsLate
  BY <1>6, ClearFailsLateGoesOn
<1> QED BY <1>1, <1>2, <1>3, <1>4, <1>5, <1>6 DEF Fail

\* The main loop, and those who ask.
LEMMA LoopKeeps ==
  ASSUME IInv, SeeDue \/ TakeDue \/ ListSessions \/ Flush PROVE IInv' /\ SentInTime
<1>0. Inv
  BY DEF IInv
<1>1. CASE SeeDue
  <2>1. Reads
    BY <1>0, <1>1, LockReads DEF SeeDue
  <2> QED BY <1>0, <1>1, <2>1, SeeDueQuiet, QuietGoesOn
<1>2. CASE TakeDue /\ Known
  <2>1. Reads
    BY <1>0, <1>2, LockReads DEF TakeDue
  <2> QED BY <1>0, <1>2, <2>1, TakeDueQuiet, QuietGoesOn
<1>3. CASE TakeDue /\ ~Known
  <2>1. ~Known' /\ job' = NoJob
    BY <1>3 DEF TakeDue, Known, IInv, Over
  <2> QED BY <1>0, <1>3, <2>1, TakeDueForgottenKeeps, GoneGoesOn
<1>4. CASE ListSessions
  <2>1. Reads
    BY <1>0, <1>4, LockReads DEF ListSessions
  <2> QED BY <1>0, <1>4, <2>1, ListSessionsQuiet, QuietGoesOn
<1>5. CASE Flush /\ Known
  <2>1. Reads
    BY <1>0, <1>5, LockReads DEF Flush
  <2> QED BY <1>0, <1>5, <2>1, FlushQuiet, QuietGoesOn
<1>6. CASE Flush /\ ~Known
  <2>1. ~Known' /\ job' = NoJob
    BY <1>6 DEF Flush, Known, IInv, Over
  <2> QED BY <1>0, <1>6, <2>1, FlushForgottenKeeps, GoneGoesOn
<1> QED BY <1>1, <1>2, <1>3, <1>4, <1>5, <1>6

LEMMA UserKeeps ==
  ASSUME IInv,
         \/ Write
         \/ \E kind \in Requests : Ask(kind)
         \/ \E kind \in Tools : AgentSchedules(kind)
  PROVE  IInv' /\ SentInTime
<1>0. Inv
  BY DEF IInv
<1>1. CASE Write
  <2>1. Reads
    BY <1>0, <1>1, LockReads DEF Write
  <2> QED BY <1>0, <1>1, <2>1, WriteQuiet, QuietGoesOn
<1>2. ASSUME NEW kind \in Requests, Ask(kind) PROVE IInv' /\ SentInTime
  <2>1. kind \in Kinds \cup {"delete", "message"}
    BY SessionActionsAssumption
  <2>2. Reads
    BY <1>0, <1>2, <2>1, LockReads DEF Ask
  <2> QED BY <1>0, <1>2, <2>2, AskQuiet, QuietGoesOn
<1>3. ASSUME NEW kind \in Tools, AgentSchedules(kind) PROVE IInv' /\ SentInTime
  <2>1. Reads
    BY <1>0, <1>3, LockReads DEF AgentSchedules
  <2> QED BY <1>0, <1>3, <2>1, AgentSchedulesQuiet, QuietGoesOn
<1> QED BY <1>1, <1>2, <1>3

LEMMA StutterKeeps == ASSUME IInv, UNCHANGED vars PROVE IInv' /\ SentInTime
<1>0. /\ Inv /\ UNCHANGED <<mem, file, worker, initial, job, apply, due, written, history>>
  BY DEF IInv, vars
<1>1. Inv'
  BY <1>0 DEF Inv, Held, Records, Working, Locked, Applying, Line, Apart, Kept,
              Recorded, Known, Accepted, Holding, Elsewhere, Shown, Active,
              Preparing
<1>2. Sent' /\ Over'
  BY <1>0 DEF IInv, Sent, Over, Known, Waiting
<1>3. SentInTime
  BY <1>0, NothingSent DEF Inv, Apart
<1> QED BY <1>1, <1>2, <1>3 DEF IInv

LEMMA NextKeeps == ASSUME IInv, [Next]_vars PROVE IInv' /\ SentInTime
BY RunKeeps, HandleKeeps, ApplyKeeps, FreedKeeps, FailKeeps, RestartGoesOn, LoopKeeps,
   UserKeeps, StutterKeeps DEF Next

LEMMA InitHolds == ASSUME Init PROVE IInv
<1>1. /\ mem = NewSession /\ file = NewSession /\ worker = "engine"
      /\ initial = <<>> /\ job = NoJob /\ apply = NoApply /\ due = "no"
      /\ written = 0
      /\ history = [cleared |-> {}, lost |-> {}, refused |-> {}, stranded |-> {},
                    overwrote |-> FALSE, raced |-> FALSE]
  BY DEF Init
<1>2. /\ <<>> \in Seq(Messages) /\ <<>> \in Seq(Kinds)
      /\ <<>> \in Seq(Messages \cup {Continue}) /\ Range(<<>>) = {}
  BY DEF Range
<1>3. NewSession \in Session
  BY <1>2 DEF NewSession, Session, Stages
<1>4. /\ NewSession.queue = <<>> /\ NewSession.chat = {} /\ NewSession.unsent = {}
      /\ NewSession.actions = <<>>
  BY DEF NewSession
<1>5. Good(NewSession) /\ NewSession # Gone
  BY <1>2, <1>3, <1>4, GoneIsNoSession DEF Good
<1>6. Records /\ Working /\ Known
  BY <1>1, <1>2, <1>5 DEF Records, Working, Worker, Known
<1>7. Locked
  BY <1>1, SessionActionsAssumption DEF Locked, NoJob, Steps
<1>8. Applying
  BY <1>1, ApplyIsOff DEF Applying, NoJob
<1>9. Accepted = {}
  BY <1>1 DEF Accepted
<1>10. Line /\ Apart /\ Kept
  BY <1>1, <1>2, <1>4, <1>9, ApplyIsOff
     DEF Line, Apart, Kept, Ascending, Holding, Shown
<1>11. Recorded
  BY <1>1 DEF Recorded, Histories
<1>12. Sent /\ Over
  BY <1>1, <1>6, <1>4 DEF Sent, Over, NoJob
<1> QED BY <1>6, <1>7, <1>8, <1>10, <1>11, <1>12 DEF IInv, Inv, Held

-----------------------------------------------------------------------------
(* Theorems *)

\* The invariant holds of every state: what each party holds, the order of the
\* line, what was sent apart from what waits, and every message accounted for.
THEOREM InvHolds == Spec => []IInv
<1>1. Init => IInv
  BY InitHolds
<1>2. IInv /\ [Next]_vars => IInv'
  BY NextKeeps
<1> QED BY <1>1, <1>2, PTL DEF Spec

\* Messages in order are no more than there are.
LEMMA LineIsShort ==
  ASSUME NEW q \in Seq(Messages), Ascending(q) PROVE Prompts(q)
<1>1. Range(q) \subseteq Messages
  BY DEF Range
<1>2. Len(q) <= MaxMessages
  BY SessionActionsAssumption, AscendingIsShort DEF Messages
<1> QED BY <1>1, <1>2 DEF Prompts

LEMMA SessionIsOK ==
  ASSUME NEW s, Good(s), Ascending(s.queue) PROVE SessionOK(s)
<1>1. Prompts(s.queue)
  BY FieldsOf, LineIsShort
<1>2. {s.thread, s.ready, s.applying, s.clearing} \subseteq BOOLEAN
  BY FieldsOf
<1> QED BY <1>1, <1>2, FieldsOf DEF SessionOK

\* Types; a turn runs in a worker, and so does a session that starts unless it
\* has yet to be prepared; the thread waits for an answer just as long as a
\* request of its own is under way.
THEOREM TypeCorrect == Spec => []TypeOK
<1>1. ASSUME IInv PROVE TypeOK
  <2>0. Inv /\ Held /\ Records /\ Working /\ Locked /\ Applying /\ Line
    BY <1>1 DEF IInv, Inv, Held
  <2>1. Known => SessionOK(mem)
    BY <2>0, SessionIsOK DEF Records, Line
  <2>2. file # Gone => SessionOK(file)
    BY <2>0, SessionIsOK DEF Records, Line
  <2>3. Range(initial) \subseteq Messages \cup {Continue}
    BY <2>0 DEF Working, Range
  <2>4. Prompts(apply.aside)
    BY <2>0, LineIsShort DEF Applying, Applies, Line
  <2> QED BY <2>0, <2>1, <2>2, <2>3, <2>4 DEF TypeOK, Working, Applying
<1> QED BY <1>1, InvHolds, PTL

\* A deleted session stays deleted: the flush that had listed it, its worker
\* and the thread that applies its actions find it gone and write nothing.
THEOREM DeletedForGood == Spec => []DeletedStaysDeleted
<1>1. IInv => DeletedStaysDeleted
  BY DEF IInv, Inv, Held, Records, DeletedStaysDeleted
<1> QED BY <1>1, InvHolds, PTL

\* An accepted message is shown or held aside, or it was cleared, lost with the
\* service or refused, unless a change of model wrote back an older record.
THEOREM MessagesAreKept == Spec => []NothingVanishes
<1>1. IInv => NothingVanishes
  BY DEF IInv, Inv, Kept, Elsewhere, NothingVanishes
<1> QED BY <1>1, InvHolds, PTL

\* The queue and what was taken out of it for a change of model stay in the
\* order the messages were written, whatever is put back, sent and queued.
THEOREM OrderIsKept == Spec => []InOrder
<1>1. ASSUME IInv PROVE InOrder
  <2> SUFFICES ASSUME Known PROVE Ascending(apply.aside \o mem.queue)
    BY DEF InOrder, Ascending
  <2>0. Held /\ Line
    BY <1>1 DEF IInv, Inv
  <2>1. /\ apply.aside \in Seq(Messages) /\ mem.queue \in Seq(Messages)
        /\ Messages \in SUBSET Int
    BY <2>0, QueueIs
  <2> QED BY <2>0, <2>1, AscendingConcat DEF Line
<1> QED BY <1>1, InvHolds, PTL

\* A queued message is sent only when the thread that applies scheduled actions
\* has let go of the queue, even when a turn, a restart or a record written
\* back comes between.
THEOREM QueueIsHeld == Spec => HeldUntilApplied
<1>1. IInv /\ [Next]_vars => [SentInTime]_vars
  BY NextKeeps
<1>2. Spec => [][SentInTime]_vars
  BY <1>1, InvHolds, PTL DEF Spec
<1> QED BY <1>2, Zenon DEF HeldUntilApplied, SentInTime
=============================================================================
