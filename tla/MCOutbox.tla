------------------------------ MODULE MCOutbox ------------------------------
(***************************************************************************)
(* Outbox with the messages and texts of its runs: two messages to one     *)
(* session, and a third to the same one or to another.                     *)
(***************************************************************************)
EXTENDS Outbox, TLC

CONSTANTS m1, m2, m3, s1, s2

ToOne == [m \in Messages |-> s1]
ToTwo == [m \in Messages |-> IF m = m3 THEN s2 ELSE s1]

\* Every text tells its message.
OwnText == [m \in Messages |-> <<"typed", m>>]
NewText == [m \in Messages |-> <<"edited", m>>]

\* A user may well write the same twice ("continue").
SameText == [m \in Messages |-> <<"typed", "again">>]

\* Messages to one session are interchangeable.
Symmetry == Permutations(Messages)

\* A request left on a closed connection matters while one may still arrive,
\* a worker that only has to notice its new link does not matter.
Seen ==
  <<linkVars, gen, callerVars, made, open, drops, got, sessions, list, faults,
    IF "late" \in Fault \ faults /\ Cardinality(faults) < MaxFaults
    THEN wire ELSE {r \in wire : r.conn \in open},
    [g \in Gens |->
       IF g < gen /\ worker[g].pc \in {"off", "on", "flush", "settle"}
       THEN Ended ELSE worker[g]]>>
=============================================================================
