-------------------------- MODULE MessageDelivery --------------------------
(***************************************************************************)
(* What a user may rely on for a message given to the agent service, with  *)
(* no word about workers, files or restarts.  The service holds a message  *)
(* until it writes it to the provider, once, or gives it up.  A message it *)
(* has given up is never written afterwards: its text can be sent again    *)
(* without the agent reading it twice.                                     *)
(***************************************************************************)
EXTENDS Naturals

CONSTANT Msg

VARIABLES
  fate,   \* where each message is in its life
  sent    \* how often it was written to the provider

vars == <<fate, sent>>

Fate == {"new", "held", "sent", "dropped"}

Init ==
  /\ fate \in [Msg -> {"new", "held"}]
  /\ sent = [m \in Msg |-> 0]

Submit(m) ==
  /\ fate[m] = "new"
  /\ fate' = [fate EXCEPT ![m] = "held"]
  /\ UNCHANGED sent

Dropped(M) == [m \in Msg |-> IF m \in M THEN "dropped" ELSE fate[m]]

\* The file may be the last to hold messages that were given up: the save that
\* precedes a request lets go of those of M.
Send(m, M) ==
  /\ \A x \in M \cup {m} : fate[x] = "held"
  /\ fate' = [Dropped(M) EXCEPT ![m] = "sent"]
  /\ sent' = [sent EXCEPT ![m] = 1]

\* Several messages are given up at once when a worker ends or a user
\* interrupts.
Drop(M) ==
  /\ \A m \in M : fate[m] = "held"
  /\ fate' = Dropped(M)
  /\ UNCHANGED sent

Next ==
  \/ \E m \in Msg : Submit(m)
  \/ \E M \in SUBSET Msg :
       Drop(M) \/ \E m \in Msg : Send(m, M)

Spec == Init /\ [][Next]_vars
=============================================================================
