-------------------------- MODULE AgentService_told --------------------------
(***************************************************************************)
(* What the session service tells its users is so, for every set of        *)
(* messages and every bound: a message shown as delivered is part of the   *)
(* conversation, one shown only as unsent was never written, a turn shown  *)
(* as running runs, an interrupted session sends nothing, and no message   *)
(* that was taken is lost.  A crash can break the third and the last, so   *)
(* these two are for a service that has not crashed.                       *)
(*                                                                         *)
(* They rest on OneCopy (AgentService_proofs) and on an invariant each: the*)
(* first three on Calls (of all requests, replies owed and replies written *)
(* at most one concerns the call the worker is in), with Told and Turns,   *)
(* the others on Quiet and Keeps.                                          *)
(***************************************************************************)
EXTENDS AgentService_proofs

-----------------------------------------------------------------------------
(* The worker's calls to the provider *)

\* The provider owes the reply that the worker waits for.
Owing == provider.owed # <<>> /\ Head(provider.owed).live

NoReply == \A k \in DOMAIN output : output[k].kind # "reply"

\* The prompt that the worker sends is part of the conversation.
Served == Sends => hand \in provider.history

Calls ==
  /\ Len(provider.owed) <= 1
  /\ \A i \in DOMAIN pipe : pipe[i].live =>
       /\ pc = "call" /\ i = Len(pipe) /\ ~Owing /\ NoReply
       /\ Sends => pipe[i].kind # "interrupt" /\ pipe[i].prompt = hand
  /\ Owing =>
       /\ pc = "call" /\ pipe = <<>> /\ NoReply
       /\ Head(provider.owed).ok => Served
  /\ \A k \in DOMAIN output : output[k].kind = "reply" =>
       /\ pc = "call" /\ pipe = <<>> /\ provider.owed = <<>>
       /\ output[k].ok => Served
  /\ \A j, k \in DOMAIN output :
       output[j].kind = "reply" /\ output[k].kind = "reply" => j = k
  /\ provider.echoes \subseteq provider.history
  /\ \A k \in DOMAIN output :
       output[k].kind = "echo" => output[k].prompt \in provider.history

\* Steps that leave the worker's call, if it is in one, alone.
Silent ==
  /\ UNCHANGED <<pipe, output, provider>>
  /\ pc = "call" => pc' = "call" /\ UNCHANGED <<via, hand>>

\* A call begins.
Calling ==
  /\ pc # "call" /\ pc' = "call"
  /\ \E r \in Request :
       /\ pipe' = Append(pipe, r)
       /\ Sends' => r.kind # "interrupt" /\ r.prompt = hand'
  /\ UNCHANGED <<output, provider>>

\* The worker reads an event...
Reading ==
  /\ output # <<>> /\ output' = Tail(output) /\ Head(output).kind # "reply"
  /\ UNCHANGED <<pc, via, hand, pipe, provider>>

\* ...or the reply it waits for.
Hearing ==
  /\ pc = "call" /\ pc' # "call"
  /\ output # <<>> /\ output' = Tail(output) /\ Head(output).kind = "reply"
  /\ UNCHANGED <<pipe, provider>>

\* The provider writes an event.
Speaking ==
  /\ \E e \in Event :
       /\ output' = Append(output, e)
       /\ e.kind = "echo" => e.prompt \in provider.echoes
  /\ provider'.owed = provider.owed /\ provider'.history = provider.history
  /\ provider'.echoes \subseteq provider.echoes
  /\ UNCHANGED <<pc, via, hand, pipe>>

\* Its process ends: the worker may still read what it wrote, or is gone too.
Ceasing ==
  /\ pipe' = <<>> /\ provider'.owed = <<>>
  /\ provider'.history = provider.history /\ provider'.echoes = {}
  /\ \/ UNCHANGED <<pc, via, hand, output>>
     \/ output' = <<>>

\* Nothing is due in an untouched channel.
LEMMA SilentCalls ==
  ASSUME Calls, Silent
  PROVE  Calls'
  <1>1. CASE pc = "call"
    BY <1>1 DEF Silent, Calls, Owing, NoReply, Served, Sends
  <1>2. CASE pc # "call"
    BY <1>2 DEF Silent, Calls, Owing, NoReply
  <1> QED
    BY <1>1, <1>2

\* What a sequence that grows by an element holds.
LEMMA Longer ==
  ASSUME NEW S, NEW q \in Seq(S), NEW e \in S
  PROVE  /\ DOMAIN Append(q, e) = 1..(Len(q) + 1) /\ Len(Append(q, e)) = Len(q) + 1
         /\ DOMAIN q = 1..Len(q) /\ Len(q) \in Nat
         /\ Append(q, e)[Len(q) + 1] = e
         /\ \A i \in DOMAIN q : Append(q, e)[i] = q[i]
  BY AppendProperties, LenProperties

\* What a sequence without its head holds.
LEMMA Shorter ==
  ASSUME NEW S, NEW q \in Seq(S), q # <<>>
  PROVE  /\ DOMAIN q = 1..Len(q) /\ Len(q) \in Nat \ {0} /\ Head(q) = q[1]
         /\ DOMAIN Tail(q) = 1..(Len(q) - 1) /\ Len(Tail(q)) = Len(q) - 1
         /\ \A i \in DOMAIN Tail(q) : i + 1 \in DOMAIN q /\ Tail(q)[i] = q[i + 1]
  <1>1. /\ Len(q) \in Nat \ {0} /\ DOMAIN q = 1..Len(q)
        /\ Tail(q) \in Seq(S) /\ Len(Tail(q)) = Len(q) - 1
        /\ \A i \in 1..Len(Tail(q)) : Tail(q)[i] = q[i + 1]
    BY HeadTailProperties, EmptySeq, LenProperties
  <1>2. DOMAIN Tail(q) = 1..(Len(q) - 1)
    BY <1>1, LenProperties
  <1> QED
    BY <1>1, <1>2

\* A call begins when no other is due.
LEMMA CallingCalls ==
  ASSUME TypeOK, Calls, Calling
  PROVE  Calls'
  <1>1. PICK r \in Request :
          /\ pipe' = Append(pipe, r)
          /\ Sends' => r.kind # "interrupt" /\ r.prompt = hand'
    BY DEF Calling
  <1>2. /\ ~Owing /\ NoReply /\ UNCHANGED <<output, provider>> /\ pc' = "call"
        /\ \A i \in DOMAIN pipe : ~pipe[i].live
    BY DEF Calls, Calling, NoReply
  <1>3. /\ DOMAIN pipe' = 1..(Len(pipe) + 1) /\ Len(pipe') = Len(pipe) + 1
        /\ DOMAIN pipe = 1..Len(pipe) /\ Len(pipe) \in Nat
        /\ pipe'[Len(pipe) + 1] = r
        /\ \A i \in DOMAIN pipe : pipe'[i] = pipe[i]
    BY <1>1, Longer DEF TypeOK
  <1>4. ASSUME NEW i \in DOMAIN pipe', pipe'[i].live
        PROVE  i = Len(pipe') /\ pipe'[i] = r
    BY <1>2, <1>3, <1>4
  <1>5. ~Owing' /\ NoReply'
    BY <1>2 DEF Owing, NoReply
  <1>6. /\ Len(provider'.owed) <= 1 /\ provider'.echoes \subseteq provider'.history
        /\ \A k \in DOMAIN output' :
             output'[k].kind = "echo" => output'[k].prompt \in provider'.history
    BY <1>2 DEF Calls
  <1> QED
    BY <1>1, <1>2, <1>4, <1>5, <1>6 DEF Calls, NoReply

\* Reading takes what is read out of the channel.
LEMMA ReadingCalls ==
  ASSUME TypeOK, Calls, Reading \/ Hearing
  PROVE  Calls'
  <1>1. /\ output # <<>> /\ output' = Tail(output)
        /\ UNCHANGED <<pipe, provider>>
    BY DEF Reading, Hearing
  <1>2. /\ DOMAIN output = 1..Len(output) /\ Len(output) \in Nat \ {0}
        /\ Head(output) = output[1] /\ DOMAIN output' = 1..(Len(output) - 1)
        /\ \A k \in DOMAIN output' : k + 1 \in DOMAIN output /\ output'[k] = output[k + 1]
    BY <1>1, Shorter DEF TypeOK
  <1>3. NoReply => NoReply'
    BY <1>2 DEF NoReply
  <1>4. \A j, k \in DOMAIN output' :
          output'[j].kind = "reply" /\ output'[k].kind = "reply" => j = k
    BY <1>2 DEF Calls
  <1>5. CASE Reading
    <2>1. UNCHANGED <<pc, via, hand>> /\ Owing' = Owing /\ Served' = Served /\ Sends' = Sends
      BY <1>1, <1>5 DEF Reading, Owing, Served, Sends
    <2> QED
      BY <1>1, <1>2, <1>3, <1>4, <2>1 DEF Calls
  <1>6. CASE Hearing
    <2>1. /\ output[1].kind = "reply" /\ 1 \in DOMAIN output
          /\ pipe = <<>> /\ provider.owed = <<>>
      BY <1>2, <1>6 DEF Hearing, Calls
    <2>2. NoReply'
      BY <1>2, <2>1 DEF Calls, NoReply
    <2>3. ~Owing' /\ \A i \in DOMAIN pipe' : FALSE
      BY <1>1, <2>1 DEF Owing
    <2> QED
      BY <1>1, <1>2, <1>4, <2>2, <2>3 DEF Calls, NoReply
  <1> QED
    BY <1>5, <1>6

\* An event says nothing of a call.
LEMMA SpeakingCalls ==
  ASSUME TypeOK, Calls, Speaking
  PROVE  Calls'
  <1>1. PICK e \in Event :
          /\ output' = Append(output, e)
          /\ e.kind = "echo" => e.prompt \in provider.echoes
    BY DEF Speaking
  <1>2. e.kind # "reply" /\ e \in Event \cup Reply
    BY DEF Event
  <1>3. /\ DOMAIN output' = 1..(Len(output) + 1)
        /\ DOMAIN output = 1..Len(output) /\ Len(output) \in Nat
        /\ output'[Len(output) + 1] = e
        /\ \A i \in DOMAIN output : output'[i] = output[i]
    BY <1>1, <1>2, Longer DEF TypeOK
  <1>4. /\ UNCHANGED <<pc, via, hand, pipe>> /\ Owing' = Owing
        /\ Served' = Served /\ Sends' = Sends /\ provider'.owed = provider.owed
        /\ provider'.history = provider.history
        /\ provider'.echoes \subseteq provider.echoes
    BY DEF Speaking, Owing, Served, Sends
  <1>5. NoReply => NoReply'
    BY <1>2, <1>3 DEF NoReply
  <1>6. \A k \in DOMAIN output' : output'[k].kind = "reply" =>
          k \in DOMAIN output /\ output'[k] = output[k]
    BY <1>2, <1>3
  <1>7. \A k \in DOMAIN output' : output'[k].kind = "echo" =>
          output'[k].prompt \in provider.history
    BY <1>1, <1>3 DEF Calls
  <1> QED
    BY <1>4, <1>5, <1>6, <1>7 DEF Calls

\* A process that is gone owes nothing.
LEMMA CeasingCalls ==
  ASSUME Calls, Ceasing
  PROVE  Calls'
  <1>1. ~Owing' /\ DOMAIN pipe' = {} /\ Len(provider'.owed) = 0
    BY DEF Ceasing, Owing
  <1>2. CASE UNCHANGED <<pc, via, hand, output>>
    BY <1>1, <1>2 DEF Ceasing, Calls, Served, Sends
  <1>3. CASE output' = <<>>
    BY <1>1, <1>3 DEF Ceasing, Calls
  <1> QED
    BY <1>2, <1>3 DEF Ceasing

\* Whatever a call that is given up left in a channel concerns no later one.
LEMMA AbandonCalls ==
  ASSUME TypeOK, Calls, Abandon
  PROVE  Calls' /\ NoReply' /\ ~Owing' /\ \A i \in DOMAIN pipe' : ~pipe'[i].live
  <1>1. /\ DOMAIN output' = DOMAIN output
        /\ \A k \in DOMAIN output :
             output'[k] = IF output[k].kind = "reply" THEN Late ELSE output[k]
    BY DEF Abandon
  <1>2. Late.kind = "late"
    BY DEF Late
  <1>3. NoReply'
    BY <1>1, <1>2 DEF NoReply
  <1>4. \A k \in DOMAIN output' : output'[k].kind = "echo" =>
          k \in DOMAIN output /\ output'[k] = output[k]
    BY <1>1, <1>2
  <1>5. \A i \in DOMAIN pipe' : ~pipe'[i].live
    <2>1. \A i \in DOMAIN pipe : pipe[i] \in Request
      BY ElementOfSeq DEF TypeOK
    <2>2. \A i \in DOMAIN pipe : ~[pipe[i] EXCEPT !.live = FALSE].live
      BY <2>1 DEF Request
    <2>3. pipe' = [i \in DOMAIN pipe |-> [pipe[i] EXCEPT !.live = FALSE]]
      BY DEF Abandon
    <2> QED
      BY <2>2, <2>3
  <1> DEFINE owed == [i \in DOMAIN provider.owed |->
                        [ok |-> FALSE, turn |-> 0, live |-> FALSE]]
  <1>6. /\ provider'.owed = owed /\ provider'.history = provider.history
        /\ provider'.echoes = provider.echoes
    BY DEF Abandon, TypeOK, Provider
  <1>7. Len(owed) <= 1 /\ (owed # <<>> => ~Head(owed).live)
    <2>1. /\ provider.owed \in Seq(Owed) /\ Len(provider.owed) \in Nat
          /\ DOMAIN provider.owed = 1..Len(provider.owed)
      BY LenProperties DEF TypeOK, Provider
    <2>2. owed \in Seq([ok : BOOLEAN, turn : {0}, live : BOOLEAN])
      BY <2>1, MappedTyped
    <2>3. Len(owed) = Len(provider.owed)
      BY <2>1, <2>2, LenProperties
    <2>4. CASE owed # <<>>
      <3>1. DOMAIN owed = 1..Len(owed) /\ Len(owed) # 0 /\ Head(owed) = owed[1]
        BY <2>2, <2>4, Shorter
      <3>2. 1 \in DOMAIN owed /\ DOMAIN owed = DOMAIN provider.owed
        BY <2>1, <2>3, <3>1
      <3>3. owed[1].live = FALSE
        BY <3>2
      <3> QED
        BY <2>3, <3>1, <3>3 DEF Calls
    <2> QED
      BY <2>3, <2>4 DEF Calls
  <1>8. ~Owing' /\ Len(provider'.owed) <= 1
    BY <1>6, <1>7 DEF Owing
  <1> QED
    BY <1>3, <1>4, <1>5, <1>6, <1>8 DEF Calls, NoReply

\* What the provider makes of a request: it owes the reply, and when it accepts
\* a prompt that prompt is part of the conversation.
LEMMA ReadsRequest ==
  ASSUME TypeOK, ProviderReads
  PROVE  \E ok \in BOOLEAN, t \in Turn :
           /\ pipe # <<>> /\ pipe' = Tail(pipe) /\ provider.owed = <<>>
           /\ provider'.owed = <<[ok |-> ok, turn |-> t, live |-> Head(pipe).live]>>
           /\ ok => Head(pipe).kind = "interrupt" \/ Head(pipe).prompt \in provider'.history
           /\ provider.history \subseteq provider'.history
           /\ provider'.echoes \subseteq provider.echoes \cup provider'.history
           /\ \/ t = 0 /\ provider'.turn = provider.turn
              \/ provider.turn = 0 /\ provider'.turn = t
           /\ UNCHANGED <<mem, pc, via, hand, output>> /\ provider.alive /\ provider'.alive
  <1> DEFINE r == Head(pipe)
             Reads(ok, t) ==
               /\ provider'.owed = <<[ok |-> ok, turn |-> t, live |-> r.live]>>
               /\ ok => r.kind = "interrupt" \/ r.prompt \in provider'.history
               /\ provider.history \subseteq provider'.history
               /\ provider'.echoes \subseteq provider.echoes \cup provider'.history
               /\ \/ t = 0 /\ provider'.turn = provider.turn
                  \/ provider.turn = 0 /\ provider'.turn = t
               /\ provider'.alive = provider.alive
  <1>1. /\ pipe # <<>> /\ pipe' = Tail(pipe) /\ provider.owed = <<>> /\ provider.alive
        /\ UNCHANGED <<mem, pc, via, hand, output>> /\ provider \in Provider
        /\ 0 \in Turn
    BY PlaceTyped DEF ProviderReads, workerVars, sendVars, TypeOK
  <1>2. CASE /\ r.kind = "start" /\ provider.turn = 0 /\ provider.last < MaxTurn
             /\ provider' = [provider EXCEPT
                  !.turn = provider.last + 1, !.last = @ + 1,
                  !.announced = FALSE, !.stopping = FALSE,
                  !.history = @ \cup {r.prompt},
                  !.echoes = @ \cup ({r.prompt} \cap Msg),
                  !.owed = <<[ok |-> TRUE, turn |-> provider.last + 1, live |-> r.live]>>]
    <2>1. Reads(TRUE, provider.last + 1)
      BY <1>1, <1>2 DEF Provider
    <2>2. provider.last + 1 \in Turn
      BY <1>1, <1>2, SessionAssumption DEF Provider, Turn
    <2> QED
      BY <1>1, <2>1, <2>2
  <1>3. CASE /\ r.kind = "steer" /\ provider.turn = r.turn
             /\ provider' = [provider EXCEPT
                  !.history = @ \cup {r.prompt},
                  !.echoes = @ \cup ({r.prompt} \cap Msg),
                  !.owed = <<[ok |-> TRUE, turn |-> 0, live |-> r.live]>>]
    <2>1. Reads(TRUE, 0)
      BY <1>1, <1>3 DEF Provider
    <2> QED
      BY <1>1, <2>1
  <1>4. CASE /\ r.kind = "interrupt" /\ provider.turn = r.turn
             /\ provider' = [provider EXCEPT !.stopping = TRUE,
                  !.owed = <<[ok |-> TRUE, turn |-> 0, live |-> r.live]>>]
    <2>1. Reads(TRUE, 0)
      BY <1>1, <1>4 DEF Provider
    <2> QED
      BY <1>1, <2>1
  <1>5. CASE provider' = [provider EXCEPT
                  !.owed = <<[ok |-> FALSE, turn |-> 0, live |-> r.live]>>]
    <2>1. Reads(FALSE, 0)
      BY <1>1, <1>5 DEF Provider
    <2> QED
      BY <1>1, <2>1
  <1> QED
    BY <1>2, <1>3, <1>4, <1>5 DEF ProviderReads

\* The request of the worker's call is the last one in the channel.
LEMMA ProviderReadsCalls ==
  ASSUME TypeOK, Calls, ProviderReads
  PROVE  Calls'
  <1>1. PICK ok \in BOOLEAN, t \in Turn :
           /\ pipe # <<>> /\ pipe' = Tail(pipe) /\ provider.owed = <<>>
           /\ provider'.owed = <<[ok |-> ok, turn |-> t, live |-> Head(pipe).live]>>
           /\ ok => Head(pipe).kind = "interrupt" \/ Head(pipe).prompt \in provider'.history
           /\ provider.history \subseteq provider'.history
           /\ provider'.echoes \subseteq provider.echoes \cup provider'.history
           /\ UNCHANGED <<pc, via, hand, output>>
    BY ReadsRequest
  <1>2. /\ DOMAIN pipe = 1..Len(pipe) /\ Len(pipe) \in Nat \ {0}
        /\ Head(pipe) = pipe[1] /\ Len(Tail(pipe)) = Len(pipe) - 1
        /\ DOMAIN pipe' = 1..(Len(pipe) - 1) /\ Len(pipe') = Len(pipe) - 1
        /\ \A i \in DOMAIN pipe' : i + 1 \in DOMAIN pipe /\ pipe'[i] = pipe[i + 1]
    BY <1>1, Shorter DEF TypeOK
  <1>3. NoReply /\ NoReply'
    BY <1>1 DEF Calls, NoReply
  <1>4. /\ Len(provider'.owed) = 1 /\ provider'.owed # <<>>
        /\ Head(provider'.owed) = [ok |-> ok, turn |-> t, live |-> Head(pipe).live]
    BY <1>1
  <1>5. Owing' <=> pipe[1].live
    BY <1>2, <1>4 DEF Owing
  <1>6. Sends' = Sends
    BY <1>1 DEF Sends
  <1>7. ASSUME pipe[1].live
        PROVE  pc' = "call" /\ pipe' = <<>> /\ (ok => Served')
    <2>1. /\ 1 \in DOMAIN pipe /\ pc = "call" /\ Len(pipe) = 1
          /\ Sends => pipe[1].kind # "interrupt" /\ pipe[1].prompt = hand
      BY <1>2, <1>7 DEF Calls
    <2>2. pipe' = <<>>
      BY <1>1, <1>2, <2>1, EmptySeq DEF TypeOK
    <2>3. ok => Served'
      BY <1>1, <1>2, <2>1 DEF Served, Sends
    <2> QED
      BY <1>1, <2>1, <2>2, <2>3
  <1>8. ASSUME NEW i \in DOMAIN pipe', pipe'[i].live
        PROVE  /\ pc' = "call" /\ i = Len(pipe') /\ ~Owing'
               /\ Sends' => pipe'[i].kind # "interrupt" /\ pipe'[i].prompt = hand'
    <2>1. /\ pc = "call" /\ i + 1 = Len(pipe)
          /\ Sends => pipe[i + 1].kind # "interrupt" /\ pipe[i + 1].prompt = hand
      BY <1>2, <1>8 DEF Calls
    <2>2. ~pipe[1].live
      <3>1. 1 \in DOMAIN pipe /\ 1 # Len(pipe)
        BY <1>2, <1>8, <2>1
      <3> QED
        BY <3>1 DEF Calls
    <2> QED
      BY <1>1, <1>2, <1>5, <1>6, <1>8, <2>1, <2>2
  <1>9. provider'.echoes \subseteq provider'.history
    BY <1>1 DEF Calls
  <1>10. \A k \in DOMAIN output' : output'[k].kind = "echo" =>
           output'[k].prompt \in provider'.history
    BY <1>1 DEF Calls
  <1> QED
    BY <1>3, <1>4, <1>5, <1>7, <1>8, <1>9, <1>10 DEF Calls, NoReply

\* What the provider owed is on its way, unless nobody waits for it.
LEMMA ProviderRepliesCalls ==
  ASSUME TypeOK, Calls, ProviderReplies
  PROVE  Calls'
  <1> DEFINE o == Head(provider.owed)
  <1>1. /\ provider.owed # <<>> /\ provider'.owed = <<>>
        /\ provider'.history = provider.history /\ provider'.echoes = provider.echoes
        /\ UNCHANGED <<pc, via, hand, pipe>>
    BY DEF ProviderReplies, TypeOK, Provider, workerVars, sendVars
  <1>2. ~Owing' /\ Len(provider'.owed) = 0
    BY <1>1 DEF Owing
  <1>3. Served' = Served /\ Sends' = Sends
    BY <1>1 DEF Served, Sends
  <1>4. CASE ~o.live
    <2>1. output' = output
      BY <1>4 DEF ProviderReplies
    <2> QED
      BY <1>1, <1>2, <1>3, <2>1 DEF Calls, NoReply, Owing
  <1>5. CASE o.live
    <2>1. Owing /\ output' = Append(output, Answer(o))
      BY <1>1, <1>5 DEF ProviderReplies, Owing, Speak
    <2>2. pc = "call" /\ pipe = <<>> /\ NoReply /\ (o.ok => Served)
      BY <2>1 DEF Calls
    <2>3. Answer(o) \in Event \cup Reply /\ Answer(o).kind = "reply" /\ Answer(o).ok = o.ok
      <3>1. o \in Owed
        BY <1>1, TailTyped DEF TypeOK, Provider
      <3> QED
        BY <3>1 DEF Answer, Owed, Reply
    <2>4. /\ DOMAIN output' = 1..(Len(output) + 1)
          /\ DOMAIN output = 1..Len(output) /\ Len(output) \in Nat
          /\ output'[Len(output) + 1] = Answer(o)
          /\ \A i \in DOMAIN output : output'[i] = output[i]
      BY <2>1, <2>3, Longer DEF TypeOK
    <2>5. \A k \in DOMAIN output' : output'[k].kind = "reply" =>
            k = Len(output) + 1 /\ output'[k] = Answer(o)
      BY <2>2, <2>4 DEF NoReply
    <2>6. \A k \in DOMAIN output' : output'[k].kind = "echo" =>
            output'[k].prompt \in provider.history
      BY <2>3, <2>4 DEF Calls
    <2>7. \A i \in DOMAIN pipe' : FALSE
      BY <1>1, <2>2
    <2> HIDE DEF o
    <2>8. \A k \in DOMAIN output' : output'[k].kind = "reply" =>
            /\ pc' = "call" /\ pipe' = <<>> /\ provider'.owed = <<>>
            /\ output'[k].ok => Served'
      BY <1>1, <1>3, <2>2, <2>3, <2>5
    <2> QED
      BY <1>1, <1>2, <2>5, <2>6, <2>7, <2>8 DEF Calls, NoReply
  <1> QED
    BY <1>4, <1>5

\* The events the provider writes on its own.
LEMMA ProviderSpeaks ==
  ASSUME TypeOK, ProviderStartsTurn \/ ProviderEchoes \/ ProviderEndsTurn
  PROVE  Speaking
  <1> USE DEF workerVars, sendVars, Speak
  <1>1. provider \in Provider /\ provider.turn \in Turn
    BY DEF TypeOK, Provider
  <1>2. CASE ProviderStartsTurn
    <2>1. Started(provider.turn) \in Event /\ Started(provider.turn).kind = "started"
      BY <1>1 DEF Started, Event
    <2> QED
      BY <1>1, <1>2, <2>1 DEF ProviderStartsTurn, Speaking, Provider
  <1>3. CASE ProviderEchoes
    <2>1. PICK m \in provider.echoes :
            /\ provider' = [provider EXCEPT !.echoes = @ \ {m}] /\ Speak(Echo(m))
            /\ UNCHANGED <<pc, via, hand, pipe>>
      BY <1>3 DEF ProviderEchoes
    <2>2. Echo(m) \in Event /\ Echo(m).prompt = m
      BY <1>1 DEF Echo, Event, Provider
    <2> QED
      BY <1>1, <2>1, <2>2 DEF Speaking, Provider
  <1>4. CASE ProviderEndsTurn
    <2>1. PICK o \in Outcome : output' = Append(output, Finished(provider.turn, o))
      BY <1>4 DEF ProviderEndsTurn, Outcome
    <2>2. Finished(provider.turn, o) \in Event /\ Finished(provider.turn, o).kind = "finished"
      BY <1>1 DEF Finished, Event
    <2> QED
      BY <1>1, <1>4, <2>1, <2>2 DEF ProviderEndsTurn, Speaking, Provider
  <1> QED
    BY <1>2, <1>3, <1>4

\* How a new process starts.
LEMMA NewProcessIs ==
  ASSUME NEW p \in Provider
  PROVE  /\ NewProcess(p).owed = <<>> /\ NewProcess(p).echoes = {}
         /\ NewProcess(p).history = p.history
         /\ NewProcess(p).alive /\ NewProcess(p).turn = 0
         /\ [NewProcess(p) EXCEPT !.alive = FALSE].owed = <<>>
         /\ [NewProcess(p) EXCEPT !.alive = FALSE].echoes = {}
         /\ [NewProcess(p) EXCEPT !.alive = FALSE].history = p.history
         /\ ~[NewProcess(p) EXCEPT !.alive = FALSE].alive
  BY DEF NewProcess, Provider

\* The end of the provider's process, of the worker and of the service.
LEMMA ProcessCeases ==
  ASSUME TypeOK, ProviderDies \/ WorkerEnds \/ Gone
  PROVE  Ceasing
  <1> USE DEF workerVars, sendVars
  <1>1. provider \in Provider
    BY DEF TypeOK
  <1>2. CASE ProviderDies
    BY <1>1, <1>2, NewProcessIs DEF ProviderDies, Ceasing
  <1>3. CASE WorkerEnds
    BY <1>1, <1>3, NewProcessIs DEF WorkerEnds, Ceasing
  <1>4. CASE Gone
    BY <1>1, <1>4, NewProcessIs DEF Gone, Ceasing
  <1> QED
    BY <1>2, <1>3, <1>4

\* Users, the handler and the service do not talk to the provider.
LEMMA OthersAreSilent ==
  ASSUME \/ SubmitMessage \/ SubmitControl \/ Handler \/ StopSignal
         \/ Flush \/ MarkActive \/ CancelWorkers \/ Restart \/ ResumeDue \/ ResumeHandled
  PROVE  Silent
  <1> USE DEF workerVars, sendVars, providerVars, Silent
  <1>1. CASE SubmitMessage \/ SubmitControl \/ ResumeHandled
    BY <1>1 DEF SubmitMessage, SubmitControl, ResumeHandled
  <1>2. CASE Handler
    BY <1>2 DEF Handler, PushQueued, QueuePreparing, SaveAndAnswer, Dispatch,
         StopWaiting, Reconnect, StartWorker
  <1>3. CASE StopSignal \/ Flush \/ MarkActive \/ CancelWorkers \/ Restart \/ ResumeDue
    BY <1>3 DEF StopSignal, Flush, MarkActive, CancelWorkers, Restart, ResumeDue
  <1> QED
    BY <1>1, <1>2, <1>3

\* What the worker does that is neither a call nor a look at the channel.
LEMMA WorkerSilent ==
  ASSUME \/ SetUp \/ FirstQueued \/ FirstCommand \/ StartFails \/ Connect
         \/ ConnectDone \/ Initial \/ Resumed \/ NotAttempted \/ Intend
         \/ TakeQueued \/ SaveTaken \/ NothingQueued \/ LoopDrained \/ NoCommand
         \/ LoopWake \/ LoopEnds \/ Drained \/ DrainFails \/ TakeWaiting
         \/ WaitingSent \/ WorkerExits
  PROVE  Silent /\ pc # "call" /\ pc' # "call"
  <1> USE DEF workerVars, sendVars, providerVars, Silent
  <1>1. CASE \/ SetUp \/ FirstQueued \/ FirstCommand \/ StartFails \/ Connect
             \/ ConnectDone \/ Initial
    BY <1>1 DEF SetUp, FirstQueued, LeaveEmpty, FirstCommand, StartFails, Connect,
         ConnectDone, Initial
  <1>2. CASE Resumed \/ NotAttempted \/ Intend \/ TakeQueued \/ SaveTaken
             \/ NothingQueued
    BY <1>2 DEF Resumed, NotAttempted, AfterFailure, Intend, TakeQueued, SaveTaken,
         NothingQueued
  <1>3. CASE \/ LoopDrained \/ NoCommand \/ LoopWake \/ LoopEnds \/ Drained
             \/ DrainFails \/ TakeWaiting \/ WaitingSent \/ WorkerExits
    BY <1>3 DEF LoopDrained, NoCommand, LoopWake, LoopEnds, Drained, DrainFails,
         TakeWaiting, WaitingSent, WorkerExits
  <1> QED
    BY <1>1, <1>2, <1>3

\* A command is silent, or begins the call that interrupts a turn.
LEMMA CommandTalks ==
  ASSUME TypeOK, LoopCommand
  PROVE  \/ Silent /\ pc # "call" /\ pc' # "call"
         \/ /\ Calling /\ via' \in {"drain", "interrupt"} /\ target' = mem.turn
            /\ mem.turn # 0 /\ UNCHANGED mem
  <1>1. pc = "command" /\ UNCHANGED <<output, provider>>
    BY DEF LoopCommand
  <1>2. ASSUME NEW p \in {"drain", "interrupt"}, Interrupting(p), mem.turn # 0,
               UNCHANGED mem
        PROVE  Calling /\ via' \in {"drain", "interrupt"} /\ target' = mem.turn
               /\ mem.turn # 0 /\ UNCHANGED mem
    <2> DEFINE r == [kind |-> "interrupt", prompt |-> Continue,
                     turn |-> mem.turn, live |-> TRUE]
    <2>1. r \in Request
      BY DEF Request, Prompt, TypeOK, Session
    <2>2. pipe' = Append(pipe, r) /\ via' = p /\ pc' = "call" /\ target' = mem.turn
      BY <1>2 DEF Interrupting, Take
    <2>3. ~Sends'
      BY <2>2 DEF Sends
    <2> HIDE DEF r
    <2> QED
      BY <1>1, <1>2, <2>1, <2>2, <2>3 DEF Calling
  <1>3. CASE UNCHANGED pipe /\ pc' # "call"
    BY <1>1, <1>3 DEF Silent
  <1>4. CASE CommandSendWaiting
    BY <1>2, <1>3, <1>4 DEF CommandSendWaiting
  <1>5. CASE CommandInterrupt
    BY <1>2, <1>3, <1>5 DEF CommandInterrupt
  <1>6. CASE \E c \in Control : CommandMessage(c.msg, c.queue) \/ CommandRemove(c.msg, c.index)
    BY <1>3, <1>6 DEF CommandMessage, CommandRemove
  <1>7. CASE CommandResume
    BY <1>3, <1>7 DEF CommandResume
  <1>8. Head(inbox) \in Control
    BY TailTyped DEF LoopCommand, TypeOK
  <1> QED
    BY <1>4, <1>5, <1>6, <1>7, <1>8 DEF LoopCommand

\* The write of a prompt begins a call on its behalf.
LEMMA WriteTalks ==
  ASSUME TypeOK, Write
  PROVE  Calling
  <1> DEFINE r == [kind   |-> IF target = 0 THEN "start" ELSE "steer",
                   prompt |-> hand, turn |-> target, live |-> TRUE]
  <1>1. r \in Request /\ r.kind # "interrupt" /\ r.prompt = hand
    BY DEF Request, TypeOK
  <1>2. /\ pipe' = Append(pipe, r) /\ pc = "write" /\ pc' = "call" /\ hand' = hand
        /\ UNCHANGED <<output, provider>>
    BY DEF Write, sendVars
  <1> HIDE DEF r
  <1> QED
    BY <1>1, <1>2 DEF Calling

\* The worker reads events in a call and outside, replies only in a call.
LEMMA WorkerReads ==
  ASSUME TypeOK, Calls
  PROVE  /\ EventWhileWaiting \/ LoopEvent => Reading
         /\ Acknowledged => Hearing
  <1> USE DEF workerVars, sendVars
  <1>1. ASSUME LoopEvent PROVE Reading
    <2>1. pc = "loop" /\ output # <<>>
      BY <1>1 DEF LoopEvent
    <2>2. 1 \in DOMAIN output /\ Head(output) = output[1]
      BY <2>1, Shorter DEF TypeOK
    <2>3. Head(output).kind # "reply"
      BY <2>1, <2>2 DEF Calls
    <2> QED
      BY <1>1, <2>3 DEF LoopEvent, Reading
  <1>2. ASSUME EventWhileWaiting PROVE Reading
    BY <1>2 DEF EventWhileWaiting, Reading
  <1>3. ASSUME Acknowledged PROVE Hearing
    BY <1>3 DEF Acknowledged, Hearing, AfterReply
  <1> QED
    BY <1>1, <1>2, <1>3

\* Of all requests and replies at most one concerns the call the worker is in.
LEMMA CallsKept ==
  ASSUME TypeOK, Calls, [Next]_vars
  PROVE  Calls'
  <1>1. CASE Worker
    <2>1. CASE \/ SetUp \/ FirstQueued \/ FirstCommand \/ StartFails \/ Connect
               \/ ConnectDone \/ Initial \/ Resumed \/ NotAttempted \/ Intend
               \/ TakeQueued \/ SaveTaken \/ NothingQueued \/ LoopDrained \/ NoCommand
               \/ LoopWake \/ LoopEnds \/ Drained \/ DrainFails \/ TakeWaiting
               \/ WaitingSent \/ WorkerExits
      BY <2>1, WorkerSilent, SilentCalls
    <2>2. CASE LoopCommand
      BY <2>2, CommandTalks, SilentCalls, CallingCalls
    <2>3. CASE Write
      BY <2>3, WriteTalks, CallingCalls
    <2>4. CASE EventWhileWaiting \/ LoopEvent \/ Acknowledged
      BY <2>4, WorkerReads, ReadingCalls
    <2>5. CASE CallFails
      BY <2>5, AbandonCalls DEF CallFails
    <2>6. CASE WorkerEnds
      BY <2>6, ProcessCeases, CeasingCalls
    <2> QED
      BY <1>1, <2>1, <2>2, <2>3, <2>4, <2>5, <2>6 DEF Worker
  <1>2. CASE CodexProvider
    BY <1>2, ProviderReadsCalls, ProviderRepliesCalls, ProviderSpeaks, SpeakingCalls,
       ProcessCeases, CeasingCalls DEF CodexProvider
  <1>3. CASE Exit \/ Crash
    BY <1>3, ProcessCeases, CeasingCalls DEF Exit, Crash
  <1>4. CASE \/ SubmitMessage \/ SubmitControl \/ Handler \/ StopSignal
             \/ Flush \/ MarkActive \/ CancelWorkers \/ Restart \/ ResumeDue \/ ResumeHandled
    BY <1>4, OthersAreSilent, SilentCalls
  <1>5. CASE UNCHANGED vars
    <2>1. Silent
      BY <1>5 DEF vars, workerVars, sendVars, providerVars, Silent
    <2> QED
      BY <2>1, SilentCalls
  <1> QED
    BY <1>1, <1>2, <1>3, <1>4, <1>5 DEF Next, Service

-----------------------------------------------------------------------------
(* What the changes of a session do to its transcript and queue *)

\* The messages of U get an entry "unsent", those of D an entry "delivered", and
\* no message that has an entry is left without one.
Alters(s, t, U, D) ==
  \A m \in Msg :
    /\ "unsent" \in t.marks[m] <=> "unsent" \in s.marks[m] \/ m \in U
    /\ "delivered" \in t.marks[m] <=> "delivered" \in s.marks[m] \/ m \in D
    /\ s.marks[m] # {} => t.marks[m] # {}

\* The queue stays, or all of it is shown as unsent.
Changes(s, t, D) ==
  \/ Alters(s, t, {}, D) /\ t.queue = s.queue
  \/ Alters(s, t, Range(s.queue), D) /\ t.queue = <<>>

\* One change after the other is a change.
LEMMA ChangesCompose ==
  ASSUME NEW s, NEW t, NEW u, NEW D, NEW E, Changes(s, t, D), Changes(t, u, E)
  PROVE  Changes(s, u, D \cup E)
  <1>1. CASE Alters(s, t, {}, D) /\ t.queue = s.queue
    <2>1. CASE Alters(t, u, {}, E) /\ u.queue = t.queue
      BY <1>1, <2>1 DEF Alters, Changes
    <2>2. CASE Alters(t, u, Range(t.queue), E) /\ u.queue = <<>>
      BY <1>1, <2>2 DEF Alters, Changes
    <2> QED
      BY <2>1, <2>2 DEF Changes
  <1>2. CASE Alters(s, t, Range(s.queue), D) /\ t.queue = <<>>
    <2>1. Alters(t, u, {}, E) /\ u.queue = <<>>
      BY <1>2, EmptyDistinct DEF Changes
    <2> QED
      BY <1>2, <2>1 DEF Alters, Changes
  <1> QED
    BY <1>1, <1>2 DEF Changes

\* A change of other fields.
LEMMA SameChanges ==
  ASSUME NEW s, NEW t, t.marks = s.marks, t.queue = s.queue
  PROVE  Changes(s, t, {})
  BY DEF Changes, Alters

\* The changes the worker, the handler and the service make to one entry.
LEMMA EntryChanges ==
  ASSUME NEW s \in Session
  PROVE  /\ \A p, steer : Changes(s, SendIntent(s, p, steer), {})
         /\ \A p : Changes(s, SendRefused(s, p), {})
         /\ \A p \in Prompt : \A t : \E D \in SUBSET ({p} \cap Msg) :
              Changes(s, SendAccepted(s, p, t), D)
         /\ \A H \in SUBSET Msg : Changes(s, Restored(s, H), H)
         /\ Changes(s, SendingUnacked(s), {})
         /\ Changes(s, QueueUnsent(s), {})
         /\ Changes(s, MarkedForResume(s), {})
         /\ Changes(s, InterruptedForExit(s), {})
  <1> USE DEF Session
  <1>1. \A p, steer : Changes(s, SendIntent(s, p, steer), {})
    BY DEF SendIntent, Changes, Alters
  <1>2. \A p : Changes(s, SendRefused(s, p), {})
    BY DEF SendRefused, Changes, Alters
  <1>3. ASSUME NEW p \in Prompt, NEW t
        PROVE  \E D \in SUBSET ({p} \cap Msg) : Changes(s, SendAccepted(s, p, t), D)
    <2> DEFINE D == {m \in {p} \cap Msg : "sending" \in s.marks[m]}
    <2>1. /\ SendAccepted(s, p, t).marks = Settled(s.marks, {p}, "delivered")
          /\ SendAccepted(s, p, t).queue = s.queue
      BY DEF SendAccepted
    <2>2. \A m \in Msg : Settled(s.marks, {p}, "delivered")[m] =
            IF m \in D THEN (s.marks[m] \ {"sending"}) \cup {"delivered"} ELSE s.marks[m]
      BY DEF Settled
    <2>3. D \in SUBSET ({p} \cap Msg)
      OBVIOUS
    <2> HIDE DEF D
    <2>4. \A m \in Msg : SendAccepted(s, p, t).marks[m] =
            IF m \in D THEN (s.marks[m] \ {"sending"}) \cup {"delivered"} ELSE s.marks[m]
      BY <2>1, <2>2
    <2>5. ASSUME NEW m \in Msg, NEW u, u = SendAccepted(s, p, t).marks[m]
          PROVE  /\ "unsent" \in u <=> "unsent" \in s.marks[m]
                 /\ "delivered" \in u <=> "delivered" \in s.marks[m] \/ m \in D
                 /\ s.marks[m] # {} => u # {}
      <3>1. CASE m \in D
        <4>1. u = (s.marks[m] \ {"sending"}) \cup {"delivered"}
          BY <2>4, <2>5, <3>1
        <4> QED
          BY <3>1, <4>1
      <3>2. CASE m \notin D
        <4>1. u = s.marks[m]
          BY <2>4, <2>5, <3>2
        <4> QED
          BY <3>2, <4>1
      <3> QED
        BY <3>1, <3>2
    <2>6. Alters(s, SendAccepted(s, p, t), {}, D)
      BY <2>5 DEF Alters
    <2> QED
      BY <2>1, <2>3, <2>6 DEF Changes
  <1>4. \A H \in SUBSET Msg : Changes(s, Restored(s, H), H)
    BY DEF Restored, Noted, Changes, Alters
  <1>5. Changes(s, SendingUnacked(s), {})
    BY DEF SendingUnacked, Settled, Changes, Alters
  <1>6. Changes(s, QueueUnsent(s), {})
    BY DEF QueueUnsent, Noted, Changes, Alters
  <1>7. Changes(s, MarkedForResume(s), {}) /\ Changes(s, InterruptedForExit(s), {})
    BY DEF MarkedForResume, InterruptedForExit, Changes, Alters
  <1> QED
    BY <1>1, <1>2, <1>3, <1>4, <1>5, <1>6, <1>7

\* An event delivers at most the prompt it echoes.
EchoOf(e) == IF e.kind = "echo" THEN {e.prompt} ELSE {}

\* What an event changes, and what one changes with the queue taken aside.
LEMMA EventChanges ==
  ASSUME NEW s \in Session, NEW e \in Event \cup Reply
  PROVE  /\ Changes(s, ApplyEvent(s, e), EchoOf(e))
         /\ Changes(s, ApplyKeepingQueue(s, e), EchoOf(e))
         /\ ApplyKeepingQueue(s, e).queue = s.queue
  <1>1. ASSUME NEW q \in Session PROVE Changes(q, ApplyEvent(q, e), EchoOf(e))
    <2>1. CASE e \in [kind : {"started"}, turn : Turn]
      BY <2>1 DEF ApplyEvent, TurnStarted, EchoOf, Session, Changes, Alters
    <2>2. CASE e \in [kind : {"finished"}, turn : Turn, outcome : Outcome]
      <3> DEFINE ended == [q EXCEPT !.completed = e.turn, !.turn = 0,
                                     !.status = StatusAfter(e.outcome)]
      <3>1. ended \in Session
        <4>1. e.turn \in Turn /\ e.outcome \in Outcome /\ 0 \in Turn
          BY <2>2, SessionAssumption DEF Turn
        <4>2. StatusAfter(e.outcome) \in Status
          BY <4>1 DEF StatusAfter, Outcome, Status
        <4> QED
          BY <4>1, <4>2 DEF Session
      <3>2. Changes(q, ended, {})
        <4>1. ended.marks = q.marks /\ ended.queue = q.queue
          BY DEF Session
        <4> QED
          BY <4>1, SameChanges
      <3>3. ApplyEvent(q, e) \in {ended, QueueUnsent(ended)} /\ EchoOf(e) = {}
        BY <2>2 DEF ApplyEvent, TurnFinished, EchoOf
      <3> HIDE DEF ended
      <3>4. Changes(q, QueueUnsent(ended), {})
        BY <3>1, <3>2, EntryChanges, ChangesCompose
      <3> QED
        BY <3>2, <3>3, <3>4
    <2>3. CASE e \in [kind : {"echo"}, prompt : Msg]
      BY <2>3 DEF ApplyEvent, Echoed, EchoOf, Session, Changes, Alters
    <2>4. CASE e \in Reply
      <3>1. ApplyEvent(q, e) = q /\ EchoOf(e) = {}
        BY <2>4 DEF ApplyEvent, EchoOf, Reply
      <3> QED
        BY <3>1, SameChanges
    <2> QED
      BY <2>1, <2>2, <2>3, <2>4 DEF Event
  <1>2. Changes(s, ApplyKeepingQueue(s, e), EchoOf(e)) /\ ApplyKeepingQueue(s, e).queue = s.queue
    <2> DEFINE aside == [s EXCEPT !.queue = <<>>]
               applied == ApplyEvent(aside, e)
    <2>1. <<>> \in Seq(Msg)
      OBVIOUS
    <2>2. aside \in Session /\ aside.marks = s.marks /\ aside.queue = <<>>
      BY <2>1 DEF Session
    <2> HIDE DEF aside
    <2>3. applied \in Session /\ Changes(aside, applied, EchoOf(e))
      BY <1>1, <2>2, ApplyEventTyped
    <2>4. ApplyKeepingQueue(s, e) = [applied EXCEPT !.queue = s.queue]
      BY DEF ApplyKeepingQueue, aside
    <2> HIDE DEF applied
    <2>5. /\ ApplyKeepingQueue(s, e).marks = applied.marks
          /\ ApplyKeepingQueue(s, e).queue = s.queue
      BY <2>3, <2>4 DEF Session
    <2>6. Alters(aside, applied, {}, EchoOf(e))
      BY <2>2, <2>3, EmptyDistinct DEF Changes
    <2>7. Alters(s, ApplyKeepingQueue(s, e), {}, EchoOf(e))
      BY <2>2, <2>5, <2>6 DEF Alters
    <2> QED
      BY <2>5, <2>7 DEF Changes
  <1> QED
    BY <1>1, <1>2

\* What the end of a worker changes.
LEMMA EndChanges ==
  ASSUME NEW s \in Session, NEW c \in BOOLEAN, NEW stopping \in BOOLEAN
  PROVE  Changes(s, WorkerEnded(s, c, stopping), {})
  <1> DEFINE h == IF ~(c \/ stopping) THEN [s EXCEPT !.status = "Failed"]
                  ELSE IF Active(s)
                    THEN [s EXCEPT !.status = "Interrupted", !.resume = @ \/ stopping]
                  ELSE s
             e == IF h.resume THEN h ELSE QueueUnsent(h)
             u == SendingUnacked(e)
  <1>1. h \in Session /\ h.marks = s.marks /\ h.queue = s.queue
    BY DEF Session, Status
  <1>2. Changes(s, h, {})
    BY <1>1, SameChanges
  <1> HIDE DEF h
  <1>3. e \in Session /\ Changes(h, e, {})
    BY <1>1, QueueUnsentTyped, EntryChanges, SameChanges
  <1> HIDE DEF e
  <1>4. u \in Session /\ Changes(e, u, {})
    BY <1>3, SendingUnackedTyped, EntryChanges
  <1> HIDE DEF u
  <1>5. WorkerEnded(s, c, stopping) = [u EXCEPT !.turn = 0]
    BY DEF WorkerEnded, u, e, h
  <1>6. Changes(u, WorkerEnded(s, c, stopping), {})
    <2>1. /\ WorkerEnded(s, c, stopping).marks = u.marks
          /\ WorkerEnded(s, c, stopping).queue = u.queue
      BY <1>4, <1>5 DEF Session
    <2> QED
      BY <2>1, SameChanges
  <1>7. Changes(s, e, {})
    BY <1>2, <1>3, ChangesCompose
  <1>8. Changes(s, u, {})
    BY <1>4, <1>7, ChangesCompose
  <1> QED
    BY <1>6, <1>8, ChangesCompose

\* What a restart changes.
LEMMA RestartChanges ==
  ASSUME NEW s \in Session, NEW recent \in 0..s.resumes
  PROVE  Changes(s, AfterRestart(s, recent), {})
  <1> DEFINE working == Active(s) \/ s.resume
             resumes == working /\ MayContinue(s, recent)
             marked  == [s EXCEPT
                    !.status  = IF working THEN "Interrupted" ELSE @,
                    !.turn    = IF working THEN 0 ELSE @,
                    !.resumes = IF resumes THEN recent + 1
                                ELSE IF working THEN recent ELSE @,
                    !.resume  = resumes]
             e == IF resumes THEN marked ELSE QueueUnsent(marked)
  <1>1. marked.marks = s.marks /\ marked.queue = s.queue /\ DOMAIN marked = DOMAIN s
    BY DEF Session
  <1>2. Changes(s, marked, {})
    BY <1>1, SameChanges
  <1>3. {"marks", "queue"} \subseteq DOMAIN s /\ s.marks \in [Msg -> SUBSET Kind]
    BY DEF Session
  <1> HIDE DEF marked, resumes
  <1>4. Changes(marked, QueueUnsent(marked), {})
    BY <1>1, <1>3 DEF QueueUnsent, Noted, Changes, Alters
  <1>5. Changes(s, e, {})
    BY <1>2, <1>4, ChangesCompose
  <1>6. {"marks", "queue"} \subseteq DOMAIN e /\ e.marks \in [Msg -> SUBSET Kind]
    BY <1>1, <1>3, NotedTyped DEF QueueUnsent, Kind
  <1> HIDE DEF e
  <1>7. Changes(e, SendingUnacked(e), {})
    BY <1>6 DEF SendingUnacked, Settled, Changes, Alters
  <1>8. AfterRestart(s, recent) = SendingUnacked(e)
    BY DEF AfterRestart, marked, resumes, e
  <1> QED
    BY <1>5, <1>7, <1>8, ChangesCompose

-----------------------------------------------------------------------------
(* What the transcript tells *)

\* What the entries of session s tell of each message, when T were submitted, w
\* says how often each was written and H is the provider's conversation.
Right(s, w, T, H) ==
  \A m \in Msg :
    /\ "unsent" \in s.marks[m] =>
         /\ m \in T /\ m \notin Range(s.queue)
         /\ w[m] = 0 \/ "delivered" \in s.marks[m]
    /\ "delivered" \in s.marks[m] => m \in H

\* A prompt that is being sent has its entry, and was written when a call is on.
Recorded ==
  pc \in {"write", "call"} /\ Sends /\ hand \in Msg =>
    /\ mem.marks[hand] \cap {"sending", "delivered"} # {}
    /\ pc = "call" => sent[hand] > 0

Told ==
  /\ Right(mem, sent, submitted, provider.history)
  /\ Right(disk, sent, submitted, provider.history)
  /\ \A m \in Msg : InPassing(m) => "unsent" \notin mem.marks[m]

\* What a step may add to the transcript: a message that the provider has, and
\* one that is let go of unsent, or was delivered without an acknowledgement.
Truthful ==
  \A m \in Msg :
    /\ "delivered" \in mem.marks[m] => "delivered" \in mem'.marks[m]
    /\ "delivered" \in mem'.marks[m] =>
         "delivered" \in mem.marks[m] \/ m \in provider.history
    /\ "unsent" \in mem'.marks[m] =>
         \/ "unsent" \in mem.marks[m]
         \/ InMemory(m) /\ ~InMemory(m)'
         \/ "delivered" \in mem.marks[m] /\ sent[m] > 0

\* Steps that change no entry of these kinds but to deliver are truthful.
LEMMA DeliveringIsTruthful ==
  ASSUME NEW D \in SUBSET provider.history, Alters(mem, mem', {}, D)
  PROVE  Truthful
  BY DEF Alters, Truthful

\* So are those that change none.
LEMMA SameMarksTruthful ==
  ASSUME mem'.marks = mem.marks
  PROVE  Truthful
  BY DEF Truthful

\* A queue that is shown as unsent is no longer held anywhere.
LEMMA ChangesTruthful ==
  ASSUME TypeOK, OneCopy, NoMove,
         NEW D \in SUBSET provider.history, Changes(mem, mem', D)
  PROVE  Truthful
  <1>1. CASE Alters(mem, mem', {}, D)
    BY <1>1, DeliveringIsTruthful
  <1>2. CASE Alters(mem, mem', Range(mem.queue), D) /\ mem'.queue = <<>>
    <2>1. ASSUME NEW m \in Msg, m \in Range(mem.queue)
          PROVE  InMemory(m) /\ ~InMemory(m)'
      <3>1. ~InPassing(m) /\ Stays(m)
        BY <2>1, NoMoveStays DEF OneCopy, OnePlace
      <3>2. ~InPassing(m)' /\ m \notin Range(mem.queue)'
        BY <1>2, <3>1, EmptyDistinct DEF Stays, InPassing
      <3> QED
        BY <2>1, <3>2 DEF InMemory
    <2> QED
      BY <1>2, <2>1 DEF Alters, Truthful
  <1> QED
    BY <1>1, <1>2 DEF Changes

\* Truthful steps keep what is told, when what they save is a session so far or
\* from now on, and no message comes back.
LEMMA ToldKept ==
  ASSUME TypeOK, OneCopy, Told, Truthful, disk' \in {disk, mem, mem'},
         submitted \subseteq submitted', provider.history \subseteq provider'.history,
         \A m \in Msg : InMemory(m)' => InMemory(m) \/ m \notin submitted,
         \A m \in Msg : \/ sent'[m] = sent[m]
                        \/ InMemory(m) /\ mem' = mem /\ disk' = mem
  PROVE  Told'
  <1>1. ASSUME NEW m \in Msg
        PROVE  /\ InMemory(m) => "unsent" \notin mem.marks[m]
               /\ "unsent" \in mem.marks[m] => m \in submitted
               /\ Live(m) => sent[m] = 0 /\ m \in submitted
               /\ InMemory(m) => Live(m)
               /\ sent[m] > 0 => m \in submitted
               /\ sent[m] \in Nat
    BY PlaceTyped DEF Told, Right, InMemory, OneCopy, OnePlace, Live, TypeOK
  <1>2. ASSUME NEW m \in Msg, "unsent" \in mem'.marks[m]
        PROVE  /\ ~InMemory(m)' /\ m \in submitted'
               /\ sent'[m] = 0 \/ "delivered" \in mem'.marks[m]
    <2>1. CASE "unsent" \in mem.marks[m]
      BY <1>1, <2>1 DEF Told, Right, Truthful
    <2>2. CASE InMemory(m) /\ ~InMemory(m)'
      BY <1>1, <1>2, <2>2
    <2>3. CASE "delivered" \in mem.marks[m] /\ sent[m] > 0
      <3>1. m \in submitted /\ ~Live(m)
        BY <1>1, <2>3
      <3> QED
        BY <1>1, <2>3, <3>1 DEF Truthful
    <2> QED
      BY <1>2, <2>1, <2>2, <2>3 DEF Truthful
  <1>3. Right(mem', sent', submitted', provider'.history)
    BY <1>2 DEF Right, InMemory, Told, Truthful
  <1>4. \A m \in Msg : InPassing(m)' => "unsent" \notin mem'.marks[m]
    BY <1>2 DEF InMemory
  <1>5. CASE disk' = mem'
    BY <1>3, <1>4, <1>5 DEF Told
  <1>6. ASSUME NEW s \in {mem, disk}, \A m \in Msg : sent'[m] = sent[m]
        PROVE  Right(s, sent', submitted', provider'.history)
    BY <1>6 DEF Told, Right
  <1>7. CASE disk' # mem'
    <2>1. \A m \in Msg : sent'[m] = sent[m]
      BY <1>7
    <2> QED
      BY <1>3, <1>4, <1>6, <2>1 DEF Told
  <1> QED
    BY <1>5, <1>7

\* What each step has to show.
Tells == Truthful /\ disk' \in {disk, mem, mem'} /\ Recorded'

\* The prompt in a call is recorded still when its entry is.
LEMMA RecordedStill ==
  ASSUME Recorded,
         pc' \notin {"write", "call"} \/ UNCHANGED <<pc, via, hand, sent>>,
         \A m \in Msg : mem.marks[m] \cap {"sending", "delivered"} # {} =>
                          mem'.marks[m] \cap {"sending", "delivered"} # {}
  PROVE  Recorded'
  BY DEF Recorded, Sends

\* Steps that leave the transcript and the worker's call alone.
LEMMA QuietTells ==
  ASSUME Recorded, mem'.marks = mem.marks, disk' \in {disk, mem, mem'},
         pc' \notin {"write", "call"} \/ UNCHANGED <<pc, via, hand, sent>>
  PROVE  Tells
  <1>1. Recorded'
    BY RecordedStill
  <1> QED
    BY <1>1, SameMarksTruthful DEF Tells

\* Users and the service's handler.
LEMMA HandlerTells ==
  ASSUME TypeOK, Recorded, SubmitMessage \/ SubmitControl \/ ResumeHandled \/ Handler
  PROVE  Tells
  <1> USE DEF serviceVars, handlerVars, workerVars, sendVars, connVars,
              channelVars, providerVars, userVars, historyVars
  <1>1. mem \in Session
    BY DEF TypeOK
  <1>2. ASSUME NEW c, Accept(c) PROVE disk' \in {disk, mem}
    BY <1>2 DEF Accept, Read
  <1>3. CASE SubmitMessage \/ SubmitControl \/ ResumeHandled
    <2>1. mem' = mem /\ UNCHANGED <<pc, via, hand, sent>> /\ \E c : Accept(c)
      BY <1>3 DEF SubmitMessage, SubmitControl, ResumeHandled
    <2> QED
      BY <1>2, <2>1, QuietTells
  <1>4. CASE \/ PushQueued \/ QueuePreparing \/ SaveAndAnswer \/ Dispatch
             \/ StopWaiting \/ StartWorker
    <2>1. /\ mem'.marks = mem.marks /\ disk' \in {disk, mem, mem'}
          /\ pc' = "connect" \/ UNCHANGED <<pc, via, hand, sent>>
      BY <1>1, <1>4 DEF PushQueued, QueuePreparing, Read, SaveAndAnswer, Dispatch,
           StopWaiting, StartWorker, Session
    <2> QED
      BY <2>1, QuietTells
  <1>5. CASE Reconnect
    <2> DEFINE M == IF IsMessage(hctl) THEN {hctl.msg} ELSE {}
    <2>1. mem'.marks = Noted(mem.marks, M, "awaiting")
      BY <1>1, <1>5 DEF Reconnect, Session, Noted
    <2>2. \A m \in Msg : mem'.marks[m] \in {mem.marks[m], mem.marks[m] \cup {"awaiting"}}
      BY <2>1 DEF Noted
    <2>3. disk' = disk /\ UNCHANGED <<pc, via, hand, sent>>
      BY <1>5 DEF Reconnect
    <2>4. Truthful
      <3>1. \A m \in Msg : /\ "unsent" \in mem'.marks[m] <=> "unsent" \in mem.marks[m]
                           /\ "delivered" \in mem'.marks[m] <=> "delivered" \in mem.marks[m]
        BY <2>2
      <3> QED
        BY <3>1 DEF Truthful
    <2>5. \A m \in Msg : mem.marks[m] \cap {"sending", "delivered"} # {} =>
                          mem'.marks[m] \cap {"sending", "delivered"} # {}
      BY <2>2
    <2> QED
      BY <2>3, <2>4, <2>5, RecordedStill DEF Tells
  <1> QED
    BY <1>3, <1>4, <1>5 DEF Handler

\* A worker that sets up or connects: a resumed conversation lists what it holds.
LEMMA ConnectTells ==
  ASSUME TypeOK, Recorded,
         \/ SetUp \/ FirstQueued \/ FirstCommand \/ StartFails \/ Connect
         \/ ConnectDone \/ Initial
  PROVE  Tells
  <1> USE DEF serviceVars, handlerVars, workerVars, sendVars, connVars,
              channelVars, providerVars, userVars, historyVars
  <1>1. mem \in Session
    BY DEF TypeOK
  <1>2. CASE SetUp \/ FirstQueued \/ FirstCommand \/ StartFails \/ ConnectDone \/ Initial
    <2>1. mem'.marks = mem.marks /\ disk' \in {disk, mem, mem'}
      BY <1>1, <1>2 DEF SetUp, FirstQueued, LeaveEmpty, FirstCommand, StartFails,
           ConnectDone, Initial, Session
    <2>2. pc' \notin {"write", "call"}
      BY <1>2 DEF SetUp, FirstQueued, LeaveEmpty, FirstCommand, StartFails,
           ConnectDone, Initial
    <2> QED
      BY <2>1, <2>2, QuietTells
  <1>3. CASE Connect
    <2> DEFINE open == [mem EXCEPT !.thread = TRUE, !.status = "Idle"]
               H == provider.history \cap Msg
    <2>1. open \in Session /\ open.marks = mem.marks /\ open.queue = mem.queue
      BY <1>1 DEF Session, Status
    <2>2. mem' \in {open, Restored(open, H)} /\ disk' = disk /\ pc' = "connected"
      BY <1>3 DEF Connect
    <2>3. Restored(open, H).marks = Noted(open.marks, H, "delivered")
      BY <2>1 DEF Restored, Session
    <2> HIDE DEF open
    <2>4. CASE mem' = open
      BY <2>1, <2>2, <2>4, QuietTells
    <2>5. CASE mem' = Restored(open, H)
      <3>1. Alters(mem, mem', {}, H)
        BY <2>1, <2>3, <2>5 DEF Noted, Alters
      <3>2. H \in SUBSET provider.history
        OBVIOUS
      <3>3. Truthful
        BY <3>1, <3>2, DeliveringIsTruthful
      <3>4. Recorded'
        BY <2>2 DEF Recorded
      <3> QED
        BY <2>2, <3>3, <3>4 DEF Tells
    <2> QED
      BY <2>2, <2>4, <2>5
  <1> QED
    BY <1>2, <1>3

\* An event leaves the entry of a prompt that is being sent, or delivers it.
LEMMA EventRecords ==
  ASSUME NEW s \in Session, NEW e \in Event \cup Reply, NEW m \in Msg,
         s.marks[m] \cap {"sending", "delivered"} # {}
  PROVE  /\ ApplyEvent(s, e).marks[m] \cap {"sending", "delivered"} # {}
         /\ ApplyKeepingQueue(s, e).marks[m] \cap {"sending", "delivered"} # {}
  <1>1. ASSUME NEW q \in Session, q.marks = s.marks
        PROVE  ApplyEvent(q, e).marks[m] \cap {"sending", "delivered"} # {}
    <2>1. CASE e.kind = "started"
      BY <1>1, <2>1 DEF ApplyEvent, TurnStarted, Session
    <2>2. CASE e.kind = "finished"
      <3> DEFINE ended == [q EXCEPT !.completed = e.turn, !.turn = 0,
                                     !.status = StatusAfter(e.outcome)]
      <3>1. /\ ended.marks = s.marks
            /\ QueueUnsent(ended).marks = Noted(ended.marks, Range(ended.queue), "unsent")
        BY <1>1 DEF QueueUnsent, Session
      <3>2. ApplyEvent(q, e) \in {ended, QueueUnsent(ended)}
        BY <2>2 DEF ApplyEvent, TurnFinished
      <3> HIDE DEF ended
      <3>3. ApplyEvent(q, e).marks[m] \in {s.marks[m], s.marks[m] \cup {"unsent"}}
        BY <3>1, <3>2 DEF Noted
      <3> QED
        BY <3>3
    <2>3. CASE e.kind = "echo"
      <3>1. ApplyEvent(q, e).marks[m]
              \in {s.marks[m], (s.marks[m] \ {"sending"}) \cup {"delivered"}}
        BY <1>1, <2>3 DEF ApplyEvent, Echoed, Session
      <3> QED
        BY <3>1
    <2>4. CASE e.kind \notin {"started", "finished", "echo"}
      BY <1>1, <2>4 DEF ApplyEvent
    <2> QED
      BY <2>1, <2>2, <2>3, <2>4
  <1> DEFINE aside == [s EXCEPT !.queue = <<>>]
             applied == ApplyEvent(aside, e)
  <1>2. <<>> \in Seq(Msg)
    OBVIOUS
  <1>3. aside \in Session /\ aside.marks = s.marks
    BY <1>2 DEF Session
  <1> HIDE DEF aside
  <1>4. applied \in Session
    BY <1>3, ApplyEventTyped
  <1>5. ApplyKeepingQueue(s, e) = [applied EXCEPT !.queue = s.queue]
    BY DEF ApplyKeepingQueue, aside
  <1>6. applied.marks[m] \cap {"sending", "delivered"} # {}
    BY <1>1, <1>3
  <1> HIDE DEF applied
  <1>7. ApplyKeepingQueue(s, e).marks = applied.marks
    BY <1>4, <1>5 DEF Session
  <1> QED
    BY <1>1, <1>6, <1>7

\* An event that the worker reads.
LEMMA EventTells ==
  ASSUME TypeOK, OneCopy, Calls, Recorded, NoMove, output # <<>>,
         \/ mem' = ApplyEvent(mem, Head(output))
         \/ mem' = ApplyKeepingQueue(mem, Head(output)),
         disk' = disk, UNCHANGED <<pc, via, hand, sent>>
  PROVE  Tells
  <1> DEFINE e == Head(output)
  <1>1. mem \in Session /\ e \in Event \cup Reply
    BY TailTyped DEF TypeOK
  <1>2. EchoOf(e) \in SUBSET provider.history
    <2>1. 1 \in DOMAIN output /\ Head(output) = output[1]
      BY Shorter DEF TypeOK
    <2> QED
      BY <2>1 DEF Calls, EchoOf
  <1> HIDE DEF e
  <1>3. Changes(mem, mem', EchoOf(e))
    <2>1. mem' = ApplyEvent(mem, e) \/ mem' = ApplyKeepingQueue(mem, e)
      BY DEF e
    <2> QED
      BY <1>1, <2>1, EventChanges
  <1>4. Truthful
    BY <1>2, <1>3, ChangesTruthful
  <1>5. \A m \in Msg : mem.marks[m] \cap {"sending", "delivered"} # {} =>
                         mem'.marks[m] \cap {"sending", "delivered"} # {}
    <2>1. mem' = ApplyEvent(mem, e) \/ mem' = ApplyKeepingQueue(mem, e)
      BY DEF e
    <2> QED
      BY <1>1, <2>1, EventRecords
  <1>6. Recorded'
    BY <1>5, RecordedStill
  <1> QED
    BY <1>4, <1>6 DEF Tells

\* A prompt that was not attempted is shown as unsent, and nobody holds it.
LEMMA NotAttemptedTells ==
  ASSUME TypeOK, OneCopy, Recorded, NotAttempted
  PROVE  Tells
  <1> USE DEF serviceVars, handlerVars, workerVars, sendVars, connVars,
              channelVars, providerVars, userVars, historyVars
  <1>1. mem \in Session /\ Continue \notin Msg
    BY SessionAssumption DEF TypeOK
  <1>2. pc \in {"resume", "intent"} /\ pc' \in {"ending", "house"} /\ hand' = Continue
    BY DEF NotAttempted, AfterFailure, PutDown, Take
  <1>3. CASE UNCHANGED <<mem, disk>>
    BY <1>2, <1>3, QuietTells
  <1>4. CASE mem' = [mem EXCEPT !.marks = Noted(@, {hand}, "unsent")] /\ disk' = mem'
    <2>1. mem'.queue = mem.queue /\ mem'.marks = Noted(mem.marks, {hand}, "unsent")
      BY <1>1, <1>4 DEF Session
    <2>2. NoMove
      BY <1>1, <1>2, <1>4, <2>1 DEF NotAttempted, NoMove
    <2>3. ASSUME NEW m \in Msg, m = hand
          PROVE  InMemory(m) /\ ~InMemory(m)'
      <3>1. InHand(m) /\ OnePlace(m) /\ Stays(m)
        BY <1>2, <2>2, <2>3, NoMoveStays DEF InHand, OneCopy
      <3>2. ~InHand(m)'
        BY <1>2 DEF InHand
      <3> QED
        BY <3>1, <3>2 DEF OnePlace, InPassing, InMemory, Stays
    <2>4. \A m \in Msg : mem'.marks[m] = IF m = hand THEN mem.marks[m] \cup {"unsent"}
                                                     ELSE mem.marks[m]
      BY <2>1 DEF Noted
    <2>5. /\ \A m \in Msg : m # hand => mem'.marks[m] = mem.marks[m]
          /\ \A m \in Msg : m = hand => mem'.marks[m] = mem.marks[m] \cup {"unsent"}
      BY <2>4
    <2>6. Truthful
      BY <2>3, <2>5 DEF Truthful
    <2>7. Recorded'
      BY <1>2 DEF Recorded
    <2> QED
      BY <1>4, <2>6, <2>7 DEF Tells
  <1> QED
    BY <1>3, <1>4 DEF NotAttempted

\* The intent to send is recorded before the prompt is written.
LEMMA IntendTells ==
  ASSUME TypeOK, Recorded, Intend \/ Write
  PROVE  Tells
  <1> USE DEF serviceVars, handlerVars, workerVars, sendVars, connVars,
              channelVars, providerVars, userVars, historyVars
  <1>1. mem \in Session
    BY DEF TypeOK
  <1>2. CASE Intend
    <2>1. \A m \in Msg : mem'.marks[m] = IF m = hand
            THEN (mem.marks[m] \ {"awaiting"}) \cup {"sending"} ELSE mem.marks[m]
      BY <1>1, <1>2 DEF Intend, SendIntent, Session
    <2>2. Truthful
      <3>1. \A m \in Msg : /\ "unsent" \in mem'.marks[m] <=> "unsent" \in mem.marks[m]
                           /\ "delivered" \in mem'.marks[m] <=> "delivered" \in mem.marks[m]
        <4>1. \A m \in Msg : m # hand => mem'.marks[m] = mem.marks[m]
          BY <2>1
        <4>2. \A m \in Msg : m = hand =>
                mem'.marks[m] = (mem.marks[m] \ {"awaiting"}) \cup {"sending"}
          BY <2>1
        <4> QED
          BY <4>1, <4>2
      <3> QED
        BY <3>1 DEF Truthful
    <2>3. pc' = "write" /\ hand' = hand /\ disk' = disk
      BY <1>2 DEF Intend
    <2>4. Recorded'
      BY <2>1, <2>3 DEF Recorded
    <2> QED
      BY <2>2, <2>3, <2>4 DEF Tells
  <1>3. CASE Write
    <2>1. /\ pc = "write" /\ UNCHANGED <<mem, via, hand>> /\ disk' = mem
          /\ sent' = [sent EXCEPT ![hand] = @ + 1]
      BY <1>3 DEF Write
    <2>2. sent \in [Prompt -> Nat] /\ hand \in Prompt
      BY DEF TypeOK
    <2>3. sent'[hand] > 0
      BY <2>1, <2>2
    <2>4. Recorded'
      BY <2>1, <2>3 DEF Recorded, Sends
    <2> QED
      BY <2>1, <2>4, SameMarksTruthful DEF Tells
  <1> QED
    BY <1>2, <1>3

\* An acknowledged prompt is part of the conversation; the queue of a turn that
\* was interrupted is shown as unsent.
LEMMA AcknowledgedTells ==
  ASSUME TypeOK, OneCopy, Calls, Acknowledged
  PROVE  Tells
  <1> USE DEF serviceVars, handlerVars, workerVars, sendVars, connVars,
              channelVars, providerVars, userVars, historyVars
  <1> DEFINE stopped == [mem EXCEPT !.status = "Interrupted"]
  <1>1. mem \in Session /\ hand \in Prompt
    BY DEF TypeOK
  <1>2. /\ stopped \in Session /\ stopped.marks = mem.marks /\ stopped.queue = mem.queue
    BY <1>1, FieldTyped DEF Status, Session
  <1>3. Changes(mem, stopped, {}) /\ Changes(stopped, QueueUnsent(stopped), {})
    BY <1>2, SameChanges, EntryChanges
  <1>4. Changes(mem, QueueUnsent(stopped), {}) /\ QueueUnsent(stopped).queue = <<>>
    BY <1>2, <1>3, ChangesCompose, QueueOf
  <1> HIDE DEF stopped
  <1>5. AfterReply \notin {"popped", "resume", "intent", "write", "call"}
    BY DEF AfterReply
  <1>6. /\ UNCHANGED <<hpc, hctl, initial, inbox, sent, submitted>> /\ pc' = AfterReply
        /\ disk' \in {disk, mem'}
    BY DEF Acknowledged
  <1>7. \E D \in SUBSET provider.history :
          Changes(mem, mem', D) /\ mem'.queue \in {mem.queue, <<>>}
    <2>1. CASE Sends
      <3>1. mem' = SendAccepted(mem, hand, Head(output).turn)
        BY <2>1 DEF Acknowledged
      <3>2. hand \in provider.history
        <4>1. /\ output # <<>> /\ 1 \in DOMAIN output /\ Head(output) = output[1]
              /\ Head(output).kind = "reply" /\ Head(output).ok
          BY Shorter DEF Acknowledged, TypeOK
        <4> QED
          BY <2>1, <4>1 DEF Calls, Served
      <3>3. PICK D \in SUBSET ({hand} \cap Msg) : Changes(mem, mem', D)
        BY <1>1, <3>1, EntryChanges
      <3>4. mem'.queue = mem.queue
        BY <1>1, <3>1, QueueOf
      <3> QED
        BY <3>2, <3>3, <3>4
    <2>2. CASE ~Sends /\ via = "interrupt"
      <3>1. mem' = QueueUnsent(stopped)
        BY <2>2 DEF Acknowledged, stopped
      <3> QED
        BY <1>4, <3>1
    <2>3. CASE ~Sends /\ via # "interrupt"
      <3>1. mem' = mem
        BY <2>3 DEF Acknowledged
      <3> QED
        BY <3>1, SameChanges
    <2> QED
      BY <2>1, <2>2, <2>3
  <1>8. NoMove
    <2>1. disk'.queue \in {disk.queue, mem'.queue}
      BY <1>6
    <2> QED
      BY <1>5, <1>6, <1>7, <2>1 DEF NoMove
  <1>9. Truthful
    BY <1>7, <1>8, ChangesTruthful
  <1>10. Recorded'
    BY <1>5, <1>6 DEF Recorded
  <1> QED
    BY <1>6, <1>9, <1>10 DEF Tells

\* A call that fails: a waiting prompt whose entry the provider's echo has taken
\* gets another one, and is shown as delivered too.
LEMMA CallFailsTells ==
  ASSUME TypeOK, Recorded, CallFails
  PROVE  Tells
  <1> USE DEF serviceVars, handlerVars, workerVars, sendVars, connVars,
              channelVars, providerVars, userVars, historyVars
  <1> DEFINE refused == SendRefused(mem, hand)
  <1>1. mem \in Session
    BY DEF TypeOK
  <1>2. pc = "call" /\ pc' \in {"ending", "house"} /\ disk' \in {disk, mem'}
    BY DEF CallFails, Abandon, AfterFailure
  <1>3. Recorded'
    BY <1>2 DEF Recorded
  <1>4. CASE ~Sends
    <2>1. mem' = mem
      BY <1>4 DEF CallFails
    <2> QED
      BY <1>2, <1>3, <2>1, SameMarksTruthful DEF Tells
  <1>5. CASE Sends
    <2>1. refused.marks = [m \in Msg |->
            IF m = hand THEN (mem.marks[m] \ {"sending"}) \cup {"unacked"}
                        ELSE mem.marks[m]]
          /\ "marks" \in DOMAIN refused
      BY <1>1 DEF SendRefused, Session
    <2> HIDE DEF refused
    <2>2. \/ mem' = refused
          \/ /\ hand \in Msg /\ "sending" \notin mem.marks[hand]
             /\ mem' = [refused EXCEPT !.marks = Noted(@, {hand}, "unsent")]
      BY <1>5 DEF CallFails, SendFailed, refused
    <2>3. CASE mem' = refused
      <3>1. \A m \in Msg : m # hand => mem'.marks[m] = mem.marks[m]
        BY <2>1, <2>3
      <3>2. \A m \in Msg : m = hand =>
              mem'.marks[m] = (mem.marks[m] \ {"sending"}) \cup {"unacked"}
        BY <2>1, <2>3
      <3>3. \A m \in Msg : /\ "unsent" \in mem'.marks[m] <=> "unsent" \in mem.marks[m]
                           /\ "delivered" \in mem'.marks[m] <=> "delivered" \in mem.marks[m]
        BY <3>1, <3>2
      <3> QED
        BY <1>2, <1>3, <3>3 DEF Tells, Truthful
    <2>4. CASE /\ hand \in Msg /\ "sending" \notin mem.marks[hand]
               /\ mem' = [refused EXCEPT !.marks = Noted(@, {hand}, "unsent")]
      <3>1. mem'.marks = Noted(refused.marks, {hand}, "unsent")
        BY <2>1, <2>4
      <3>2. \A m \in Msg : m # hand => mem'.marks[m] = mem.marks[m]
        BY <2>1, <3>1 DEF Noted
      <3>3. \A m \in Msg : m = hand =>
              mem'.marks[m] = ((mem.marks[m] \ {"sending"}) \cup {"unacked"}) \cup {"unsent"}
        BY <2>1, <3>1 DEF Noted
      <3>4. "delivered" \in mem.marks[hand] /\ sent[hand] > 0
        BY <1>2, <1>5, <2>4 DEF Recorded
      <3>5. \A m \in Msg :
              /\ "delivered" \in mem'.marks[m] <=> "delivered" \in mem.marks[m]
              /\ m # hand => ("unsent" \in mem'.marks[m] <=> "unsent" \in mem.marks[m])
        BY <3>2, <3>3
      <3>6. Truthful
        BY <3>4, <3>5 DEF Truthful
      <3> QED
        BY <1>2, <1>3, <3>6 DEF Tells
    <2> QED
      BY <2>2, <2>3, <2>4
  <1> QED
    BY <1>4, <1>5

\* The steps of a worker that sends.
LEMMA SendingTells ==
  ASSUME TypeOK, OneCopy, Calls, Recorded,
         \/ Resumed \/ NotAttempted \/ Intend \/ Write \/ EventWhileWaiting
         \/ Acknowledged \/ CallFails
  PROVE  Tells
  <1> USE DEF serviceVars, handlerVars, workerVars, sendVars, connVars,
              channelVars, providerVars, userVars, historyVars
  <1>1. CASE Resumed
    <2>1. mem' = mem /\ disk' = disk /\ pc' = "intent"
      BY <1>1 DEF Resumed
    <2> QED
      BY <2>1, QuietTells
  <1>2. CASE EventWhileWaiting
    <2>1. /\ mem \in Session /\ Head(output) \in Event \cup Reply /\ output # <<>>
      BY <1>2, TailTyped DEF EventWhileWaiting, TypeOK
    <2>2. mem'.queue \in {mem.queue, <<>>}
      BY <1>2, <2>1, QueueAfterEvent DEF EventWhileWaiting
    <2>3. NoMove
      BY <1>2, <2>2 DEF EventWhileWaiting, NoMove
    <2>4. /\ \/ mem' = ApplyEvent(mem, Head(output))
             \/ mem' = ApplyKeepingQueue(mem, Head(output))
          /\ disk' = disk /\ UNCHANGED <<pc, via, hand, sent>>
      BY <1>2 DEF EventWhileWaiting
    <2> QED
      BY <2>1, <2>3, <2>4, EventTells
  <1> QED
    BY <1>1, <1>2, NotAttemptedTells, IntendTells, AcknowledgedTells, CallFailsTells

\* The steps of the worker's loop, and its end.
LEMMA LoopTells ==
  ASSUME TypeOK, OneCopy, Calls, Recorded,
         \/ TakeQueued \/ SaveTaken \/ NothingQueued \/ LoopEvent \/ LoopDrained
         \/ NoCommand \/ LoopWake \/ LoopEnds \/ Drained \/ DrainFails
         \/ TakeWaiting \/ WaitingSent \/ WorkerEnds \/ WorkerExits
  PROVE  Tells
  <1> USE DEF serviceVars, handlerVars, workerVars, sendVars, connVars,
              channelVars, providerVars, userVars, historyVars
  <1>1. mem \in Session
    BY DEF TypeOK
  <1>2. CASE TakeQueued \/ TakeWaiting
    <2>1. mem'.marks = mem.marks /\ disk' = disk /\ pc' \in {"popped", "intent"}
      BY <1>1, <1>2 DEF TakeQueued, TakeWaiting, Session
    <2> QED
      BY <2>1, QuietTells
  <1>3. CASE SaveTaken \/ NothingQueued \/ LoopDrained \/ NoCommand \/ LoopWake
             \/ LoopEnds \/ Drained \/ DrainFails \/ WaitingSent \/ WorkerExits
    <2>1. mem' = mem /\ disk' \in {disk, mem} /\ pc' \notin {"write", "call"}
      BY <1>3 DEF SaveTaken, NothingQueued, LoopDrained, NoCommand, LoopWake,
           LoopEnds, Drained, DrainFails, WaitingSent, WorkerExits
    <2> QED
      BY <2>1, QuietTells
  <1>4. CASE LoopEvent
    <2>1. Head(output) \in Event \cup Reply /\ output # <<>>
      BY <1>4, TailTyped DEF LoopEvent, TypeOK
    <2>2. mem'.queue \in {mem.queue, <<>>}
      BY <1>1, <1>4, <2>1, QueueAfterEvent DEF LoopEvent
    <2>3. NoMove
      BY <1>4, <2>2 DEF LoopEvent, NoMove
    <2>4. mem' = ApplyEvent(mem, Head(output)) /\ disk' = disk
          /\ UNCHANGED <<pc, via, hand, sent>>
      BY <1>4 DEF LoopEvent
    <2> QED
      BY <2>1, <2>3, <2>4, EventTells
  <1>5. CASE WorkerEnds
    <2>1. (svc # "up") \in BOOLEAN /\ cancelled \in BOOLEAN
      BY DEF TypeOK
    <2>2. mem'.queue \in {mem.queue, <<>>} /\ Changes(mem, mem', {})
      BY <1>1, <1>5, <2>1, QueueAtTheEnd, EndChanges DEF WorkerEnds
    <2>3. NoMove
      BY <1>5, <2>2 DEF WorkerEnds, NoMove
    <2>4. Truthful
      <3>1. {} \in SUBSET provider.history
        OBVIOUS
      <3> QED
        BY <2>2, <2>3, <3>1, ChangesTruthful
    <2>5. Recorded' /\ disk' = disk
      BY <1>5 DEF WorkerEnds, Recorded
    <2> QED
      BY <2>4, <2>5 DEF Tells
  <1> QED
    BY <1>2, <1>3, <1>4, <1>5

\* The commands of users.
LEMMA CommandTells ==
  ASSUME TypeOK, OneCopy, Recorded, LoopCommand
  PROVE  Tells
  <1> USE DEF serviceVars, handlerVars, workerVars, sendVars, connVars,
              channelVars, providerVars, userVars, historyVars
  <1> DEFINE c == Head(inbox)
             stopped == [mem EXCEPT !.status = "Interrupted"]
  <1>1. /\ pc = "command" /\ inbox # <<>> /\ inbox' = Tail(inbox)
        /\ UNCHANGED <<hpc, hctl, initial, sent, submitted>>
    BY DEF LoopCommand
  <1>2. mem \in Session /\ c \in Control
    BY <1>1, TailTyped DEF TypeOK
  <1>3. CASE \/ CommandMessage(c.msg, c.queue) \/ CommandRemove(c.msg, c.index)
             \/ CommandResume
    <2>1. /\ mem'.marks = mem.marks /\ disk' \in {disk, mem'}
          /\ pc' \notin {"write", "call"}
      BY <1>2, <1>3 DEF CommandMessage, CommandRemove, CommandResume, Session
    <2> QED
      BY <2>1, QuietTells
  <1>4. CASE CommandSendWaiting
    <2>1. mem' = mem /\ disk' = disk
      BY <1>4 DEF CommandSendWaiting
    <2>2. pc' # "call" \/ via' = "drain"
      BY <1>4 DEF CommandSendWaiting, Interrupting, Take
    <2>3. pc' # "write"
      BY <1>4 DEF CommandSendWaiting, Interrupting
    <2>4. Recorded'
      BY <2>2, <2>3 DEF Recorded, Sends
    <2> QED
      BY <2>1, <2>4, SameMarksTruthful DEF Tells
  <1>5. CASE CommandInterrupt
    <2>1. /\ stopped \in Session /\ stopped.marks = mem.marks
          /\ stopped.queue = mem.queue
      BY <1>2, FieldTyped DEF Status, Session
    <2>2. Changes(mem, stopped, {}) /\ Changes(stopped, QueueUnsent(stopped), {})
      BY <2>1, SameChanges, EntryChanges
    <2>3. Changes(mem, QueueUnsent(stopped), {}) /\ QueueUnsent(stopped).queue = <<>>
      BY <2>1, <2>2, ChangesCompose, QueueOf
    <2>4. CASE Interrupting("interrupt") /\ UNCHANGED <<mem, disk>>
      <3>1. via' = "interrupt"
        BY <2>4 DEF Interrupting, Take
      <3>2. Recorded'
        BY <3>1 DEF Recorded, Sends
      <3> QED
        BY <2>4, <3>2, SameMarksTruthful DEF Tells
    <2>5. CASE mem' = QueueUnsent(stopped) /\ pc' = "house" /\ disk' = disk
      <3> HIDE DEF stopped
      <3>1. NoMove
        BY <1>1, <2>3, <2>5 DEF NoMove
      <3>2. {} \in SUBSET provider.history
        OBVIOUS
      <3>3. Truthful
        BY <2>3, <2>5, <3>1, <3>2, ChangesTruthful
      <3>4. Recorded'
        BY <2>5 DEF Recorded
      <3> QED
        BY <2>5, <3>3, <3>4 DEF Tells
    <2> QED
      BY <1>5, <2>4, <2>5 DEF CommandInterrupt
  <1> QED
    BY <1>3, <1>4, <1>5 DEF LoopCommand

\* The provider touches no transcript, and the service marks sessions; a restart
\* shows as unsent the queue of what it does not continue.
LEMMA ServiceTells ==
  ASSUME TypeOK, OneCopy, AtRest, Recorded,
         \/ CodexProvider \/ StopSignal \/ Flush \/ MarkActive \/ CancelWorkers
         \/ Restart \/ ResumeDue
  PROVE  Tells
  <1> USE DEF serviceVars, handlerVars, workerVars, sendVars, connVars,
              channelVars, providerVars, userVars, historyVars
  <1>1. mem \in Session /\ disk \in Session
    BY DEF TypeOK
  <1>2. CASE CodexProvider
    <2>1. UNCHANGED <<mem, disk, pc, via, hand, sent>>
      BY <1>2 DEF CodexProvider, ProviderReads, ProviderReplies, ProviderStartsTurn,
           ProviderEchoes, ProviderEndsTurn, ProviderDies
    <2> QED
      BY <2>1, QuietTells
  <1>3. CASE StopSignal \/ Flush \/ MarkActive \/ CancelWorkers \/ ResumeDue
    <2>1. mem'.marks = mem.marks /\ disk' \in {disk, mem, mem'}
          /\ UNCHANGED <<pc, via, hand, sent>>
      BY <1>1, <1>3 DEF StopSignal, Flush, MarkActive, MarkedForResume, CancelWorkers,
           ResumeDue, Session
    <2> QED
      BY <2>1, QuietTells
  <1>4. CASE Restart
    <2>1. mem = disk /\ pc = "none" /\ disk' = mem' /\ UNCHANGED <<pc, sent>>
      BY <1>4 DEF Restart, AtRest
    <2>2. PICK recent \in 0..mem.resumes : mem' = AfterRestart(mem, recent)
      BY <1>4, <2>1 DEF Restart
    <2>3. mem'.queue \in {mem.queue, <<>>} /\ Changes(mem, mem', {})
      BY <1>1, <2>2, QueueAfterRestart, RestartChanges
    <2>4. NoMove
      BY <1>4, <2>1, <2>3 DEF Restart, NoMove
    <2>5. {} \in SUBSET provider.history
      OBVIOUS
    <2>6. Truthful
      BY <2>3, <2>4, <2>5, ChangesTruthful
    <2>7. Recorded'
      BY <2>1 DEF Recorded
    <2> QED
      BY <2>1, <2>6, <2>7 DEF Tells
  <1> QED
    BY <1>2, <1>3, <1>4

\* A process that is gone leaves what the file tells.
LEMMA GoneTold ==
  ASSUME TypeOK, Told, Exit \/ Crash
  PROVE  Told' /\ Recorded'
  <1> USE DEF userVars, historyVars
  <1>1. /\ Gone /\ mem' = disk' /\ UNCHANGED <<sent, submitted>> /\ pc' = "none"
        /\ provider'.history = provider.history
    BY NewProcessIs DEF Exit, Crash, Gone, TypeOK
  <1>2. \/ disk'.marks = disk.marks /\ disk'.queue = disk.queue
        \/ disk'.marks = mem.marks /\ disk'.queue = mem.queue
    <2>1. CASE Exit
      BY <2>1 DEF Exit, InterruptedForExit, TypeOK, Session
    <2>2. CASE Crash
      BY <2>2 DEF Crash
    <2> QED
      BY <2>1, <2>2
  <1>3. Right(disk', sent', submitted', provider'.history)
    BY <1>1, <1>2 DEF Told, Right
  <1>4. /\ \A m : ~WithHandler(m)' /\ ~ForConnection(m)' /\ ~InHand(m)'
        /\ \A m : ~InInbox(m)'
    BY <1>1, InboxGone DEF Gone, WithHandler, ForConnection, InHand, Plain
  <1>5. Recorded'
    BY <1>1 DEF Recorded
  <1>6. Right(mem', sent', submitted', provider'.history)
    BY <1>1, <1>3
  <1> QED
    BY <1>3, <1>4, <1>5, <1>6 DEF Told, InPassing

\* The provider forgets no prompt.
LEMMA HistoryGrows ==
  ASSUME TypeOK, [Next]_vars
  PROVE  provider.history \subseteq provider'.history
  <1>1. provider \in Provider
    BY DEF TypeOK
  <1>2. CASE Worker
    <2>1. CASE WorkerEnds
      BY <2>1, ProcessCeases DEF Ceasing
    <2>2. CASE CallFails
      BY <1>1, <2>2 DEF CallFails, Abandon, Provider
    <2>3. CASE ~WorkerEnds /\ ~CallFails
      <3>1. provider' = provider
        BY <1>2, <2>3 DEF providerVars, Worker, SetUp, FirstQueued, FirstCommand, StartFails,
             Connect, ConnectDone, Initial, Resumed, NotAttempted, Intend, Write,
             EventWhileWaiting, Acknowledged, TakeQueued, SaveTaken, NothingQueued,
             LoopEvent, LoopDrained, NoCommand, LoopWake, LoopEnds, LoopCommand,
             Drained, DrainFails, TakeWaiting, WaitingSent, WorkerExits
      <3> QED
        BY <3>1
    <2> QED
      BY <2>1, <2>2, <2>3
  <1>3. CASE CodexProvider
    <2>1. CASE ProviderReads
      BY <2>1, ReadsRequest
    <2>2. CASE ProviderReplies
      BY <1>1, <2>2 DEF ProviderReplies, Provider
    <2>3. CASE ProviderStartsTurn \/ ProviderEchoes \/ ProviderEndsTurn
      BY <2>3, ProviderSpeaks DEF Speaking
    <2>4. CASE ProviderDies
      BY <2>4, ProcessCeases DEF Ceasing
    <2> QED
      BY <1>3, <2>1, <2>2, <2>3, <2>4 DEF CodexProvider
  <1>4. CASE Exit \/ Crash
    BY <1>4, ProcessCeases DEF Exit, Crash, Ceasing
  <1>5. CASE \/ SubmitMessage \/ SubmitControl \/ Handler \/ StopSignal
             \/ Flush \/ MarkActive \/ CancelWorkers \/ Restart \/ ResumeDue \/ ResumeHandled
    BY <1>5, OthersAreSilent DEF Silent
  <1>6. CASE UNCHANGED vars
    BY <1>6 DEF vars, providerVars
  <1> QED
    BY <1>2, <1>3, <1>4, <1>5, <1>6 DEF Next, Service

\* What memory holds after a step, it held before, unless it was submitted now.
LEMMA MemoryHeld ==
  ASSUME Inv, [Next]_vars, ~Exit, ~Crash
  PROVE  \A m \in Msg : InMemory(m)' => InMemory(m) \/ m \notin submitted
  <1>1. CASE SubmitMessage
    BY <1>1, SubmitKeeps DEF Inv, Submitted
  <1>2. CASE ~SubmitMessage
    BY <1>2, NothingComesBack
  <1> QED
    BY <1>1, <1>2

\* Every step keeps what is told.
LEMMA ToldNext == Inv /\ Calls /\ Told /\ Recorded /\ [Next]_vars => Told' /\ Recorded'
  <1> SUFFICES ASSUME Inv, Calls, Told, Recorded, [Next]_vars
               PROVE  Told' /\ Recorded'
    OBVIOUS
  <1>1. CASE Exit \/ Crash
    BY <1>1, GoneTold DEF Inv
  <1>2. CASE ~Exit /\ ~Crash
    <2>1. Tells
      <3>1. CASE Worker
        BY <3>1, ConnectTells, SendingTells, LoopTells, CommandTells DEF Inv, Worker
      <3>2. CASE UNCHANGED vars
        <4>1. UNCHANGED <<mem, disk, pc, via, hand, sent>>
          BY <3>2 DEF vars, workerVars, sendVars, historyVars
        <4> QED
          BY <4>1, QuietTells
      <3> QED
        BY <1>2, <3>1, <3>2, HandlerTells, ServiceTells DEF Inv, Next, Service
    <2>2. submitted \subseteq submitted'
      BY OnlyUsersSubmit, SubmitKeeps DEF Inv, Submitted
    <2>3. \A m \in Msg : InMemory(m)' => InMemory(m) \/ m \notin submitted
      BY <1>2, MemoryHeld
    <2>4. \A m \in Msg : \/ sent'[m] = sent[m]
                         \/ InMemory(m) /\ mem' = mem /\ disk' = mem
      <3>1. CASE Write
        <4>1. /\ pc = "write" /\ mem' = mem /\ disk' = mem
              /\ sent' = [sent EXCEPT ![hand] = @ + 1] /\ sent \in [Prompt -> Nat]
              /\ Msg \subseteq Prompt
          BY <3>1, PlaceTyped DEF Write, Inv, TypeOK
        <4>2. \A m \in Msg : m = hand => InMemory(m)
          BY <4>1 DEF InMemory, InPassing, InHand
        <4> QED
          BY <4>1, <4>2
      <3>2. CASE ~Write
        BY <3>2, OnlyWriteSends
      <3> QED
        BY <3>1, <3>2
    <2>5. provider.history \subseteq provider'.history
      BY HistoryGrows DEF Inv
    <2> QED
      BY <2>1, <2>2, <2>3, <2>4, <2>5, ToldKept DEF Tells, Inv
  <1> QED
    BY <1>1, <1>2

\* There is no call, and nothing to tell, in the beginning.
LEMMA ToldStarts == Init => Calls /\ Told /\ Recorded
  <1> SUFFICES ASSUME Init PROVE Calls /\ Told /\ Recorded
    OBVIOUS
  <1>1. /\ pipe = <<>> /\ output = <<>> /\ provider.owed = <<>> /\ provider.echoes = {}
        /\ pc \in {"setup", "connect"} /\ disk = mem
    BY DEF Init, InitEmpty, InitPrompt, InitRest
  <1>2. Calls
    BY <1>1 DEF Calls, Owing, NoReply
  <1>3. \A m \in Msg : "unsent" \notin mem.marks[m] /\ "delivered" \notin mem.marks[m]
    <2>1. CASE InitEmpty
      BY <2>1 DEF InitEmpty, NewSession
    <2>2. CASE InitPrompt
      <3>1. PICK x \in Msg : mem = [NewSession EXCEPT !.marks[x] = {"launch"}]
        BY <2>2 DEF InitPrompt
      <3>2. \A m \in Msg : mem.marks[m] \in {{}, {"launch"}}
        BY <3>1 DEF NewSession
      <3> QED
        BY <3>2
    <2> QED
      BY <2>1, <2>2 DEF Init
  <1>4. Told
    BY <1>1, <1>3 DEF Told, Right
  <1>5. Recorded
    BY <1>1 DEF Recorded
  <1> QED
    BY <1>2, <1>4, <1>5

\* The worker's call is the only one a reply can be for, and the transcript tells
\* of each message what became of it.
LEMMA ToldAlways == Spec => [](Inv /\ Calls /\ Told)
  <1>1. Inv /\ Calls /\ [Next]_vars => Calls'
    BY CallsKept DEF Inv
  <1> QED
    BY <1>1, InitOneCopy, NextOneCopy, ToldStarts, ToldNext, PTL DEF Spec

\* A message shown only as unsent was never written to the provider, whatever
\* fails, crashes or is restarted (Session::unsent, worker_ended, after_restart).
THEOREM UnsentIsUnsent == Spec => []UnsentWasNotSent
  <1>1. Told => UnsentWasNotSent
    BY DEF Told, Right, UnsentWasNotSent
  <1> QED
    BY <1>1, ToldAlways, PTL

\* A message shown as delivered is part of the provider's conversation: a reply
\* is taken for that of the worker's own call alone (send_turn, apply_event).
THEOREM DeliveredIsAccepted == Spec => []DeliveredWasAccepted
  <1>1. Told => DeliveredWasAccepted
    BY DEF Told, Right, DeliveredWasAccepted
  <1> QED
    BY <1>1, ToldAlways, PTL

-----------------------------------------------------------------------------
(* The turn that the session shows as running *)

\* Where a session has no turn.
Connecting == {"none", "setup", "empty", "connect", "connected", "ended"}

\* The worker has yet to read that turn t is over.
Ends(j, t) == output[j].kind = "finished" /\ output[j].turn = t

Runs(t) ==
  ~provider.alive \/ provider.turn = t \/ \E j \in DOMAIN output : Ends(j, t)

\* What the worker can find of turn t when it hears that its prompt has started
\* it: t is the last turn of the provider, and the worker may know of its end.
Heard(t) ==
  \/ ~provider.alive
  \/ provider.turn = t
  \/ /\ provider.turn = 0
     /\ \E j \in DOMAIN output : Ends(j, t)
          /\ \A k \in DOMAIN output : k > j => output[k].kind # "finished"
  \/ /\ provider.turn = 0 /\ mem.completed = t
     /\ \A k \in DOMAIN output : output[k].kind # "finished"

\* Turn t started at place i of the channel, and runs unless its end comes later.
StartsAt(i, t) ==
  \/ ~provider.alive \/ provider.turn = t
  \/ \E j \in DOMAIN output : j > i /\ Ends(j, t)

Turns ==
  /\ pc \in Connecting => mem.turn = 0
  /\ \A i \in DOMAIN output : output[i].kind = "started" => output[i].turn # 0
  /\ \A t \in Turn \ {0} :
       /\ mem.turn = t => Runs(t)
       /\ \A i \in DOMAIN output :
            output[i].kind = "started" /\ output[i].turn = t => StartsAt(i, t)
       /\ Owing /\ Head(provider.owed).turn = t => Heard(t)
       /\ \A k \in DOMAIN output :
            output[k].kind = "reply" /\ output[k].turn = t => Heard(t)

\* Steps that take up no turn.
Steady ==
  /\ mem'.turn \in {mem.turn, 0} /\ mem'.completed = mem.completed
  /\ pc' \in Connecting => pc \in Connecting \/ mem'.turn = 0

\* Steps that leave the provider's turn and its events alone.
LEMMA SteadyTurns ==
  ASSUME Turns, Steady, UNCHANGED <<output, provider>>
  PROVE  Turns'
  <1>1. /\ \A t : Runs(t)' <=> Runs(t)
        /\ \A t : Heard(t)' <=> Heard(t)
        /\ \A i, t : StartsAt(i, t)' <=> StartsAt(i, t)
        /\ Owing' <=> Owing
    BY DEF Runs, Heard, StartsAt, Owing, Steady, Ends
  <1> QED
    BY <1>1 DEF Turns, Steady

\* A call that is given up: no turn is heard of any more.
LEMMA AbandonTurns ==
  ASSUME TypeOK, Calls, Turns, Steady, Abandon
  PROVE  Turns'
  <1>1. NoReply' /\ ~Owing'
    BY AbandonCalls
  <1>2. /\ DOMAIN output' = DOMAIN output
        /\ \A k \in DOMAIN output :
             output'[k] = IF output[k].kind = "reply" THEN Late ELSE output[k]
    BY DEF Abandon
  <1>3. /\ provider'.alive = provider.alive /\ provider'.turn = provider.turn
    BY DEF Abandon, TypeOK, Provider
  <1>4. \A t : \A k \in DOMAIN output : Ends(k, t)' <=> Ends(k, t)
    BY <1>2 DEF Ends, Late
  <1>5. /\ \A t : Runs(t)' <=> Runs(t)
        /\ \A i, t : StartsAt(i, t)' <=> StartsAt(i, t)
    BY <1>2, <1>3, <1>4 DEF Runs, StartsAt
  <1>6. \A k \in DOMAIN output : output'[k].kind = "started" =>
          output[k].kind = "started" /\ output'[k] = output[k]
    BY <1>2 DEF Late
  <1> QED
    BY <1>1, <1>2, <1>3, <1>4, <1>5, <1>6 DEF Turns, Steady, NoReply

\* What an event makes of the turn.
LEMMA TurnAfterEvent ==
  ASSUME NEW s \in Session, NEW e \in Event \cup Reply,
         NEW u \in {ApplyEvent(s, e), ApplyKeepingQueue(s, e)}
  PROVE  /\ e.kind = "started" => u.turn = e.turn /\ u.completed = s.completed
         /\ e.kind = "finished" => u.turn = 0 /\ u.completed = e.turn
         /\ e.kind \notin {"started", "finished"} =>
              u.turn = s.turn /\ u.completed = s.completed
  <1>1. ASSUME NEW q \in Session, q.turn = s.turn, q.completed = s.completed,
               NEW v, v = ApplyEvent(q, e)
        PROVE  /\ e.kind = "started" => v.turn = e.turn /\ v.completed = s.completed
               /\ e.kind = "finished" => v.turn = 0 /\ v.completed = e.turn
               /\ e.kind \notin {"started", "finished"} =>
                    v.turn = s.turn /\ v.completed = s.completed
    <2>1. CASE e.kind = "started"
      BY <1>1, <2>1 DEF ApplyEvent, TurnStarted, Session
    <2>2. CASE e.kind = "finished"
      <3> DEFINE ended == [q EXCEPT !.completed = e.turn, !.turn = 0,
                                     !.status = StatusAfter(e.outcome)]
      <3>1. /\ ended.turn = 0 /\ ended.completed = e.turn
            /\ QueueUnsent(ended).turn = ended.turn
            /\ QueueUnsent(ended).completed = ended.completed
        BY DEF QueueUnsent, Session
      <3>2. v \in {ended, QueueUnsent(ended)}
        BY <1>1, <2>2 DEF ApplyEvent, TurnFinished
      <3> HIDE DEF ended
      <3> QED
        BY <2>2, <3>1, <3>2
    <2>3. CASE e.kind = "echo"
      BY <1>1, <2>3 DEF ApplyEvent, Echoed, Session
    <2>4. CASE e.kind \notin {"started", "finished", "echo"}
      BY <1>1, <2>4 DEF ApplyEvent
    <2> QED
      BY <2>1, <2>2, <2>3, <2>4
  <1>2. CASE u = ApplyEvent(s, e)
    BY <1>1, <1>2
  <1>3. CASE u = ApplyKeepingQueue(s, e)
    <2> DEFINE aside == [s EXCEPT !.queue = <<>>]
               applied == ApplyEvent(aside, e)
    <2>1. <<>> \in Seq(Msg)
      OBVIOUS
    <2>2. aside \in Session /\ aside.turn = s.turn /\ aside.completed = s.completed
      BY <2>1 DEF Session
    <2>3. u = [applied EXCEPT !.queue = s.queue]
      BY <1>3 DEF ApplyKeepingQueue
    <2> HIDE DEF aside
    <2>4. applied \in Session
      BY <2>2, ApplyEventTyped
    <2>5. u.turn = applied.turn /\ u.completed = applied.completed
      <3> HIDE DEF applied
      <3> QED BY <2>3, <2>4 DEF Session
    <2> QED
      BY <1>1, <2>2, <2>5
  <1> QED
    BY <1>2, <1>3

\* What is left in the channel when the worker has read its first element.
LEMMA RestOfOutput ==
  ASSUME TypeOK, output # <<>>, output' = Tail(output)
  PROVE  /\ 1 \in DOMAIN output /\ Head(output) = output[1]
         /\ Head(output) \in Event \cup Reply
         /\ DOMAIN output \subseteq Nat \ {0} /\ DOMAIN output' \subseteq Nat \ {0}
         /\ \A k \in DOMAIN output' : k + 1 \in DOMAIN output /\ output'[k] = output[k + 1]
         /\ \A j \in DOMAIN output : j # 1 => j - 1 \in DOMAIN output' /\ output'[j - 1] = output[j]
         /\ \A t : \A j \in DOMAIN output : j # 1 /\ Ends(j, t) => Ends(j - 1, t)'
  <1>1. /\ DOMAIN output = 1..Len(output) /\ Len(output) \in Nat \ {0}
        /\ Head(output) = output[1] /\ DOMAIN output' = 1..(Len(output) - 1)
        /\ \A k \in DOMAIN output' : k + 1 \in DOMAIN output /\ output'[k] = output[k + 1]
    BY Shorter DEF TypeOK
  <1>2. Head(output) \in Event \cup Reply
    BY TailTyped DEF TypeOK
  <1>3. ASSUME NEW j \in DOMAIN output, j # 1
        PROVE  j - 1 \in DOMAIN output' /\ output'[j - 1] = output[j]
    <2>1. j - 1 \in DOMAIN output' /\ (j - 1) + 1 = j
      BY <1>1, <1>3
    <2>2. output'[j - 1] = output[(j - 1) + 1]
      BY <1>1, <2>1
    <2> QED
      BY <2>1, <2>2
  <1> QED
    BY <1>1, <1>2, <1>3 DEF Ends

\* Reading something else than the end of turn t leaves that end to be read.
LEMMA EndStaysUnread ==
  ASSUME TypeOK, output # <<>>, output' = Tail(output), UNCHANGED provider,
         NEW t, Head(output).kind # "finished" \/ Head(output).turn # t
  PROVE  /\ Runs(t) => Runs(t)'
         /\ \A i \in DOMAIN output' : StartsAt(i + 1, t) => StartsAt(i, t)'
         /\ StartsAt(1, t) => Runs(t)'
  <1>1. /\ 1 \in DOMAIN output /\ Head(output) = output[1]
        /\ DOMAIN output \subseteq Nat \ {0} /\ DOMAIN output' \subseteq Nat \ {0}
        /\ \A j \in DOMAIN output : j # 1 /\ Ends(j, t) =>
             j - 1 \in DOMAIN output' /\ Ends(j - 1, t)'
    BY RestOfOutput
  <1>2. \A j \in DOMAIN output : Ends(j, t) => j # 1
    BY <1>1 DEF Ends
  <1>3. Runs(t) => Runs(t)'
    BY <1>1, <1>2 DEF Runs
  <1>4. ASSUME NEW i \in DOMAIN output', StartsAt(i + 1, t) PROVE StartsAt(i, t)'
    <2>1. ASSUME NEW j \in DOMAIN output, j > i + 1, Ends(j, t)
          PROVE  j - 1 \in DOMAIN output' /\ j - 1 > i /\ Ends(j - 1, t)'
      BY <1>1, <1>2, <2>1
    <2> QED
      BY <1>4, <2>1 DEF StartsAt
  <1>5. StartsAt(1, t) => Runs(t)
    BY DEF StartsAt, Runs
  <1> QED
    BY <1>3, <1>4, <1>5

\* What can be heard of a turn when an event has been read.
LEMMA HeardStill ==
  ASSUME TypeOK, output # <<>>, output' = Tail(output), UNCHANGED provider,
         NEW t, Heard(t),
         Head(output).kind = "finished" => mem'.completed = Head(output).turn,
         Head(output).kind # "finished" => mem'.completed = mem.completed
  PROVE  Heard(t)'
  <1>1. /\ 1 \in DOMAIN output /\ Head(output) = output[1]
        /\ DOMAIN output \subseteq Nat \ {0} /\ DOMAIN output' \subseteq Nat \ {0}
        /\ \A k \in DOMAIN output' : k + 1 \in DOMAIN output /\ output'[k] = output[k + 1]
        /\ \A j \in DOMAIN output : j # 1 /\ Ends(j, t) =>
             j - 1 \in DOMAIN output' /\ Ends(j - 1, t)'
    BY RestOfOutput
  <1>2. CASE ~provider.alive \/ provider.turn = t
    BY <1>2 DEF Heard
  <1>3. ASSUME provider.turn = 0, NEW j \in DOMAIN output, Ends(j, t),
               \A k \in DOMAIN output : k > j => output[k].kind # "finished"
        PROVE  Heard(t)'
    <2>1. CASE j = 1
      <3>1. mem'.completed = t
        BY <1>1, <1>3, <2>1 DEF Ends
      <3>2. \A k \in DOMAIN output' : output'[k].kind # "finished"
        <4>1. \A k \in DOMAIN output' : k + 1 > 1
          BY <1>1
        <4> QED
          BY <1>1, <1>3, <2>1, <4>1
      <3> QED
        BY <1>3, <3>1, <3>2 DEF Heard
    <2>2. CASE j # 1
      <3>1. j - 1 \in DOMAIN output' /\ Ends(j - 1, t)'
        BY <1>1, <1>3, <2>2
      <3>2. ASSUME NEW k \in DOMAIN output', k > j - 1
            PROVE  output'[k].kind # "finished"
        <4>1. k + 1 \in DOMAIN output /\ k + 1 > j /\ output'[k] = output[k + 1]
          BY <1>1, <3>2
        <4> QED
          BY <1>3, <4>1
      <3> QED
        BY <1>3, <3>1, <3>2 DEF Heard
    <2> QED
      BY <2>1, <2>2
  <1>4. CASE /\ provider.turn = 0 /\ mem.completed = t
             /\ \A k \in DOMAIN output : output[k].kind # "finished"
    <2>1. /\ Head(output).kind # "finished"
          /\ \A k \in DOMAIN output' : output'[k].kind # "finished"
      BY <1>1, <1>4
    <2>2. mem'.completed = t
      BY <1>4, <2>1
    <2> QED
      BY <1>4, <2>1, <2>2 DEF Heard
  <1> QED
    BY <1>2, <1>3, <1>4 DEF Heard

\* An event that the worker reads: a turn that starts runs still, or its end
\* comes later, and with the end of a turn nothing is left to be heard of it.
LEMMA ReadingTurns ==
  ASSUME TypeOK, Turns, Reading, pc \notin Connecting,
         mem' \in {ApplyEvent(mem, Head(output)), ApplyKeepingQueue(mem, Head(output))}
  PROVE  Turns'
  <1> DEFINE e == Head(output)
  <1>1. /\ output # <<>> /\ output' = Tail(output) /\ UNCHANGED <<pc, provider>>
    BY DEF Reading
  <1>2. /\ 1 \in DOMAIN output /\ e = output[1] /\ e \in Event \cup Reply
        /\ \A k \in DOMAIN output' : k + 1 \in DOMAIN output /\ output'[k] = output[k + 1]
    BY <1>1, RestOfOutput
  <1>3. /\ e.kind = "started" => mem'.turn = e.turn /\ mem'.completed = mem.completed
        /\ e.kind = "finished" => mem'.turn = 0 /\ mem'.completed = e.turn
        /\ e.kind \notin {"started", "finished"} =>
             mem'.turn = mem.turn /\ mem'.completed = mem.completed
    BY <1>2, TurnAfterEvent DEF TypeOK
  <1> HIDE DEF e
  <1>4. ASSUME NEW t \in Turn \ {0}, mem'.turn = t PROVE Runs(t)'
    <2>1. CASE e.kind = "started"
      <3>1. e.turn = t /\ StartsAt(1, t)
        BY <1>2, <1>3, <1>4, <2>1 DEF Turns
      <3> QED
        BY <1>1, <2>1, <3>1, EndStaysUnread DEF e
    <2>2. CASE e.kind \notin {"started", "finished"}
      <3>1. Runs(t)
        BY <1>3, <1>4, <2>2 DEF Turns
      <3> QED
        BY <1>1, <2>2, <3>1, EndStaysUnread DEF e
    <2>3. CASE e.kind = "finished"
      BY <1>3, <1>4, <2>3
    <2> QED
      BY <2>1, <2>2, <2>3
  <1>5. ASSUME NEW t \in Turn \ {0}, NEW i \in DOMAIN output',
               output'[i].kind = "started", output'[i].turn = t
        PROVE  StartsAt(i, t)'
    <2>1. i + 1 \in DOMAIN output /\ StartsAt(i + 1, t) /\ i \in Nat \ {0}
      <3>1. i + 1 \in DOMAIN output /\ output'[i] = output[i + 1] /\ i \in Nat \ {0}
        BY <1>1, RestOfOutput
      <3> QED
        BY <1>5, <3>1 DEF Turns
    <2>2. ASSUME NEW j \in DOMAIN output, j > i + 1, Ends(j, t)
          PROVE  j - 1 \in DOMAIN output' /\ j - 1 > i /\ Ends(j - 1, t)'
      <3>1. j \in Nat /\ j # 1
        BY <1>1, <2>1, <2>2, RestOfOutput
      <3> QED
        BY <1>1, <2>1, <2>2, <3>1, RestOfOutput
    <2> QED
      BY <1>1, <2>1, <2>2 DEF StartsAt
  <1>6. \A t : Heard(t) => Heard(t)'
    BY <1>1, <1>3, HeardStill DEF e
  <1>7. Owing' => Owing /\ Head(provider'.owed) = Head(provider.owed)
    BY <1>1 DEF Owing
  <1>8. \A i \in DOMAIN output' : output'[i].kind = "started" => output'[i].turn # 0
    BY <1>2 DEF Turns
  <1>9. ASSUME NEW t \in Turn \ {0}, NEW k \in DOMAIN output',
               output'[k].kind = "reply", output'[k].turn = t
        PROVE  Heard(t)'
    BY <1>2, <1>6, <1>9 DEF Turns
  <1> QED
    BY <1>1, <1>4, <1>5, <1>6, <1>7, <1>8, <1>9 DEF Turns

\* The reply that the worker waited for: it takes up the turn unless it has read
\* that the turn is over.
LEMMA HearingTurns ==
  ASSUME TypeOK, Calls, Turns, Hearing, pc' \notin Connecting,
         mem'.completed = mem.completed,
         \/ mem'.turn \in {mem.turn, 0}
         \/ /\ mem'.turn = Head(output).turn
            /\ Head(output).turn # 0 /\ mem.completed # Head(output).turn
  PROVE  Turns'
  <1> DEFINE e == Head(output)
  <1>1. /\ output # <<>> /\ output' = Tail(output) /\ UNCHANGED provider
        /\ e.kind = "reply"
    BY DEF Hearing
  <1>2. /\ 1 \in DOMAIN output /\ e = output[1]
        /\ DOMAIN output' \subseteq Nat \ {0}
        /\ \A k \in DOMAIN output' : k + 1 \in DOMAIN output /\ output'[k] = output[k + 1]
    BY <1>1, RestOfOutput
  <1>3. /\ \A t : Runs(t) => Runs(t)'
        /\ \A t : \A i \in DOMAIN output' : StartsAt(i + 1, t) => StartsAt(i, t)'
    BY <1>1, EndStaysUnread
  <1> HIDE DEF e
  <1>4. ASSUME NEW t \in Turn \ {0}, mem'.turn = t PROVE Runs(t)'
    <2>1. CASE mem'.turn = mem.turn
      BY <1>3, <1>4, <2>1 DEF Turns
    <2>2. CASE mem'.turn = e.turn /\ mem.completed # e.turn
      <3>1. Heard(t)
        BY <1>1, <1>2, <1>4, <2>2 DEF Turns
      <3>2. Runs(t)
        BY <1>4, <2>2, <3>1 DEF Heard, Runs
      <3> QED
        BY <1>3, <3>2
    <2> QED
      BY <1>4, <2>1, <2>2 DEF e
  <1>5. NoReply' /\ ~Owing'
    <2>1. Calls'
      BY ReadingCalls
    <2>2. provider.owed = <<>>
      BY <1>1, <1>2 DEF Calls
    <2>3. NoReply'
      <3> SUFFICES ASSUME NEW k \in DOMAIN output', output'[k].kind = "reply" PROVE FALSE
        BY DEF NoReply
      <3>1. pc' = "call"
        BY <2>1 DEF Calls
      <3> QED
        BY <3>1 DEF Hearing
    <2> QED
      BY <1>1, <2>2, <2>3 DEF Owing
  <1>6. ASSUME NEW t \in Turn \ {0}, NEW i \in DOMAIN output',
               output'[i].kind = "started", output'[i].turn = t
        PROVE  StartsAt(i, t)'
    BY <1>2, <1>3, <1>6 DEF Turns
  <1>7. \A i \in DOMAIN output' : output'[i].kind = "started" => output'[i].turn # 0
    BY <1>2 DEF Turns
  <1> QED
    BY <1>4, <1>5, <1>6, <1>7 DEF Turns, NoReply

\* What a channel holds that the provider has written to.
LEMMA MoreOutput ==
  ASSUME TypeOK, NEW e \in Event \cup Reply, output' = Append(output, e)
  PROVE  /\ DOMAIN output \subseteq DOMAIN output' /\ DOMAIN output' \subseteq Nat
         /\ Len(output) + 1 \in DOMAIN output' /\ output'[Len(output) + 1] = e
         /\ \A k \in DOMAIN output' :
              \/ k \in DOMAIN output /\ output'[k] = output[k]
              \/ k = Len(output) + 1
         /\ \A k \in DOMAIN output : output'[k] = output[k] /\ k < Len(output) + 1
         /\ \A t : \A j \in DOMAIN output : Ends(j, t) => Ends(j, t)'
  <1>1. /\ DOMAIN output' = 1..(Len(output) + 1)
        /\ DOMAIN output = 1..Len(output) /\ Len(output) \in Nat
        /\ output'[Len(output) + 1] = e
        /\ \A i \in DOMAIN output : output'[i] = output[i]
    BY Longer DEF TypeOK
  <1> QED
    BY <1>1 DEF Ends

\* What is written but no end of a turn changes nothing for the turns before.
LEMMA WrittenTurns ==
  ASSUME TypeOK, NEW e \in Event \cup Reply, output' = Append(output, e),
         e.kind # "finished", provider'.alive = provider.alive,
         provider'.turn = provider.turn, UNCHANGED mem
  PROVE  \A t : /\ Runs(t) => Runs(t)'
                /\ \A i \in DOMAIN output : StartsAt(i, t) => StartsAt(i, t)'
                /\ Heard(t) => Heard(t)'
  <1> SUFFICES ASSUME NEW t
               PROVE  /\ Runs(t) => Runs(t)'
                      /\ \A i \in DOMAIN output : StartsAt(i, t) => StartsAt(i, t)'
                      /\ Heard(t) => Heard(t)'
    OBVIOUS
  <1>1. /\ DOMAIN output \subseteq DOMAIN output' /\ DOMAIN output' \subseteq Nat
        /\ \A j \in DOMAIN output : Ends(j, t) => Ends(j, t)'
        /\ \A k \in DOMAIN output' :
             \/ k \in DOMAIN output /\ output'[k] = output[k]
             \/ output'[k].kind # "finished"
    BY MoreOutput
  <1>2. Runs(t) => Runs(t)'
    BY <1>1 DEF Runs
  <1>3. \A i \in DOMAIN output : StartsAt(i, t) => StartsAt(i, t)'
    BY <1>1 DEF StartsAt
  <1>4. ASSUME Heard(t) PROVE Heard(t)'
    <2>1. ASSUME NEW j \in DOMAIN output, Ends(j, t), provider.turn = 0,
                 \A k \in DOMAIN output : k > j => output[k].kind # "finished"
          PROVE  Heard(t)'
      <3>1. \A k \in DOMAIN output' : k > j => output'[k].kind # "finished"
        BY <1>1, <2>1
      <3>2. j \in DOMAIN output' /\ Ends(j, t)'
        BY <1>1, <2>1
      <3> QED
        BY <2>1, <3>1, <3>2 DEF Heard
    <2>2. CASE /\ provider.turn = 0 /\ mem.completed = t
               /\ \A k \in DOMAIN output : output[k].kind # "finished"
      <3>1. \A k \in DOMAIN output' : output'[k].kind # "finished"
        BY <1>1, <2>2
      <3> QED
        BY <2>2, <3>1 DEF Heard
    <2>3. CASE ~provider.alive \/ provider.turn = t
      BY <2>3 DEF Heard
    <2> QED
      BY <1>4, <2>1, <2>2, <2>3 DEF Heard
  <1> QED
    BY <1>2, <1>3, <1>4

\* The provider announces a turn that runs, echoes a prompt, and ends its turn
\* with an event that is the last one.
LEMMA SpeakingTurns ==
  ASSUME TypeOK, Turns, ProviderStartsTurn \/ ProviderEchoes \/ ProviderEndsTurn
  PROVE  Turns'
  <1> USE DEF workerVars, sendVars, Speak
  <1>1. provider \in Provider /\ UNCHANGED <<mem, pc>>
    BY DEF TypeOK, ProviderStartsTurn, ProviderEchoes, ProviderEndsTurn
  <1>2. CASE ProviderStartsTurn \/ ProviderEchoes
    <2>1. PICK e \in Event \cup Reply :
            /\ output' = Append(output, e) /\ e.kind \in {"started", "echo"}
            /\ e.kind = "started" => e.turn = provider.turn /\ provider.turn # 0
            /\ provider'.alive = provider.alive /\ provider'.turn = provider.turn
            /\ provider'.owed = provider.owed
      <3>1. CASE ProviderStartsTurn
        <4>1. /\ Started(provider.turn) \in Event
              /\ Started(provider.turn).kind = "started"
              /\ Started(provider.turn).turn = provider.turn
          BY <1>1 DEF Started, Event, Provider
        <4> QED
          BY <1>1, <3>1, <4>1 DEF ProviderStartsTurn, Provider
      <3>2. CASE ProviderEchoes
        <4>1. PICK m \in provider.echoes :
                /\ provider' = [provider EXCEPT !.echoes = @ \ {m}] /\ Speak(Echo(m))
          BY <3>2 DEF ProviderEchoes
        <4>2. Echo(m) \in Event /\ Echo(m).kind = "echo"
          BY <1>1 DEF Echo, Event, Provider
        <4> QED
          BY <1>1, <4>1, <4>2 DEF Provider
      <3> QED
        BY <1>2, <3>1, <3>2
    <2>2. \A t : /\ Runs(t) => Runs(t)'
                 /\ \A i \in DOMAIN output : StartsAt(i, t) => StartsAt(i, t)'
                 /\ Heard(t) => Heard(t)'
      BY <1>1, <2>1, WrittenTurns
    <2>3. \A k \in DOMAIN output' :
            \/ k \in DOMAIN output /\ output'[k] = output[k]
            \/ output'[k] = e
      BY <2>1, MoreOutput
    <2>4. \A i \in DOMAIN output' : output'[i].kind = "started" => output'[i].turn # 0
      BY <2>1, <2>3 DEF Turns
    <2>5. ASSUME NEW t \in Turn \ {0}, NEW i \in DOMAIN output',
                 output'[i].kind = "started", output'[i].turn = t
          PROVE  StartsAt(i, t)'
      <3>1. CASE i \in DOMAIN output /\ output'[i] = output[i]
        BY <2>2, <2>5, <3>1 DEF Turns
      <3>2. CASE output'[i] = e
        BY <2>1, <2>5, <3>2 DEF StartsAt
      <3> QED
        BY <2>3, <3>1, <3>2
    <2>6. Owing' <=> Owing
      BY <2>1 DEF Owing
    <2>7. ASSUME NEW t \in Turn \ {0}, NEW k \in DOMAIN output',
                 output'[k].kind = "reply", output'[k].turn = t
          PROVE  Heard(t)'
      BY <2>1, <2>2, <2>3, <2>7 DEF Turns
    <2> QED
      BY <1>1, <2>1, <2>2, <2>4, <2>5, <2>6, <2>7 DEF Turns
  <1>3. CASE ProviderEndsTurn
    <2>1. PICK o \in Outcome : output' = Append(output, Finished(provider.turn, o))
      BY <1>3 DEF ProviderEndsTurn, Outcome
    <2> DEFINE e == Finished(provider.turn, o)
    <2>2. e \in Event /\ e.kind = "finished" /\ e.turn = provider.turn
      BY <1>1 DEF Finished, Event, Provider
    <2>3. /\ provider.alive /\ provider.turn # 0 /\ provider'.alive
          /\ provider'.turn = 0 /\ provider'.owed = provider.owed
      BY <1>1, <1>3 DEF ProviderEndsTurn, Provider
    <2> HIDE DEF e
    <2>4. PICK n \in Nat : n = Len(output) + 1
      BY Longer DEF TypeOK
    <2>5. PICK over \in Turn : over = provider.turn
      BY <1>1 DEF Provider
    <2>6. /\ DOMAIN output \subseteq DOMAIN output' /\ DOMAIN output' \subseteq Nat
          /\ n \in DOMAIN output' /\ Ends(n, over)'
          /\ \A k \in DOMAIN output' :
               \/ k \in DOMAIN output /\ output'[k] = output[k]
               \/ k = n /\ output'[k].kind = "finished"
          /\ \A k \in DOMAIN output' : ~(k > n)
          /\ \A k \in DOMAIN output : k < n
          /\ \A t : \A j \in DOMAIN output : Ends(j, t) => Ends(j, t)'
      <3>1. /\ DOMAIN output \subseteq DOMAIN output' /\ DOMAIN output' \subseteq Nat
            /\ n \in DOMAIN output' /\ output'[n] = e
            /\ \A k \in DOMAIN output' :
                 \/ k \in DOMAIN output /\ output'[k] = output[k]
                 \/ k = n
            /\ \A k \in DOMAIN output : k < n
            /\ \A t : \A j \in DOMAIN output : Ends(j, t) => Ends(j, t)'
        BY <2>1, <2>2, <2>4, MoreOutput DEF e
      <3>2. Ends(n, over)'
        BY <2>2, <2>5, <3>1 DEF Ends
      <3>3. \A k \in DOMAIN output' : ~(k > n)
        BY <3>1
      <3> QED
        BY <2>2, <3>1, <3>2, <3>3
    <2>7. ASSUME NEW t, Runs(t) PROVE Runs(t)'
      <3>1. CASE over = t
        BY <2>6, <3>1 DEF Runs
      <3>2. CASE over # t
        BY <2>3, <2>5, <2>6, <2>7, <3>2 DEF Runs
      <3> QED
        BY <3>1, <3>2
    <2>8. ASSUME NEW t, NEW i \in DOMAIN output, StartsAt(i, t) PROVE StartsAt(i, t)'
      <3>1. CASE over = t
        <4>1. n > i
          BY <2>6
        <4> QED
          BY <2>6, <3>1, <4>1 DEF StartsAt
      <3>2. CASE over # t
        BY <2>3, <2>5, <2>6, <2>8, <3>2 DEF StartsAt
      <3> QED
        BY <3>1, <3>2
    <2>9. ASSUME NEW t \in Turn \ {0}, Heard(t) PROVE Heard(t)'
      <3>1. over = t
        BY <2>3, <2>5, <2>9 DEF Heard
      <3> QED
        BY <2>3, <2>6, <3>1 DEF Heard
    <2>10. Owing' <=> Owing
      BY <2>3 DEF Owing
    <2>11. ASSUME NEW i \in DOMAIN output', output'[i].kind \in {"started", "reply"}
           PROVE  i \in DOMAIN output /\ output'[i] = output[i]
      BY <2>6, <2>11
    <2> QED
      BY <1>1, <2>3, <2>7, <2>8, <2>9, <2>10, <2>11 DEF Turns
  <1> QED
    BY <1>2, <1>3

\* A request that starts a turn is read when no turn runs.
LEMMA ProviderReadsTurns ==
  ASSUME TypeOK, Calls, Turns, ProviderReads
  PROVE  Turns'
  <1>1. PICK ok \in BOOLEAN, x \in Turn :
          /\ pipe # <<>>
          /\ provider'.owed = <<[ok |-> ok, turn |-> x, live |-> Head(pipe).live]>>
          /\ \/ x = 0 /\ provider'.turn = provider.turn
             \/ provider.turn = 0 /\ provider'.turn = x
          /\ UNCHANGED <<mem, pc, output>> /\ provider.alive /\ provider'.alive
    BY ReadsRequest
  <1>2. NoReply /\ NoReply'
    BY <1>1 DEF Calls, NoReply
  <1>3. ASSUME NEW t \in Turn \ {0}
        PROVE  /\ Runs(t) => Runs(t)'
               /\ \A i \in DOMAIN output : StartsAt(i, t) => StartsAt(i, t)'
    <2>1. provider.turn = t => provider'.turn = t
      BY <1>1
    <2> QED
      BY <1>1, <2>1 DEF Runs, StartsAt, Ends
  <1>4. ASSUME NEW t \in Turn \ {0}, Head(provider'.owed).turn = t PROVE Heard(t)'
    BY <1>1, <1>4 DEF Heard
  <1> QED
    BY <1>1, <1>2, <1>3, <1>4 DEF Turns, NoReply

\* What the provider owed says the same on its way.
LEMMA ProviderRepliesTurns ==
  ASSUME TypeOK, Turns, ProviderReplies
  PROVE  Turns'
  <1> DEFINE o == Head(provider.owed)
  <1>1. /\ provider.owed # <<>> /\ provider'.owed = <<>>
        /\ provider'.alive = provider.alive /\ provider'.turn = provider.turn
        /\ UNCHANGED <<mem, pc>>
    BY DEF ProviderReplies, TypeOK, Provider, workerVars
  <1>2. ~Owing'
    BY <1>1 DEF Owing
  <1>3. CASE ~o.live
    <2>1. output' = output
      BY <1>3 DEF ProviderReplies
    <2>2. \A t : /\ Runs(t)' <=> Runs(t)
                 /\ \A i : StartsAt(i, t)' <=> StartsAt(i, t)
                 /\ Heard(t)' <=> Heard(t)
      BY <1>1, <2>1 DEF Runs, StartsAt, Heard, Ends
    <2> QED
      BY <1>1, <1>2, <2>1, <2>2 DEF Turns
  <1>4. CASE o.live
    <2>1. Owing /\ output' = Append(output, Answer(o))
      BY <1>1, <1>4 DEF ProviderReplies, Owing, Speak
    <2>2. /\ Answer(o) \in Event \cup Reply /\ Answer(o).kind = "reply"
          /\ Answer(o).turn = o.turn
      <3>1. o \in Owed
        BY <1>1, TailTyped DEF TypeOK, Provider
      <3> QED
        BY <3>1 DEF Answer, Owed, Reply
    <2>3. \A t : /\ Runs(t) => Runs(t)'
                 /\ \A i \in DOMAIN output : StartsAt(i, t) => StartsAt(i, t)'
                 /\ Heard(t) => Heard(t)'
      BY <1>1, <2>1, <2>2, WrittenTurns
    <2>4. \A k \in DOMAIN output' :
            \/ k \in DOMAIN output /\ output'[k] = output[k]
            \/ output'[k] = Answer(o)
      BY <2>1, <2>2, MoreOutput
    <2>5. \A t \in Turn \ {0} : o.turn = t => Heard(t)
      BY <2>1 DEF Turns
    <2> HIDE DEF o
    <2>6. ASSUME NEW t \in Turn \ {0}, NEW k \in DOMAIN output',
                 output'[k].kind = "reply", output'[k].turn = t
          PROVE  Heard(t)'
      BY <2>2, <2>3, <2>4, <2>5, <2>6 DEF Turns
    <2>7. ASSUME NEW i \in DOMAIN output', output'[i].kind = "started"
           PROVE  i \in DOMAIN output /\ output'[i] = output[i]
      BY <2>2, <2>4, <2>7
    <2> QED
      BY <1>1, <1>2, <2>3, <2>6, <2>7 DEF Turns
  <1> QED
    BY <1>3, <1>4

\* What the other changes of a session make of the turn.
LEMMA TurnOf ==
  ASSUME NEW s \in Session
  PROVE  /\ QueueUnsent(s).turn = s.turn /\ QueueUnsent(s).completed = s.completed
         /\ \A c, stopping \in BOOLEAN : WorkerEnded(s, c, stopping).turn = 0
         /\ \A recent \in 0..s.resumes :
              /\ AfterRestart(s, recent).turn \in {s.turn, 0}
              /\ AfterRestart(s, recent).completed = s.completed
         /\ \A p, steer : /\ SendIntent(s, p, steer).turn = s.turn
                          /\ SendIntent(s, p, steer).completed = s.completed
         /\ SendFailed(s).turn = s.turn /\ SendFailed(s).completed = s.completed
         /\ MarkedForResume(s).turn = s.turn
         /\ MarkedForResume(s).completed = s.completed
         /\ InterruptedForExit(s).turn \in {s.turn, 0}
         /\ \A H : Restored(s, H).turn = s.turn /\ Restored(s, H).completed = s.completed
  <1>1. \A r \in Session : QueueUnsent(r).turn = r.turn /\ QueueUnsent(r).completed = r.completed
    BY DEF QueueUnsent, Session
  <1>2. \A r \in Session :
          SendingUnacked(r).turn = r.turn /\ SendingUnacked(r).completed = r.completed
    BY DEF SendingUnacked, Session
  <1>3. ASSUME NEW c \in BOOLEAN, NEW stopping \in BOOLEAN
        PROVE  WorkerEnded(s, c, stopping).turn = 0
    <2>1. PICK u : WorkerEnded(s, c, stopping) = [u EXCEPT !.turn = 0]
      BY DEF WorkerEnded
    <2>2. [u EXCEPT !.turn = 0] \in Session
      BY <2>1, WorkerEndedTyped
    <2> QED
      BY <2>1, <2>2 DEF Session
  <1>4. ASSUME NEW recent \in 0..s.resumes
        PROVE  /\ AfterRestart(s, recent).turn \in {s.turn, 0}
               /\ AfterRestart(s, recent).completed = s.completed
    <2> DEFINE working == Active(s) \/ s.resume
               resumes == working /\ MayContinue(s, recent)
               marked  == [s EXCEPT
                      !.status  = IF working THEN "Interrupted" ELSE @,
                      !.turn    = IF working THEN 0 ELSE @,
                      !.resumes = IF resumes THEN recent + 1
                                  ELSE IF working THEN recent ELSE @,
                      !.resume  = resumes]
               e == IF resumes THEN marked ELSE QueueUnsent(marked)
    <2>1. /\ DOMAIN marked = DOMAIN s
          /\ marked.turn \in {s.turn, 0} /\ marked.completed = s.completed
      BY DEF Session
    <2>2. {"turn", "completed", "marks", "queue"} \subseteq DOMAIN s
      BY DEF Session
    <2> HIDE DEF marked, resumes
    <2>3. /\ {"turn", "completed", "marks"} \subseteq DOMAIN e
          /\ e.turn = marked.turn /\ e.completed = marked.completed
      BY <2>1, <2>2 DEF QueueUnsent
    <2> HIDE DEF e
    <2>4. SendingUnacked(e).turn = e.turn /\ SendingUnacked(e).completed = e.completed
      BY <2>3 DEF SendingUnacked
    <2>5. AfterRestart(s, recent) = SendingUnacked(e)
      BY DEF AfterRestart, marked, resumes, e
    <2> QED
      BY <2>1, <2>3, <2>4, <2>5
  <1>5. SendFailed(s).turn = s.turn /\ SendFailed(s).completed = s.completed
    <2>1. /\ SendRefused(s, hand).turn = s.turn
          /\ SendRefused(s, hand).completed = s.completed
          /\ DOMAIN SendRefused(s, hand) = DOMAIN s
          /\ {"turn", "completed", "marks"} \subseteq DOMAIN s
      BY DEF SendRefused, Session
    <2> QED
      BY <2>1 DEF SendFailed
  <1>6. \A p, steer : /\ SendIntent(s, p, steer).turn = s.turn
                      /\ SendIntent(s, p, steer).completed = s.completed
    BY DEF SendIntent, Session
  <1>7. /\ MarkedForResume(s).turn = s.turn
        /\ MarkedForResume(s).completed = s.completed
        /\ InterruptedForExit(s).turn \in {s.turn, 0}
    BY DEF MarkedForResume, InterruptedForExit, Session
  <1>8. \A H : Restored(s, H).turn = s.turn /\ Restored(s, H).completed = s.completed
    BY DEF Restored, Session
  <1> QED
    BY <1>1, <1>3, <1>4, <1>5, <1>6, <1>7, <1>8

\* What ends with the provider's process, its worker and the service.
LEMMA CeasingTurns ==
  ASSUME TypeOK, Turns, ProviderDies \/ WorkerEnds \/ Exit
  PROVE  Turns'
  <1>1. mem \in Session /\ provider \in Provider
    BY DEF TypeOK
  <1>2. CASE ProviderDies
    <2>1. /\ UNCHANGED <<mem, pc, output>> /\ ~provider'.alive /\ provider'.owed = <<>>
      BY <1>1, <1>2, NewProcessIs DEF ProviderDies, workerVars
    <2>2. \A t : Runs(t)' /\ Heard(t)' /\ \A i : StartsAt(i, t)'
      BY <2>1 DEF Runs, Heard, StartsAt
    <2> QED
      BY <2>1, <2>2 DEF Turns, Owing
  <1>3. ASSUME mem'.turn = 0, output' = <<>>, provider'.owed = <<>> PROVE Turns'
    <2>1. ~Owing' /\ DOMAIN output' = {}
      BY <1>3 DEF Owing
    <2> QED
      BY <1>3, <2>1 DEF Turns
  <1>4. CASE WorkerEnds
    <2>1. (svc # "up") \in BOOLEAN /\ cancelled \in BOOLEAN
      BY DEF TypeOK
    <2>2. mem'.turn = 0
      BY <1>1, <1>4, <2>1, TurnOf DEF WorkerEnds
    <2> QED
      BY <1>1, <1>3, <1>4, <2>2, NewProcessIs DEF WorkerEnds
  <1>5. CASE Exit
    <2>1. mem.turn = 0
      BY <1>5 DEF Exit, Turns, Connecting
    <2>2. mem'.turn = 0
      BY <1>1, <1>5, <2>1, TurnOf DEF Exit, Gone
    <2> QED
      BY <1>1, <1>3, <1>5, <2>2, NewProcessIs DEF Exit, Gone
  <1> QED
    BY <1>2, <1>4, <1>5

\* Users, the handler and the service take up no turn.
LEMMA OthersAreSteady ==
  ASSUME TypeOK, AtRest,
         \/ SubmitMessage \/ SubmitControl \/ Handler \/ StopSignal
         \/ Flush \/ MarkActive \/ CancelWorkers \/ Restart \/ ResumeDue \/ ResumeHandled
  PROVE  Steady /\ UNCHANGED <<output, provider>>
  <1> USE DEF workerVars, providerVars
  <1>1. mem \in Session
    BY DEF TypeOK
  <1>2. CASE \/ SubmitMessage \/ SubmitControl \/ ResumeHandled \/ StopSignal
             \/ Flush \/ CancelWorkers
    BY <1>2 DEF SubmitMessage, SubmitControl, ResumeHandled, StopSignal, Flush,
         CancelWorkers, Steady
  <1>3. CASE Handler
    <2>1. CASE SaveAndAnswer \/ Dispatch \/ StopWaiting \/ StartWorker
      BY <2>1 DEF SaveAndAnswer, Dispatch, StopWaiting, StartWorker, Steady, Connecting
    <2>2. CASE PushQueued \/ QueuePreparing \/ Reconnect
      BY <1>1, <2>2 DEF PushQueued, QueuePreparing, Reconnect, Steady, Session
    <2> QED
      BY <1>3, <2>1, <2>2 DEF Handler
  <1>4. CASE MarkActive \/ ResumeDue
    BY <1>1, <1>4, TurnOf DEF MarkActive, ResumeDue, Steady, Session
  <1>5. CASE Restart
    <2>1. mem = disk /\ UNCHANGED <<pc, output, provider>>
      BY <1>5 DEF Restart, AtRest
    <2>2. PICK recent \in 0..mem.resumes : mem' = AfterRestart(mem, recent)
      BY <1>5, <2>1 DEF Restart
    <2> QED
      BY <1>1, <2>1, <2>2, TurnOf DEF Steady
  <1> QED
    BY <1>2, <1>3, <1>4, <1>5

\* So does the worker where it does not read what the provider wrote.
LEMMA WorkerSteady ==
  ASSUME TypeOK,
         \/ SetUp \/ FirstQueued \/ FirstCommand \/ StartFails \/ Connect
         \/ ConnectDone \/ Initial \/ Resumed \/ NotAttempted \/ Intend \/ Write
         \/ TakeQueued \/ SaveTaken \/ NothingQueued \/ LoopDrained \/ NoCommand
         \/ LoopWake \/ LoopEnds \/ Drained \/ DrainFails \/ TakeWaiting
         \/ WaitingSent \/ WorkerExits \/ LoopCommand
  PROVE  Steady /\ UNCHANGED <<output, provider>>
  <1> USE DEF workerVars, sendVars, providerVars, Connecting
  <1>1. mem \in Session
    BY DEF TypeOK
  <1>2. CASE SetUp \/ FirstQueued \/ FirstCommand
    BY <1>1, <1>2 DEF SetUp, FirstQueued, FirstCommand, LeaveEmpty, Steady, Session
  <1>3. CASE Connect
    <2> DEFINE open == [mem EXCEPT !.thread = TRUE, !.status = "Idle"]
    <2>1. open \in Session /\ open.turn = mem.turn /\ open.completed = mem.completed
      BY <1>1 DEF Session, Status
    <2> HIDE DEF open
    <2>2. mem' \in {open, Restored(open, provider.history \cap Msg)}
      BY <1>3 DEF Connect, open
    <2> QED
      BY <1>3, <2>1, <2>2, TurnOf DEF Connect, Steady
  <1>4. CASE StartFails \/ ConnectDone \/ Initial \/ Resumed
    BY <1>4 DEF StartFails, ConnectDone, Initial, Resumed, Steady
  <1>5. CASE NotAttempted \/ TakeQueued \/ TakeWaiting
    BY <1>1, <1>5 DEF NotAttempted, AfterFailure, TakeQueued, TakeWaiting, Steady, Session
  <1>6. CASE Intend
    BY <1>1, <1>6, TurnOf DEF Intend, Steady
  <1>7. CASE \/ Write \/ SaveTaken \/ NothingQueued \/ LoopDrained \/ NoCommand
             \/ LoopWake \/ LoopEnds \/ Drained \/ DrainFails \/ WaitingSent \/ WorkerExits
    BY <1>7 DEF Write, SaveTaken, NothingQueued, LoopDrained, NoCommand, LoopWake,
         LoopEnds, Drained, DrainFails, WaitingSent, WorkerExits, Steady
  <1>8. CASE LoopCommand
    <2>1. UNCHANGED <<output, provider>>
      BY <1>8 DEF LoopCommand
    <2>2. ASSUME NEW c, \/ CommandMessage(c.msg, c.queue) \/ CommandRemove(c.msg, c.index)
                        \/ CommandSendWaiting \/ CommandResume
          PROVE  Steady
      BY <1>1, <2>2 DEF CommandMessage, CommandRemove, CommandSendWaiting, Interrupting,
           CommandResume, Steady, Session
    <2>3. ASSUME CommandInterrupt PROVE Steady
      <3> DEFINE stopped == [mem EXCEPT !.status = "Interrupted"]
      <3>1. /\ stopped \in Session /\ stopped.turn = mem.turn
            /\ stopped.completed = mem.completed
        BY <1>1 DEF Session, Status
      <3>2. mem' \in {mem, QueueUnsent(stopped)} /\ pc' \in {"call", "house"}
        BY <2>3 DEF CommandInterrupt, Interrupting
      <3> HIDE DEF stopped
      <3> QED
        BY <3>1, <3>2, TurnOf DEF Steady
    <2> QED
      BY <1>8, <2>1, <2>2, <2>3 DEF LoopCommand
  <1> QED
    BY <1>2, <1>3, <1>4, <1>5, <1>6, <1>7, <1>8

\* The worker where it reads what the provider wrote, or gives up waiting.
LEMMA WorkerHearsTurns ==
  ASSUME TypeOK, Calls, Turns,
         EventWhileWaiting \/ LoopEvent \/ Acknowledged \/ CallFails
  PROVE  Turns'
  <1>1. mem \in Session
    BY DEF TypeOK
  <1>2. CASE EventWhileWaiting \/ LoopEvent
    <2>1. /\ pc \notin Connecting
          /\ mem' \in {ApplyEvent(mem, Head(output)), ApplyKeepingQueue(mem, Head(output))}
      BY <1>2 DEF EventWhileWaiting, LoopEvent, Connecting
    <2> QED
      BY <1>2, <2>1, WorkerReads, ReadingTurns
  <1>3. CASE Acknowledged
    <2> DEFINE stopped == [mem EXCEPT !.status = "Interrupted"]
               t == Head(output).turn
    <2>1. /\ stopped \in Session /\ stopped.turn = mem.turn
          /\ stopped.completed = mem.completed
      BY <1>1 DEF Session, Status
    <2> HIDE DEF stopped
    <2>2. pc' \notin Connecting
      BY <1>3 DEF Acknowledged, AfterReply, Connecting
    <2>3. CASE Sends
      <3>1. mem' = SendAccepted(mem, hand, t)
        BY <1>3, <2>3 DEF Acknowledged
      <3>2. /\ mem'.completed = mem.completed
            /\ \/ mem'.turn = mem.turn
               \/ mem'.turn = t /\ t # 0 /\ mem.completed # t
        <4> HIDE DEF t
        <4> QED BY <1>1, <3>1 DEF SendAccepted, Session
      <3> QED
        BY <1>3, <2>2, <3>2, WorkerReads, HearingTurns
    <2>4. CASE ~Sends
      <3>1. mem' \in {mem, QueueUnsent(stopped)}
        BY <1>3, <2>4 DEF Acknowledged, stopped
      <3>2. mem'.completed = mem.completed /\ mem'.turn = mem.turn
        BY <2>1, <3>1, TurnOf
      <3> QED
        BY <1>3, <2>2, <3>2, WorkerReads, HearingTurns
    <2> QED
      BY <2>3, <2>4
  <1>4. CASE CallFails
    <2>1. mem' \in {mem, SendFailed(mem)} /\ pc' \notin Connecting /\ Abandon
      BY <1>4 DEF CallFails, AfterFailure, Connecting
    <2>2. Steady
      BY <1>1, <2>1, TurnOf DEF Steady
    <2> QED
      BY <2>1, <2>2, AbandonTurns
  <1> QED
    BY <1>2, <1>3, <1>4

\* A crash is counted.
LEMMA OnlyCrashCounts ==
  ASSUME TypeOK, [Next]_vars
  PROVE  /\ Crash => crashes' # 0
         /\ ~Crash => crashes' = crashes
  <1> USE DEF serviceVars
  <1>0. Crash => crashes' # 0 /\ crashes' # crashes
    BY ServiceAssumption DEF Crash, TypeOK
  <1> SUFFICES ASSUME ~Crash PROVE crashes' = crashes
    BY <1>0
  <1>1. CASE SubmitMessage \/ SubmitControl \/ Handler
    BY <1>1 DEF SubmitMessage, SubmitControl, Handler, PushQueued, QueuePreparing,
         SaveAndAnswer, Dispatch, StopWaiting, Reconnect, StartWorker
  <1>2. CASE Worker
    <2>1. CASE \/ SetUp \/ FirstQueued \/ FirstCommand \/ StartFails \/ Connect
               \/ ConnectDone \/ Initial \/ Resumed \/ NotAttempted \/ Intend
               \/ Write \/ EventWhileWaiting \/ Acknowledged \/ CallFails
      BY <2>1 DEF SetUp, FirstQueued, FirstCommand, StartFails, Connect, ConnectDone,
           Initial, Resumed, NotAttempted, Intend, Write, EventWhileWaiting,
           Acknowledged, CallFails
    <2>2. CASE \/ TakeQueued \/ SaveTaken \/ NothingQueued \/ LoopEvent \/ LoopDrained
               \/ NoCommand \/ LoopWake \/ LoopEnds \/ LoopCommand \/ Drained
               \/ DrainFails \/ TakeWaiting \/ WaitingSent \/ WorkerEnds \/ WorkerExits
      BY <2>2 DEF TakeQueued, SaveTaken, NothingQueued, LoopEvent, LoopDrained,
           NoCommand, LoopWake, LoopEnds, LoopCommand, Drained, DrainFails,
           TakeWaiting, WaitingSent, WorkerEnds, WorkerExits
    <2> QED
      BY <1>2, <2>1, <2>2 DEF Worker
  <1>3. CASE CodexProvider
    BY <1>3 DEF CodexProvider, ProviderReads, ProviderReplies, ProviderStartsTurn,
         ProviderEchoes, ProviderEndsTurn, ProviderDies
  <1>4. CASE Service \/ StopSignal
    BY <1>4 DEF Service, StopSignal, Flush, MarkActive, CancelWorkers, Exit, Restart,
         ResumeDue, ResumeHandled
  <1>5. CASE UNCHANGED vars
    BY <1>5 DEF vars
  <1> QED
    BY <1>1, <1>2, <1>3, <1>4, <1>5 DEF Next

\* Every step but a crash keeps the turn real.
LEMMA TurnsKept ==
  ASSUME Inv, Calls, Turns, [Next]_vars, ~Crash
  PROVE  Turns'
  <1>1. CASE Worker
    BY <1>1, WorkerSteady, SteadyTurns, WorkerHearsTurns, CeasingTurns DEF Worker, Inv
  <1>2. CASE CodexProvider
    BY <1>2, ProviderReadsTurns, ProviderRepliesTurns, SpeakingTurns, CeasingTurns
       DEF CodexProvider, Inv
  <1>3. CASE Exit
    BY <1>3, CeasingTurns DEF Inv
  <1>4. CASE \/ SubmitMessage \/ SubmitControl \/ Handler \/ StopSignal
             \/ Flush \/ MarkActive \/ CancelWorkers \/ Restart \/ ResumeDue \/ ResumeHandled
    BY <1>4, OthersAreSteady, SteadyTurns DEF Inv
  <1>5. CASE UNCHANGED vars
    <2>1. Steady /\ UNCHANGED <<output, provider>>
      BY <1>5 DEF vars, workerVars, providerVars, Steady
    <2> QED
      BY <2>1, SteadyTurns
  <1> QED
    BY <1>1, <1>2, <1>3, <1>4, <1>5 DEF Next, Service

\* No turn runs in the beginning.
LEMMA TurnsStart == Init => Turns
  <1> SUFFICES ASSUME Init PROVE Turns
    OBVIOUS
  <1>1. output = <<>> /\ provider.owed = <<>>
    BY DEF Init, InitEmpty, InitPrompt, InitRest
  <1>2. mem.turn = 0
    <2>1. CASE InitEmpty
      BY <2>1 DEF InitEmpty, NewSession
    <2>2. CASE InitPrompt
      <3>1. PICK x \in Msg : mem = [NewSession EXCEPT !.marks[x] = {"launch"}]
        BY <2>2 DEF InitPrompt
      <3> QED
        BY <3>1 DEF NewSession
    <2> QED
      BY <2>1, <2>2 DEF Init
  <1>3. ~Owing /\ DOMAIN output = {}
    BY <1>1 DEF Owing
  <1> QED
    BY <1>2, <1>3 DEF Turns

\* Until the service has crashed, a turn the session shows as running runs, or
\* the news of its end is on the way (send_turn, apply_event, worker_ended).  A
\* crash may leave in the file the turn of a session that was interrupted, and
\* after_restart takes away the turn of a working session only.
THEOREM TurnIsReal == Spec => [](crashes = 0 => RunningTurnIsReal)
  <1> DEFINE J == crashes = 0 => Turns
  <1>1. Inv /\ Calls /\ J /\ [Next]_vars => J'
    <2> SUFFICES ASSUME Inv, Calls, J, [Next]_vars, crashes' = 0 PROVE Turns'
      OBVIOUS
    <2>1. ~Crash /\ crashes = 0
      BY OnlyCrashCounts DEF Inv
    <2> QED
      BY <2>1, TurnsKept
  <1>2. Init => J
    BY TurnsStart
  <1>3. Inv /\ J => (crashes = 0 => RunningTurnIsReal)
    <2> SUFFICES ASSUME Inv, Turns, mem.turn # 0, svc # "down" PROVE RunningTurnIsReal
      BY DEF RunningTurnIsReal
    <2>1. mem.turn \in Turn \ {0}
      BY DEF Inv, TypeOK, Session
    <2>2. Runs(mem.turn) /\ pc \notin {"none", "ended"}
      BY <2>1 DEF Turns, Connecting
    <2> QED
      BY <2>2 DEF RunningTurnIsReal, Runs, Ends
  <1> HIDE DEF J
  <1> QED
    BY <1>1, <1>2, <1>3, ToldAlways, PTL DEF Spec

-----------------------------------------------------------------------------
(* Nothing is sent once an Interrupt was carried out *)

\* A worker that is interrupted has nothing to send: it is about to end, or it
\* is in its loop or interrupts once more, and its queue is empty.
Resting ==
  \/ pc \in {"none", "ending", "ended"}
  \/ /\ mem.queue = <<>>
     /\ \/ pc \in {"house", "loop", "command", "sleep"}
        \/ pc = "call" /\ via = "interrupt"

\* A new worker is started where no other receives, and only to send.
Quiet ==
  /\ halted => Resting
  /\ hpc \in {"reconnect", "start"} => ~Receiving
  /\ hpc = "start" => ~halted

\* Steps that neither touch the worker nor fill its queue.
LEMMA QuietStill ==
  ASSUME Quiet, UNCHANGED <<pc, via, halted>>,
         mem.queue = <<>> => mem'.queue = <<>>,
         hpc' \notin {"reconnect", "start"} \/ UNCHANGED hpc
  PROVE  Quiet'
  BY DEF Quiet, Resting, Receiving

\* Steps of the worker, which leave the handler alone.
LEMMA QuietWorker ==
  ASSUME Quiet, UNCHANGED hpc, Receiving' => Receiving,
         halted' => halted \/ Receiving, halted' => Resting'
  PROVE  Quiet'
  BY DEF Quiet

\* The handler asks again for something to be sent, or fills no queue.
LEMMA HandlerQuiet ==
  ASSUME TypeOK, Quiet, SubmitMessage \/ SubmitControl \/ ResumeHandled \/ Handler
  PROVE  Quiet'
  <1> USE DEF workerVars, sendVars, historyVars, handlerVars
  <1>1. ASSUME NEW c, Accept(c) PROVE hpc' \in {"push", "prepare", "dispatch"}
    BY <1>1 DEF Accept, Read
  <1>2. CASE SubmitMessage \/ SubmitControl \/ ResumeHandled
    BY <1>1, <1>2, QuietStill DEF SubmitMessage, SubmitControl, ResumeHandled
  <1>3. CASE PushQueued
    BY <1>3 DEF PushQueued, Proceed, Quiet
  <1>4. CASE QueuePreparing
    <2>1. mem.queue = <<>> => DOMAIN mem.queue = {}
      OBVIOUS
    <2> QED
      BY <1>4, <2>1, QuietStill DEF QueuePreparing, Proceed, Read, Quiet, Holds
  <1>5. CASE SaveAndAnswer \/ StopWaiting
    BY <1>5, QuietStill DEF SaveAndAnswer, StopWaiting, Proceed
  <1>6. CASE Dispatch
    BY <1>6 DEF Dispatch, Proceed, Quiet, Resting, Receiving
  <1>7. CASE Reconnect
    BY <1>7 DEF Reconnect, Proceed, Quiet, Receiving
  <1>8. CASE StartWorker
    BY <1>8 DEF StartWorker, Proceed, Quiet, Resting, Receiving
  <1> QED
    BY <1>2, <1>3, <1>4, <1>5, <1>6, <1>7, <1>8 DEF Handler

\* The worker sends nothing of its own once it was interrupted.
LEMMA WorkerQuiet ==
  ASSUME TypeOK, Quiet, Worker
  PROVE  Quiet'
  <1> USE DEF workerVars, sendVars, historyVars, handlerVars
  <1>1. mem \in Session
    BY DEF TypeOK
  <1>2. CASE \/ SetUp \/ FirstQueued \/ FirstCommand \/ Connect \/ ConnectDone
             \/ Initial \/ Resumed \/ Intend \/ Write \/ SaveTaken
             \/ TakeWaiting \/ WaitingSent \/ Drained \/ DrainFails \/ NotAttempted
    <2>1. UNCHANGED hpc /\ Receiving
      BY <1>2 DEF SetUp, FirstQueued, FirstCommand, Connect, ConnectDone, Initial,
           Resumed, Intend, Write, SaveTaken, TakeWaiting, WaitingSent, Drained,
           DrainFails, NotAttempted, Receiving
    <2>2. ~halted /\ (halted' => halted)
      BY <1>2 DEF SetUp, FirstQueued, FirstCommand, Connect, ConnectDone, Initial,
           Resumed, Intend, Write, SaveTaken, TakeWaiting, WaitingSent, Drained,
           DrainFails, NotAttempted, Quiet, Resting
    <2> QED
      BY <2>1, <2>2, QuietWorker
  <1>3. CASE StartFails \/ LoopEnds
    <2>1. UNCHANGED <<hpc, halted>> /\ Receiving /\ pc' = "ending"
      BY <1>3 DEF StartFails, LoopEnds, Receiving
    <2> QED
      BY <2>1, QuietWorker DEF Receiving, Resting
  <1>4. CASE LoopDrained \/ NoCommand \/ LoopWake \/ NothingQueued \/ TakeQueued
    <2>1. UNCHANGED <<hpc, halted>> /\ Receiving
      BY <1>4 DEF LoopDrained, NoCommand, LoopWake, NothingQueued, TakeQueued, Receiving
    <2>2. halted => Resting'
      BY <1>4 DEF LoopDrained, NoCommand, LoopWake, NothingQueued, TakeQueued,
           Quiet, Resting
    <2> QED
      BY <2>1, <2>2, QuietWorker
  <1>5. CASE EventWhileWaiting \/ LoopEvent
    <2>1. /\ mem' \in {ApplyEvent(mem, Head(output)), ApplyKeepingQueue(mem, Head(output))}
          /\ Head(output) \in Event \cup Reply /\ UNCHANGED <<pc, via, halted, hpc>>
      BY <1>5, TailTyped DEF EventWhileWaiting, LoopEvent, TypeOK
    <2>2. mem'.queue \in {mem.queue, <<>>}
      BY <1>1, <2>1, QueueAfterEvent
    <2> QED
      BY <2>1, <2>2, QuietStill
  <1>6. CASE Acknowledged \/ CallFails
    <2>1. UNCHANGED hpc /\ Receiving /\ pc = "call"
      BY <1>6 DEF Acknowledged, CallFails, Receiving
    <2>2. CASE via = "interrupt" /\ Acknowledged
      <3> DEFINE stopped == [mem EXCEPT !.status = "Interrupted"]
      <3>1. stopped \in Session
        BY <1>1 DEF Session, Status
      <3>2. mem' = QueueUnsent(stopped) /\ pc' = "house"
        BY <2>2 DEF Acknowledged, Sends, AfterReply
      <3> HIDE DEF stopped
      <3>3. mem'.queue = <<>>
        BY <3>1, <3>2, QueueOf
      <3> QED
        BY <2>1, <3>2, <3>3, QuietWorker DEF Resting, Receiving
    <2>3. CASE via = "interrupt" /\ CallFails
      <3>1. mem' = mem /\ pc' = "house" /\ halted' = halted
        BY <2>3 DEF CallFails, Sends
      <3> QED
        BY <2>1, <2>3, <3>1, QuietWorker DEF Resting, Quiet, Receiving
    <2>4. CASE via # "interrupt"
      <3>1. ~halted /\ halted' = halted
        BY <1>6, <2>1, <2>4 DEF Acknowledged, CallFails, Quiet, Resting
      <3> QED
        BY <2>1, <3>1, QuietWorker
    <2> QED
      BY <1>6, <2>2, <2>3, <2>4
  <1>7. CASE LoopCommand
    <2>1. UNCHANGED hpc /\ Receiving
      BY <1>7 DEF LoopCommand, Receiving
    <2>2. halted' => Resting'
      <3>0. pc = "command" /\ (halted => mem.queue = <<>>)
        BY <1>7 DEF LoopCommand, Quiet, Resting
      <3>1. ASSUME NEW c, CommandMessage(c.msg, c.queue) \/ CommandResume
            PROVE  halted' => Resting'
        BY <3>0, <3>1 DEF CommandMessage, CommandResume, Resting
      <3>2. ASSUME NEW c, CommandRemove(c.msg, c.index) PROVE halted' => Resting'
        <4>1. mem.queue = <<>> => DOMAIN mem.queue = {}
          OBVIOUS
        <4> QED
          BY <3>0, <3>2, <4>1 DEF CommandRemove, Holds, Resting
      <3>3. ASSUME CommandSendWaiting PROVE halted' => Resting'
        BY <3>0, <3>3 DEF CommandSendWaiting, Resting
      <3>4. ASSUME CommandInterrupt PROVE halted' => Resting'
        <4> DEFINE stopped == [mem EXCEPT !.status = "Interrupted"]
        <4>1. stopped \in Session
          BY <1>1 DEF Session, Status
        <4>2. \/ /\ UNCHANGED <<mem, halted>> /\ pc' = "call" /\ via' = "interrupt"
              \/ mem' = QueueUnsent(stopped) /\ pc' = "house"
          BY <3>4 DEF CommandInterrupt, Interrupting, Take
        <4> HIDE DEF stopped
        <4> QED
          BY <3>0, <4>1, <4>2, QueueOf DEF Resting
      <3> QED
        BY <1>7, <3>1, <3>2, <3>3, <3>4 DEF LoopCommand
    <2> QED
      BY <2>1, <2>2, QuietWorker
  <1>8. CASE WorkerEnds \/ WorkerExits
    BY <1>8, QuietWorker DEF WorkerEnds, WorkerExits, Receiving, Resting, Quiet
  <1> QED
    BY <1>2, <1>3, <1>4, <1>5, <1>6, <1>7, <1>8 DEF Worker

\* A service that stops, crashes or starts again sends nothing.
LEMMA OthersQuiet ==
  ASSUME TypeOK, AtRest, Quiet, CodexProvider \/ Service \/ StopSignal \/ Crash
  PROVE  Quiet'
  <1> USE DEF workerVars, sendVars, historyVars, handlerVars
  <1>1. mem \in Session
    BY DEF TypeOK
  <1>2. CASE CodexProvider
    BY <1>2, QuietStill DEF CodexProvider, ProviderReads, ProviderReplies,
         ProviderStartsTurn, ProviderEchoes, ProviderEndsTurn, ProviderDies
  <1>3. CASE Flush \/ StopSignal \/ CancelWorkers
    BY <1>3, QuietStill DEF Flush, StopSignal, CancelWorkers
  <1>4. CASE MarkActive \/ ResumeDue
    <2>1. mem'.queue = mem.queue
      BY <1>1, <1>4, QueueOf DEF MarkActive, ResumeDue, Session
    <2> QED
      BY <1>4, <2>1, QuietStill DEF MarkActive, ResumeDue
  <1>5. CASE Restart
    <2>1. mem = disk
      BY <1>5 DEF Restart, AtRest
    <2>2. PICK recent \in 0..mem.resumes : mem' = AfterRestart(mem, recent)
      BY <1>5, <2>1 DEF Restart
    <2>3. mem'.queue \in {mem.queue, <<>>}
      BY <1>1, <2>2, QueueAfterRestart
    <2> QED
      BY <1>5, <2>3, QuietStill DEF Restart
  <1>6. CASE Exit \/ Crash
    BY <1>6 DEF Exit, Crash, Gone, Quiet, Resting
  <1>7. CASE ResumeHandled
    BY <1>7, HandlerQuiet
  <1> QED
    BY <1>2, <1>3, <1>4, <1>5, <1>6, <1>7 DEF Service

\* Once a user's Interrupt was carried out nothing is written to the provider,
\* through failures, shutdowns, crashes and restarts, until somebody asks for
\* it again (Control::Interrupt in engine::command, send_queued).
THEOREM InterruptsHold == Spec => InterruptHolds
  <1>1. Inv /\ Quiet /\ [Next]_vars => Quiet'
    <2> SUFFICES ASSUME Inv, Quiet, [Next]_vars PROVE Quiet'
      OBVIOUS
    <2>1. CASE UNCHANGED vars
      BY <2>1, QuietStill DEF vars, handlerVars, workerVars, sendVars, historyVars
    <2> QED
      BY <2>1, HandlerQuiet, WorkerQuiet, OthersQuiet DEF Next, Inv
  <1>2. Init => Quiet
    BY DEF Init, InitEmpty, InitPrompt, InitRest, Quiet
  <1>3. Quiet /\ [Next]_vars => [halted => sent' = sent]_vars
    <2> SUFFICES ASSUME Quiet, [Next]_vars, halted PROVE sent' = sent
      OBVIOUS
    <2>1. ~Write
      BY DEF Write, Quiet, Resting
    <2> QED
      BY <2>1, OnlyWriteSends
  <1> QED
    BY <1>1, <1>2, <1>3, OneCopyAlways, InitOneCopy, NextOneCopy, PTL DEF Spec, InterruptHolds

-----------------------------------------------------------------------------
(* No message that was taken is lost while the service runs on *)

\* The change of the session that takes the message in is made, and is saved
\* before the user is answered.
Pushed(m) == hpc = "save" /\ IsMessage(hctl) /\ hctl.msg = m

\* The worker took the message out of the queue and has not recorded it yet.
TakenOut(m) == pc \in {"popped", "intent"} /\ via \in {"queue", "waiting"} /\ hand = m

Kept(m) == mem.marks[m] # {} \/ m \in Range(mem.queue) \/ TakenOut(m)

\* Users remove what is queued: never the message that is being taken in.
Withdrawals ==
  /\ hctl.kind = "remove" => hctl.msg \in submitted
  /\ \A i \in DOMAIN inbox : inbox[i].kind = "remove" =>
       /\ inbox[i].msg \in submitted
       /\ IsMessage(hctl) => inbox[i].msg # hctl.msg

\* Every message taken is kept, and so is the one a new worker is given.
Keeps ==
  /\ \A m \in Msg : m \in acked \/ Pushed(m) => Kept(m)
  /\ hpc = "start" /\ IsMessage(hctl) => mem.marks[hctl.msg] # {}

\* Steps that put no removal into a channel.
LEMMA WithdrawalsStill ==
  ASSUME TypeOK, Withdrawals, submitted \subseteq submitted',
         hctl' = hctl \/ hctl'.kind \notin {"remove", "message"},
         \/ inbox' = inbox \/ inbox' = <<>>
         \/ inbox # <<>> /\ inbox' = Tail(inbox)
  PROVE  Withdrawals'
  <1>1. \A i \in DOMAIN inbox' : \E j \in DOMAIN inbox : inbox'[i] = inbox[j]
    <2>1. CASE inbox # <<>> /\ inbox' = Tail(inbox)
      BY <2>1, Shorter DEF TypeOK
    <2> QED
      BY <2>1
  <1> QED
    BY <1>1 DEF Withdrawals, IsMessage

\* The removal that users ask for, on its way to the worker.
LEMMA HandlerWithdraws ==
  ASSUME TypeOK, OneCopy, Withdrawals,
         SubmitMessage \/ SubmitControl \/ ResumeHandled \/ Dispatch
  PROVE  Withdrawals'
  <1> USE DEF userVars, channelVars
  <1>1. \A c : Accept(c) => hctl' = c
    BY DEF Accept, Read
  <1>2. CASE SubmitMessage
    <2>1. PICK m \in Msg \ submitted, queue \in BOOLEAN :
            /\ Accept(Message(m, queue)) /\ submitted' = submitted \cup {m}
            /\ UNCHANGED inbox
      BY <1>2 DEF SubmitMessage
    <2>2. hctl'.kind = "message" /\ hctl'.msg = m
      BY <1>1, <2>1 DEF Message
    <2> QED
      BY <2>1, <2>2 DEF Withdrawals
  <1>3. CASE SubmitControl
    <2>1. PICK c \in UserControl : Accept(c) /\ UNCHANGED <<inbox, submitted>>
      BY <1>3 DEF SubmitControl
    <2>2. CASE \E kind \in {"interrupt", "sendWaiting", "resume"} : c = Plain(kind)
      <3>1. hctl'.kind \notin {"remove", "message"}
        BY <1>1, <2>1, <2>2 DEF Plain
      <3> QED
        BY <2>1, <3>1, WithdrawalsStill
    <2>3. CASE \E i \in DOMAIN mem.queue : c = Withdraw(mem.queue[i], i)
      <3>1. PICK i \in DOMAIN mem.queue : c = Withdraw(mem.queue[i], i)
        BY <2>3
      <3>2. mem.queue[i] \in Msg /\ mem.queue[i] \in Range(mem.queue)
        BY ElementOfSeq DEF TypeOK, Session, Range
      <3>3. mem.queue[i] \in submitted
        BY <3>2 DEF OneCopy, OnePlace, Live
      <3>4. hctl'.kind = "remove" /\ hctl'.msg = mem.queue[i]
        BY <1>1, <2>1, <3>1 DEF Withdraw
      <3> QED
        BY <2>1, <3>3, <3>4 DEF Withdrawals, IsMessage
    <2> QED
      BY <2>1, <2>2, <2>3 DEF UserControl
  <1>4. CASE ResumeHandled
    <2>1. hctl'.kind \notin {"remove", "message"} /\ UNCHANGED <<inbox, submitted>>
      BY <1>1, <1>4 DEF ResumeHandled, Plain
    <2> QED
      BY <2>1, WithdrawalsStill
  <1>5. CASE Dispatch
    <2>1. CASE inbox' = Append(inbox, hctl) /\ hctl' = hctl /\ UNCHANGED submitted
      <3>1. \A i \in DOMAIN inbox' :
              inbox'[i] = hctl \/ \E j \in DOMAIN inbox : inbox'[i] = inbox[j]
        BY <2>1, Longer DEF TypeOK
      <3> QED
        BY <2>1, <3>1 DEF Withdrawals, IsMessage
    <2>2. CASE /\ inbox' = inbox /\ UNCHANGED submitted
               /\ hctl' = hctl \/ hctl' = Plain("none")
      <3>1. hctl' = hctl \/ hctl'.kind \notin {"remove", "message"}
        BY <2>2 DEF Plain
      <3> QED
        BY <2>2, <3>1, WithdrawalsStill
    <2> QED
      BY <1>5, <2>1, <2>2 DEF Dispatch, Proceed
  <1> QED
    BY <1>2, <1>3, <1>4, <1>5

\* No other step brings one about.
LEMMA WithdrawalsKept ==
  ASSUME TypeOK, OneCopy, Withdrawals, [Next]_vars
  PROVE  Withdrawals'
  <1> USE DEF userVars, channelVars, handlerVars
  <1>1. CASE SubmitMessage \/ SubmitControl \/ ResumeHandled \/ Dispatch
    BY <1>1, HandlerWithdraws
  <1> DEFINE Aside ==
        /\ submitted' = submitted
        /\ hctl' = hctl \/ hctl' = Plain("none")
        /\ \/ inbox' = inbox \/ inbox' = <<>>
           \/ inbox # <<>> /\ inbox' = Tail(inbox)
  <1>2. CASE Handler /\ ~Dispatch
    <2>1. Aside
      BY <1>2 DEF Handler, PushQueued, QueuePreparing, SaveAndAnswer, StopWaiting,
           Reconnect, StartWorker, Proceed, Read
    <2> QED
      BY <2>1, WithdrawalsStill DEF Plain
  <1>3. CASE Worker
    <2>1. CASE \/ SetUp \/ FirstQueued \/ FirstCommand \/ StartFails \/ Connect
               \/ ConnectDone \/ Initial \/ Resumed \/ NotAttempted \/ Intend
               \/ Write \/ EventWhileWaiting \/ Acknowledged \/ CallFails
      <3>1. Aside
        BY <2>1 DEF SetUp, FirstQueued, FirstCommand, StartFails, Connect, ConnectDone,
           Initial, Resumed, NotAttempted, Intend, Write, EventWhileWaiting,
           Acknowledged, CallFails
      <3> QED
        BY <3>1, WithdrawalsStill DEF Plain
    <2>2. CASE \/ TakeQueued \/ SaveTaken \/ NothingQueued \/ LoopEvent \/ LoopDrained
               \/ NoCommand \/ LoopWake \/ LoopEnds \/ LoopCommand \/ Drained
               \/ DrainFails \/ TakeWaiting \/ WaitingSent \/ WorkerEnds \/ WorkerExits
      <3>1. Aside
        BY <2>2 DEF TakeQueued, SaveTaken, NothingQueued, LoopEvent, LoopDrained,
           NoCommand, LoopWake, LoopEnds, LoopCommand, Drained, DrainFails,
           TakeWaiting, WaitingSent, WorkerEnds, WorkerExits
      <3> QED
        BY <3>1, WithdrawalsStill DEF Plain
    <2> QED
      BY <1>3, <2>1, <2>2 DEF Worker
  <1>4. CASE CodexProvider
    <2>1. Aside
      BY <1>4 DEF CodexProvider, ProviderReads, ProviderReplies, ProviderStartsTurn,
         ProviderEchoes, ProviderEndsTurn, ProviderDies
    <2> QED
      BY <2>1, WithdrawalsStill DEF Plain
  <1>5. CASE (Service /\ ~ResumeHandled) \/ StopSignal \/ Crash
    <2>1. Aside
      BY <1>5 DEF Service, StopSignal, Flush, MarkActive, CancelWorkers, Exit, Restart,
         ResumeDue, Crash, Gone
    <2> QED
      BY <2>1, WithdrawalsStill DEF Plain
  <1>6. CASE UNCHANGED vars
    BY <1>6, WithdrawalsStill DEF vars
  <1> QED
    BY <1>1, <1>2, <1>3, <1>4, <1>5, <1>6 DEF Next, Service

\* A change that loses no message of the session: an entry stays, and what is
\* no longer queued has one.
Saves(s, t) ==
  \A m \in Msg :
    /\ s.marks[m] # {} => t.marks[m] # {}
    /\ m \in Range(s.queue) => m \in Range(t.queue) \/ t.marks[m] # {}

LEMMA ChangesSave ==
  ASSUME NEW s, NEW t, NEW D, Changes(s, t, D)
  PROVE  Saves(s, t)
  BY DEF Changes, Alters, Saves

LEMMA SameSaves ==
  ASSUME NEW s, NEW t, t.marks = s.marks, t.queue = s.queue
  PROVE  Saves(s, t)
  BY DEF Saves

\* A queue that grows by a message holds what it held, and that message.
LEMMA MoreQueued ==
  ASSUME NEW q \in Seq(Msg), NEW m \in Msg
  PROVE  Range(Append(q, m)) = Range(q) \cup {m}
  BY Longer DEF Range

\* A queue holds its head and the rest.
LEMMA HeadAndRest ==
  ASSUME NEW q \in Seq(Msg), q # <<>>
  PROVE  Range(q) \subseteq {Head(q)} \cup Range(Tail(q))
  <1>1. /\ DOMAIN q = 1..Len(q) /\ Len(q) \in Nat \ {0} /\ Head(q) = q[1]
        /\ DOMAIN Tail(q) = 1..(Len(q) - 1)
        /\ \A i \in DOMAIN Tail(q) : Tail(q)[i] = q[i + 1]
    BY Shorter
  <1>2. ASSUME NEW i \in DOMAIN q, i # 1 PROVE q[i] \in Range(Tail(q))
    <2>1. i - 1 \in DOMAIN Tail(q) /\ Tail(q)[i - 1] = q[i]
      BY <1>1, <1>2
    <2> QED
      BY <2>1 DEF Range
  <1> QED
    BY <1>1, <1>2 DEF Range

\* A queue without one of its elements holds all the others.
LEMMA OthersStayQueued ==
  ASSUME NEW q \in Seq(Msg), NEW i \in DOMAIN q
  PROVE  Range(q) \ {q[i]} \subseteq Range(RemoveAt(q, i))
  <1> DEFINE r == RemoveAt(q, i)
  <1>1. /\ DOMAIN r = 1..(Len(q) - 1) /\ DOMAIN q = 1..Len(q) /\ Len(q) \in Nat
        /\ \A k \in DOMAIN r : r[k] = q[IF k < i THEN k ELSE k + 1]
    BY RemoveAtIs, LenProperties
  <1> HIDE DEF r
  <1>2. ASSUME NEW k \in DOMAIN q, k # i
        PROVE  q[k] \in Range(r)
    <2>1. CASE k < i
      <3>1. k \in DOMAIN r /\ r[k] = q[k]
        BY <1>1, <2>1
      <3> QED
        BY <3>1 DEF Range
    <2>2. CASE k > i
      <3>1. k - 1 \in DOMAIN r /\ r[k - 1] = q[k]
        BY <1>1, <2>2
      <3> QED
        BY <3>1 DEF Range
    <2> QED
      BY <1>1, <1>2, <2>1, <2>2
  <1> QED
    BY <1>2 DEF Range, r

\* Steps that lose no message of the session.
LEMMA KeepsStill ==
  ASSUME TypeOK, Keeps, Saves(mem, mem'),
         \A m \in Msg : m \in acked' \/ Pushed(m)' => m \in acked \/ Pushed(m) \/ Kept(m)',
         \A m \in Msg : TakenOut(m) => Kept(m)',
         hpc' = "start" => UNCHANGED <<hpc, hctl>>
  PROVE  Keeps'
  <1>1. IsMessage(hctl) => hctl.msg \in Msg
    BY DEF TypeOK, Control, IsMessage
  <1> QED
    BY <1>1 DEF Keeps, Kept, Saves

\* Those that take no message in and leave the worker's hands alone.
LEMMA SavesKeep ==
  ASSUME TypeOK, Keeps, Saves(mem, mem'), acked' = acked,
         UNCHANGED <<hpc, hctl>> \/ hpc' \notin {"save", "start"},
         UNCHANGED <<pc, via, hand>> \/ pc \notin {"popped", "intent"}
  PROVE  Keeps'
  <1>1. \A m \in Msg : Pushed(m)' => Pushed(m)
    BY DEF Pushed, IsMessage
  <1>2. \A m \in Msg : TakenOut(m) => TakenOut(m)'
    BY DEF TakenOut
  <1> QED
    BY <1>1, <1>2, KeepsStill DEF Kept

\* A removal, whose message is not due to its user any more.
LEMMA RemovalKeeps ==
  ASSUME TypeOK, Keeps, NEW i \in DOMAIN mem.queue, NEW x, x = mem.queue[i],
         mem'.queue = RemoveAt(mem.queue, i), mem'.marks = mem.marks,
         acked' \subseteq acked \ {x}, ~Pushed(x)',
         UNCHANGED <<hpc, hctl>> \/ (hpc' = "save" /\ hctl'.kind = "remove"),
         UNCHANGED <<pc, via, hand>> \/ pc \notin {"popped", "intent"}
  PROVE  Keeps'
  <1>1. \A m \in Msg : Pushed(m)' => Pushed(m)
    BY DEF Pushed, IsMessage
  <1>2. \A m \in Msg : TakenOut(m) => TakenOut(m)'
    BY DEF TakenOut
  <1>3. \A m \in Range(mem.queue) : m # x => m \in Range(mem.queue)'
    BY OthersStayQueued DEF TypeOK, Session
  <1>4. hpc' = "start" => UNCHANGED <<hpc, hctl>>
    OBVIOUS
  <1> QED
    BY <1>1, <1>2, <1>3, <1>4 DEF Keeps, Kept

\* The prompt that is recorded has an entry from then on, and a call that fails
\* takes none away.
LEMMA SendingSaves ==
  ASSUME NEW s \in Session
  PROVE  /\ \A p, steer : Saves(s, SendIntent(s, p, steer))
         /\ \A steer : \A m \in Msg : SendIntent(s, m, steer).marks[m] # {}
         /\ Saves(s, SendFailed(s))
  <1>1. \A p, steer : Saves(s, SendIntent(s, p, steer))
    BY EntryChanges, ChangesSave
  <1>2. \A steer : \A m \in Msg : SendIntent(s, m, steer).marks[m] # {}
    BY DEF SendIntent, Session
  <1>3. Saves(s, SendFailed(s))
    <2> DEFINE refused == SendRefused(s, hand)
    <2>1. Saves(s, refused) /\ refused.queue = s.queue
      BY EntryChanges, ChangesSave, QueueOf
    <2>2. {"marks", "queue"} \subseteq DOMAIN refused
      BY DEF SendRefused, Session
    <2>3. \/ SendFailed(s) = refused
          \/ SendFailed(s) = [refused EXCEPT !.marks = Noted(@, {hand}, "unsent")]
      BY DEF SendFailed
    <2> HIDE DEF refused
    <2>4. CASE SendFailed(s) = [refused EXCEPT !.marks = Noted(@, {hand}, "unsent")]
      <3> DEFINE u == SendFailed(s)
      <3>1. u.queue = refused.queue /\ u.marks = Noted(refused.marks, {hand}, "unsent")
        BY <2>2, <2>4
      <3> HIDE DEF u
      <3>2. \A m \in Msg : refused.marks[m] # {} => u.marks[m] # {}
        BY <3>1 DEF Noted
      <3> QED
        BY <2>1, <3>1, <3>2 DEF Saves, u
    <2> QED
      BY <2>1, <2>3, <2>4
  <1> QED
    BY <1>1, <1>2, <1>3

\* What the handler takes in it keeps, before it answers.
LEMMA HandlerKeepsKept ==
  ASSUME TypeOK, Keeps, SubmitMessage \/ SubmitControl \/ ResumeHandled \/ Handler
  PROVE  Keeps'
  <1> USE DEF userVars, workerVars, sendVars
  <1>1. mem \in Session /\ hctl \in Control /\ (hpc = "push" => IsMessage(hctl))
    BY DEF TypeOK
  <1>2. CASE SubmitMessage \/ SubmitControl \/ ResumeHandled
    <2>1. \A c : Accept(c) => hpc' \notin {"save", "start"}
      BY DEF Accept, Read
    <2>2. UNCHANGED <<mem, acked, pc, via, hand>> /\ hpc' \notin {"save", "start"}
      BY <1>2, <2>1 DEF SubmitMessage, SubmitControl, ResumeHandled
    <2> QED
      BY <2>2, SameSaves, SavesKeep
  <1>3. ASSUME IsMessage(hctl), mem' = [mem EXCEPT !.queue = Append(@, hctl.msg)],
               Proceed("save"), UNCHANGED <<acked, pc, via, hand>>
        PROVE  Keeps'
    <2>1. hctl.msg \in Msg /\ hctl' = hctl /\ hpc' = "save"
      BY <1>1, <1>3 DEF Control, IsMessage, Proceed
    <2>2. mem'.marks = mem.marks /\ Range(mem'.queue) = Range(mem.queue) \cup {hctl.msg}
      BY <1>1, <1>3, <2>1, MoreQueued DEF Session
    <2>3. Saves(mem, mem')
      BY <2>2 DEF Saves
    <2>4. \A m \in Msg : Pushed(m)' => Kept(m)'
      BY <2>1, <2>2 DEF Pushed, Kept
    <2>5. \A m \in Msg : TakenOut(m) => Kept(m)'
      BY <1>3 DEF TakenOut, Kept
    <2> QED
      BY <1>3, <2>1, <2>3, <2>4, <2>5, KeepsStill
  <1>4. CASE PushQueued
    BY <1>1, <1>3, <1>4 DEF PushQueued
  <1>5. CASE QueuePreparing
    <2>1. CASE mem' = mem /\ acked' = acked /\ hpc' \notin {"save", "start"}
      BY <1>5, <2>1, SameSaves, SavesKeep DEF QueuePreparing
    <2>2. CASE IsMessage(hctl) /\ mem' = [mem EXCEPT !.queue = Append(@, hctl.msg)]
               /\ Proceed("save") /\ acked' = acked
      BY <1>3, <1>5, <2>2 DEF QueuePreparing
    <2>3. CASE /\ hctl.kind = "remove" /\ Holds(mem.queue, hctl.index, hctl.msg)
               /\ mem' = [mem EXCEPT !.queue = RemoveAt(@, hctl.index)]
               /\ Proceed("save") /\ acked' = acked \ {hctl.msg}
      <3>1. /\ mem'.queue = RemoveAt(mem.queue, hctl.index) /\ mem'.marks = mem.marks
            /\ hctl.index \in DOMAIN mem.queue /\ mem.queue[hctl.index] = hctl.msg
        BY <1>1, <2>3 DEF Holds, Session
      <3>2. /\ hpc' = "save" /\ hctl'.kind = "remove" /\ UNCHANGED <<pc, via, hand>>
            /\ \A m : ~Pushed(m)'
        BY <1>5, <2>3 DEF QueuePreparing, Proceed, Pushed, IsMessage
      <3> QED
        BY <2>3, <3>1, <3>2, RemovalKeeps
    <2> QED
      BY <1>5, <2>1, <2>2, <2>3 DEF QueuePreparing, Read, Proceed
  <1>6. CASE SaveAndAnswer
    <2>1. /\ UNCHANGED <<mem, pc, via, hand>> /\ hpc' = "free"
          /\ \A m \in Msg : m \in acked' => m \in acked \/ Pushed(m)
      BY <1>6 DEF SaveAndAnswer, Proceed, Pushed
    <2>2. \A m \in Msg : ~Pushed(m)' /\ (TakenOut(m) => TakenOut(m)')
      BY <2>1 DEF Pushed, TakenOut
    <2> QED
      BY <2>1, <2>2, SameSaves, KeepsStill DEF Kept
  <1>7. CASE Dispatch \/ StopWaiting
    <2>1. UNCHANGED <<mem, acked, pc, via, hand>> /\ hpc' \notin {"save", "start"}
      BY <1>7 DEF Dispatch, StopWaiting, Proceed
    <2> QED
      BY <2>1, SameSaves, SavesKeep
  <1>8. CASE Reconnect
    <2>1. /\ hpc' = "start" /\ hctl' = hctl /\ UNCHANGED <<acked, pc, via, hand>>
          /\ mem'.queue = mem.queue
          /\ mem'.marks = IF IsMessage(hctl) THEN Noted(mem.marks, {hctl.msg}, "awaiting")
                          ELSE mem.marks
      BY <1>1, <1>8 DEF Reconnect, Proceed, Session
    <2>2. IsMessage(hctl) => hctl.msg \in Msg
      BY <1>1 DEF Control, IsMessage
    <2>3. IsMessage(hctl) => mem'.marks[hctl.msg] # {}
      BY <2>1, <2>2 DEF Noted
    <2>4. \A m \in Msg : mem.marks[m] # {} => mem'.marks[m] # {}
      BY <2>1 DEF Noted
    <2>5. \A m \in Msg : ~Pushed(m)' /\ (Kept(m) => Kept(m)')
      BY <2>1, <2>4 DEF Pushed, Kept, TakenOut
    <2> QED
      BY <2>1, <2>3, <2>5 DEF Keeps, IsMessage
  <1>9. CASE StartWorker
    <2>1. /\ mem' = mem /\ hpc' = "free" /\ UNCHANGED <<via, hand>>
          /\ pc' = pc \/ pc = "none"
          /\ \A m \in Msg : m \in acked' => \/ m \in acked
                                            \/ IsMessage(hctl) /\ hctl.msg = m
      BY <1>9 DEF StartWorker, Proceed
    <2>2. IsMessage(hctl) => mem.marks[hctl.msg] # {}
      BY <1>9 DEF StartWorker, Keeps
    <2>3. \A m \in Msg : ~Pushed(m)' /\ (TakenOut(m) => TakenOut(m)')
      BY <2>1 DEF Pushed, TakenOut
    <2> QED
      BY <2>1, <2>2, <2>3, SameSaves, KeepsStill DEF Kept
  <1> QED
    BY <1>2, <1>4, <1>5, <1>6, <1>7, <1>8, <1>9 DEF Handler

\* The worker while it connects.
LEMMA ConnectKeepsKept ==
  ASSUME TypeOK, Keeps,
         \/ SetUp \/ FirstQueued \/ FirstCommand \/ StartFails \/ Connect
         \/ ConnectDone \/ Initial
  PROVE  Keeps'
  <1> USE DEF userVars, handlerVars
  <1>1. mem \in Session
    BY DEF TypeOK
  <1>2. UNCHANGED <<hpc, hctl, acked>> /\ pc \notin {"popped", "intent"}
    BY DEF SetUp, FirstQueued, FirstCommand, StartFails, Connect, ConnectDone, Initial
  <1>3. Saves(mem, mem')
    <2>1. CASE SetUp \/ FirstQueued \/ StartFails \/ ConnectDone \/ Initial
      <3>1. mem'.marks = mem.marks /\ mem'.queue = mem.queue
        BY <1>1, <2>1 DEF SetUp, FirstQueued, LeaveEmpty, StartFails, ConnectDone,
             Initial, Session
      <3> QED
        BY <3>1, SameSaves
    <2>2. CASE FirstCommand
      <3>1. Head(inbox) \in Control
        BY <2>2, TailTyped DEF FirstCommand, TypeOK
      <3>2. CASE Head(inbox).kind = "message"
                 /\ mem' = [mem EXCEPT !.queue = Append(@, Head(inbox).msg)]
        <4>1. Head(inbox).msg \in Msg
          BY <3>1, <3>2 DEF Control
        <4>2. mem'.marks = mem.marks
              /\ Range(mem'.queue) = Range(mem.queue) \cup {Head(inbox).msg}
          BY <1>1, <3>2, <4>1, MoreQueued DEF Session
        <4> QED
          BY <4>2 DEF Saves
      <3>3. CASE mem' = mem \/ mem' = [mem EXCEPT !.status = "Starting"]
        <4>1. mem'.marks = mem.marks /\ mem'.queue = mem.queue
          BY <1>1, <3>3 DEF Session
        <4> QED
          BY <4>1, SameSaves
      <3> QED
        BY <2>2, <3>2, <3>3 DEF FirstCommand, LeaveEmpty
    <2>3. CASE Connect
      <3> DEFINE open == [mem EXCEPT !.thread = TRUE, !.status = "Idle"]
                 H == provider.history \cap Msg
      <3>1. open \in Session /\ open.marks = mem.marks /\ open.queue = mem.queue
        BY <1>1 DEF Session, Status
      <3>2. mem' \in {open, Restored(open, H)}
        BY <2>3 DEF Connect
      <3>3. H \in SUBSET Msg
        OBVIOUS
      <3> HIDE DEF open, H
      <3>4. Saves(open, Restored(open, H))
        BY <3>1, <3>3, EntryChanges, ChangesSave
      <3> QED
        BY <3>1, <3>2, <3>4 DEF Saves
    <2> QED
      BY <2>1, <2>2, <2>3
  <1> QED
    BY <1>2, <1>3, SavesKeep

\* The worker while it sends: it records the prompt that it took out of the
\* queue, or shows it as unsent.
LEMMA SendingKeepsKept ==
  ASSUME TypeOK, Keeps,
         \/ Resumed \/ NotAttempted \/ Intend \/ Write \/ EventWhileWaiting
         \/ Acknowledged \/ CallFails
  PROVE  Keeps'
  <1> USE DEF userVars, handlerVars, workerVars, sendVars
  <1>1. mem \in Session
    BY DEF TypeOK
  <1>2. UNCHANGED <<hpc, hctl, acked>>
    BY DEF Resumed, NotAttempted, Intend, Write, EventWhileWaiting, Acknowledged, CallFails
  <1>3. \A m \in Msg : Pushed(m)' => Pushed(m)
    BY <1>2 DEF Pushed, IsMessage
  <1>4. CASE Resumed \/ Write
    <2>1. mem' = mem /\ pc \notin {"popped", "intent"}
      BY <1>4 DEF Resumed, Write
    <2> QED
      BY <1>2, <2>1, SameSaves, SavesKeep
  <1>5. CASE NotAttempted
    <2>1. CASE via \in {"queue", "waiting"}
      <3>1. mem'.marks = Noted(mem.marks, {hand}, "unsent") /\ mem'.queue = mem.queue
        BY <1>1, <1>5, <2>1 DEF NotAttempted, Session
      <3>2. \A m \in Msg : /\ mem.marks[m] # {} => mem'.marks[m] # {}
                           /\ m = hand => mem'.marks[m] # {}
        BY <3>1 DEF Noted
      <3>3. Saves(mem, mem') /\ \A m \in Msg : TakenOut(m) => Kept(m)'
        BY <3>1, <3>2 DEF Saves, TakenOut, Kept
      <3> QED
        BY <1>2, <1>3, <3>3, KeepsStill
    <2>2. CASE via \notin {"queue", "waiting"}
      <3>1. mem' = mem /\ \A m \in Msg : ~TakenOut(m)
        BY <1>5, <2>2 DEF NotAttempted, TakenOut
      <3> QED
        BY <1>2, <1>3, <3>1, SameSaves, KeepsStill
    <2> QED
      BY <2>1, <2>2
  <1>6. CASE Intend
    <2>1. mem' = SendIntent(mem, hand, target # 0)
      BY <1>6 DEF Intend
    <2>2. Saves(mem, mem') /\ \A m \in Msg : TakenOut(m) => Kept(m)'
      BY <1>1, <2>1, SendingSaves DEF TakenOut, Kept
    <2> QED
      BY <1>2, <1>3, <2>2, KeepsStill
  <1>7. CASE EventWhileWaiting
    <2>1. /\ mem' \in {ApplyEvent(mem, Head(output)), ApplyKeepingQueue(mem, Head(output))}
          /\ Head(output) \in Event \cup Reply /\ UNCHANGED <<pc, via, hand>>
      BY <1>7, TailTyped DEF EventWhileWaiting, TypeOK
    <2>2. Saves(mem, mem')
      BY <1>1, <2>1, EventChanges, ChangesSave
    <2> QED
      BY <1>2, <2>1, <2>2, SavesKeep
  <1>8. CASE Acknowledged
    <2> DEFINE stopped == [mem EXCEPT !.status = "Interrupted"]
    <2>1. /\ stopped \in Session /\ stopped.marks = mem.marks /\ stopped.queue = mem.queue
      BY <1>1 DEF Session, Status
    <2>2. \/ mem' = SendAccepted(mem, hand, Head(output).turn)
          \/ mem' = QueueUnsent(stopped) \/ mem' = mem
      BY <1>8 DEF Acknowledged
    <2>3. hand \in Prompt /\ pc = "call"
      BY <1>8 DEF TypeOK, Acknowledged
    <2> HIDE DEF stopped
    <2>4. Saves(mem, SendAccepted(mem, hand, Head(output).turn))
      BY <1>1, <2>3, EntryChanges, ChangesSave
    <2>5. Saves(mem, QueueUnsent(stopped))
      <3>1. Saves(stopped, QueueUnsent(stopped))
        BY <2>1, EntryChanges, ChangesSave
      <3> QED
        BY <2>1, <3>1 DEF Saves
    <2> QED
      BY <1>2, <2>2, <2>3, <2>4, <2>5, SameSaves, SavesKeep
  <1>9. CASE CallFails
    <2>1. mem' \in {mem, SendFailed(mem)} /\ pc = "call"
      BY <1>9 DEF CallFails
    <2> QED
      BY <1>1, <1>2, <2>1, SendingSaves, SameSaves, SavesKeep
  <1> QED
    BY <1>4, <1>5, <1>6, <1>7, <1>8, <1>9

\* The worker in its loop: what it takes out of the queue it has in hand.
LEMMA LoopKeepsKept ==
  ASSUME TypeOK, Keeps,
         \/ TakeQueued \/ SaveTaken \/ NothingQueued \/ LoopEvent \/ LoopDrained
         \/ NoCommand \/ LoopWake \/ LoopEnds \/ Drained \/ DrainFails
         \/ TakeWaiting \/ WaitingSent \/ WorkerEnds \/ WorkerExits
  PROVE  Keeps'
  <1> USE DEF userVars, handlerVars, sendVars
  <1>1. mem \in Session
    BY DEF TypeOK
  <1>2. UNCHANGED <<hpc, hctl, acked>>
    BY DEF TakeQueued, SaveTaken, NothingQueued, LoopEvent, LoopDrained, NoCommand,
       LoopWake, LoopEnds, Drained, DrainFails, TakeWaiting, WaitingSent, WorkerEnds,
       WorkerExits
  <1>3. CASE TakeQueued \/ TakeWaiting
    <2>1. /\ mem.queue # <<>> /\ mem' = [mem EXCEPT !.queue = Tail(@)]
          /\ pc' \in {"popped", "intent"} /\ via' \in {"queue", "waiting"}
          /\ hand' = Head(mem.queue) /\ pc \notin {"popped", "intent"}
      BY <1>3 DEF TakeQueued, TakeWaiting, Take
    <2>2. /\ mem'.marks = mem.marks
          /\ Range(mem.queue) \subseteq {hand'} \cup Range(mem'.queue)
      BY <1>1, <2>1, HeadAndRest DEF Session
    <2>3. \A m \in Msg : /\ m = hand' => TakenOut(m)'
                         /\ ~TakenOut(m) /\ (Pushed(m)' => Pushed(m))
      BY <1>2, <2>1 DEF TakenOut, Pushed, IsMessage
    <2>4. \A m \in Msg : Kept(m) => Kept(m)'
      BY <2>2, <2>3 DEF Kept
    <2> QED
      BY <1>2, <2>2, <2>3, <2>4 DEF Keeps, IsMessage
  <1>4. CASE SaveTaken
    <2>1. /\ mem' = mem /\ pc = "popped" /\ pc' = "intent" /\ UNCHANGED <<via, hand>>
      BY <1>4 DEF SaveTaken
    <2>2. \A m \in Msg : /\ TakenOut(m) => TakenOut(m)'
                         /\ Pushed(m)' => Pushed(m)
      BY <1>2, <2>1 DEF TakenOut, Pushed, IsMessage
    <2> QED
      BY <1>2, <2>1, <2>2, SameSaves, KeepsStill DEF Kept
  <1>5. CASE \/ NothingQueued \/ LoopDrained \/ NoCommand \/ LoopWake \/ LoopEnds
             \/ Drained \/ DrainFails \/ WaitingSent \/ WorkerExits
    <2>1. mem' = mem /\ pc \notin {"popped", "intent"}
      BY <1>5 DEF NothingQueued, LoopDrained, NoCommand, LoopWake, LoopEnds, Drained,
           DrainFails, WaitingSent, WorkerExits
    <2> QED
      BY <1>2, <2>1, SameSaves, SavesKeep
  <1>6. CASE LoopEvent
    <2>1. /\ mem' = ApplyEvent(mem, Head(output)) /\ Head(output) \in Event \cup Reply
          /\ pc = "loop"
      BY <1>6, TailTyped DEF LoopEvent, TypeOK
    <2>2. Saves(mem, mem')
      BY <1>1, <2>1, EventChanges, ChangesSave
    <2> QED
      BY <1>2, <2>1, <2>2, SavesKeep
  <1>7. CASE WorkerEnds
    <2>1. (svc # "up") \in BOOLEAN /\ cancelled \in BOOLEAN
      BY DEF TypeOK
    <2>2. Saves(mem, mem') /\ pc = "ending"
      BY <1>1, <1>7, <2>1, EndChanges, ChangesSave DEF WorkerEnds
    <2> QED
      BY <1>2, <2>2, SavesKeep
  <1> QED
    BY <1>3, <1>4, <1>5, <1>6, <1>7

\* The worker where it carries out a command.
LEMMA CommandKeepsKept ==
  ASSUME TypeOK, Keeps, Withdrawals, LoopCommand
  PROVE  Keeps'
  <1> USE DEF handlerVars
  <1>1. mem \in Session /\ inbox \in Seq(Control)
    BY DEF TypeOK
  <1>2. /\ UNCHANGED <<hpc, hctl>> /\ pc = "command" /\ inbox # <<>>
        /\ Head(inbox) \in Control /\ acked' = acked \ Withdrawn(Head(inbox))
    BY <1>1, TailTyped DEF LoopCommand
  <1>3. \A m \in Msg : ~TakenOut(m) /\ (Pushed(m)' => Pushed(m))
    BY <1>2 DEF TakenOut, Pushed, IsMessage
  <1>4. ASSUME Saves(mem, mem') PROVE Keeps'
    BY <1>2, <1>3, <1>4, KeepsStill
  <1>5. CASE Head(inbox).kind = "remove"
    <2> DEFINE c == Head(inbox)
    <2>1. CommandRemove(c.msg, c.index)
      BY <1>5 DEF LoopCommand
    <2>2. CASE Holds(mem.queue, c.index, c.msg)
      <3>1. mem'.queue = RemoveAt(mem.queue, c.index) /\ mem'.marks = mem.marks
        BY <1>1, <2>1, <2>2 DEF CommandRemove, Session
      <3>2. c.index \in DOMAIN mem.queue /\ mem.queue[c.index] = c.msg
        BY <2>2 DEF Holds
      <3>3. acked' = acked \ {c.msg}
        BY <1>2, <1>5, <2>2 DEF Withdrawn
      <3>4. 1 \in DOMAIN inbox /\ c = inbox[1]
        BY <1>1, <1>2, Shorter
      <3>5. \A x : x = c.msg => ~Pushed(x)'
        BY <1>2, <1>5, <3>4 DEF Withdrawals, Pushed, IsMessage
      <3> HIDE DEF c
      <3>6. PICK x : x = c.msg
        OBVIOUS
      <3> QED
        BY <1>2, <3>1, <3>2, <3>3, <3>5, <3>6, RemovalKeeps
    <2>3. CASE ~Holds(mem.queue, c.index, c.msg)
      BY <1>4, <2>1, <2>3, SameSaves DEF CommandRemove
    <2> QED
      BY <2>2, <2>3
  <1>6. CASE Head(inbox).kind = "message"
    <2> DEFINE c == Head(inbox)
    <2>1. CommandMessage(c.msg, c.queue) /\ c.msg \in Msg
      BY <1>2, <1>6 DEF LoopCommand, Control
    <2>2. mem' = mem \/ mem' = [mem EXCEPT !.queue = Append(@, c.msg)]
      BY <2>1 DEF CommandMessage
    <2> HIDE DEF c
    <2>3. mem'.marks = mem.marks /\ Range(mem.queue) \subseteq Range(mem'.queue)
      BY <1>1, <2>1, <2>2, MoreQueued DEF Session
    <2> QED
      BY <1>4, <2>3 DEF Saves
  <1>7. CASE Head(inbox).kind \notin {"remove", "message"}
    <2> DEFINE stopped == [mem EXCEPT !.status = "Interrupted"]
    <2>1. /\ stopped \in Session /\ stopped.marks = mem.marks /\ stopped.queue = mem.queue
      BY <1>1 DEF Session, Status
    <2>2. mem' = mem \/ mem' = QueueUnsent(stopped)
      BY <1>7 DEF LoopCommand, CommandSendWaiting, CommandInterrupt, CommandResume
    <2> HIDE DEF stopped
    <2>3. Saves(stopped, QueueUnsent(stopped))
      BY <2>1, EntryChanges, ChangesSave
    <2>4. Saves(mem, mem')
      BY <2>1, <2>2, <2>3, SameSaves DEF Saves
    <2> QED
      BY <1>4, <2>4
  <1> QED
    BY <1>5, <1>6, <1>7

\* A service that stops in order and starts again keeps what its file holds.
LEMMA ServiceKeepsKept ==
  ASSUME TypeOK, AtRest, Keeps,
         \/ CodexProvider \/ StopSignal \/ Flush \/ MarkActive \/ CancelWorkers
         \/ Exit \/ Restart \/ ResumeDue
  PROVE  Keeps'
  <1> USE DEF userVars, handlerVars, workerVars, sendVars
  <1>1. mem \in Session
    BY DEF TypeOK
  <1>2. CASE CodexProvider
    <2>1. UNCHANGED <<mem, acked, hpc, hctl, pc, via, hand>>
      BY <1>2 DEF CodexProvider, ProviderReads, ProviderReplies, ProviderStartsTurn,
           ProviderEchoes, ProviderEndsTurn, ProviderDies
    <2> QED
      BY <2>1, SameSaves, SavesKeep
  <1>3. CASE StopSignal \/ Flush \/ CancelWorkers \/ MarkActive \/ ResumeDue
    <2>1. /\ UNCHANGED <<acked, hpc, hctl, pc, via, hand>>
          /\ mem'.marks = mem.marks /\ mem'.queue = mem.queue
      BY <1>1, <1>3 DEF StopSignal, Flush, CancelWorkers, MarkActive, MarkedForResume,
           ResumeDue, Session
    <2> QED
      BY <2>1, SameSaves, SavesKeep
  <1>4. CASE Exit
    <2>1. /\ mem' = InterruptedForExit(mem) /\ acked' = acked /\ hpc' = "free"
          /\ pc = "none"
      BY <1>4 DEF Exit, Gone
    <2>2. Saves(mem, mem')
      BY <1>1, <2>1, EntryChanges, ChangesSave
    <2> QED
      BY <2>1, <2>2, SavesKeep
  <1>5. CASE Restart
    <2>1. mem = disk /\ UNCHANGED <<acked, hpc, hctl, pc, via, hand>>
      BY <1>5 DEF Restart, AtRest
    <2>2. PICK recent \in 0..mem.resumes : mem' = AfterRestart(mem, recent)
      BY <1>5, <2>1 DEF Restart
    <2>3. Saves(mem, mem')
      BY <1>1, <2>2, RestartChanges, ChangesSave
    <2> QED
      BY <2>1, <2>3, SavesKeep
  <1> QED
    BY <1>2, <1>3, <1>4, <1>5

\* Every step but a crash keeps what was taken.
LEMMA KeptNext ==
  ASSUME Inv, Withdrawals, Keeps, [Next]_vars, ~Crash
  PROVE  Keeps'
  <1>1. TypeOK /\ AtRest
    BY DEF Inv
  <1>2. CASE Worker
    BY <1>1, <1>2, ConnectKeepsKept, SendingKeepsKept, LoopKeepsKept, CommandKeepsKept
       DEF Worker
  <1>3. CASE SubmitMessage \/ SubmitControl \/ ResumeHandled \/ Handler
    BY <1>1, <1>3, HandlerKeepsKept
  <1>4. CASE \/ CodexProvider \/ StopSignal \/ Flush \/ MarkActive \/ CancelWorkers
             \/ Exit \/ Restart \/ ResumeDue
    BY <1>1, <1>4, ServiceKeepsKept
  <1>5. CASE UNCHANGED vars
    BY <1>1, <1>5, SameSaves, SavesKeep
       DEF vars, handlerVars, workerVars, sendVars, userVars
  <1> QED
    BY <1>2, <1>3, <1>4, <1>5 DEF Next, Service

\* A session may be created with a message, which its job holds.
LEMMA KeptStarts == Init => Withdrawals /\ Keeps
  <1> SUFFICES ASSUME Init PROVE Withdrawals /\ Keeps
    OBVIOUS
  <1>1. hpc = "free" /\ hctl = Plain("none") /\ inbox = <<>>
    BY DEF Init, InitEmpty, InitPrompt, InitRest
  <1>2. Withdrawals /\ \A m : ~Pushed(m)
    BY <1>1 DEF Withdrawals, Pushed, Plain
  <1>3. \A m \in acked : mem.marks[m] # {}
    <2>1. CASE InitEmpty
      BY <2>1 DEF InitEmpty
    <2>2. CASE InitPrompt
      <3>1. PICK x \in Msg : mem = [NewSession EXCEPT !.marks[x] = {"launch"}] /\ acked = {x}
        BY <2>2 DEF InitPrompt
      <3> QED
        BY <3>1 DEF NewSession
    <2> QED
      BY <2>1, <2>2 DEF Init
  <1> QED
    BY <1>1, <1>2, <1>3 DEF Keeps, Kept

\* Until the service crashes, a message it took is in the transcript, in the
\* queue, or in the hands of the worker about to record it, whatever is
\* refused, interrupted, stopped or started again (SaveAndAnswer and
\* StartWorker answer Ok before the worker has seen it; send_queued,
\* worker_ended).  A crash loses what was not saved.
THEOREM NothingIsLost == Spec => [](crashes = 0 => NothingLost)
  <1> DEFINE J == crashes = 0 => Keeps
  <1>1. Inv /\ Withdrawals /\ J /\ [Next]_vars => Withdrawals' /\ J'
    <2> SUFFICES ASSUME Inv, Withdrawals, J, [Next]_vars
                 PROVE  Withdrawals' /\ (crashes' = 0 => Keeps')
      OBVIOUS
    <2>1. Withdrawals'
      BY WithdrawalsKept DEF Inv
    <2>2. ASSUME crashes' = 0 PROVE Keeps'
      <3>1. ~Crash /\ crashes = 0
        BY <2>2, OnlyCrashCounts DEF Inv
      <3> QED
        BY <3>1, KeptNext
    <2> QED
      BY <2>1, <2>2
  <1>2. Init => Withdrawals /\ J
    BY KeptStarts
  <1>3. Inv /\ J => (crashes = 0 => NothingLost)
    <2> SUFFICES ASSUME Inv, Keeps, NEW m \in acked
                 PROVE  mem.marks[m] # {} \/ m \in Range(mem.queue) \/ InPassing(m)
      BY DEF NothingLost
    <2>1. m \in Msg
      BY DEF Inv, TypeOK
    <2>2. TakenOut(m) => InPassing(m)
      BY DEF TakenOut, InPassing, InHand
    <2> QED
      BY <2>1, <2>2 DEF Keeps, Kept
  <1> HIDE DEF J
  <1> QED
    BY <1>1, <1>2, <1>3, InitOneCopy, NextOneCopy, PTL DEF Spec
=============================================================================
