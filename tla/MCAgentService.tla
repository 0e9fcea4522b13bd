-------------------------- MODULE MCAgentService --------------------------
(***************************************************************************)
(* AgentService on small sets of messages.  Messages are interchangeable,  *)
(* so runs that check no liveness use them up to permutation.              *)
(***************************************************************************)
EXTENDS AgentService, TLC

Symmetry == Permutations(Msg)

\* Only a restart reads the file, so a run without one need not tell states
\* apart by it.
WithoutFile ==
  <<mem, svc, handlerVars, workerVars, channelVars, providerVars, userVars,
    historyVars>>

\* A session created with its first prompt.
PromptSpec == InitPrompt /\ [][Next]_vars /\ Fairness
=============================================================================
