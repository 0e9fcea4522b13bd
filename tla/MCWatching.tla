----------------------------- MODULE MCWatching -----------------------------
(***************************************************************************)
(* Watching with one entry for each version of each run of the server.     *)
(***************************************************************************)
EXTENDS Watching

CONSTANT a1

\* A transcript grows, a sub-agent speaks, the last entry is streamed.
Script == <<{"speak", "child"}, {"speak", "rewrite"}>>
Stamps == (0..MaxCrashes) \X (0..MaxVersion)
=============================================================================
