---------------------------- MODULE MCQuestions ----------------------------
EXTENDS Questions

\* A note asks two questions, a request one.
MCParts == [i \in Items |-> IF i \in Notes THEN {1, 2} ELSE {1}]

=============================================================================
