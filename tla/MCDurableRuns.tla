---------------------------- MODULE MCDurableRuns ---------------------------
EXTENDS DurableRuns, TLC

CONSTANTS a1, a2, j1, j2, j3, final, batch, wrong

\* A final answer; a tool call, then a question; a question, then one that does not
\* parse (a malformed call goes the way of a tool without the tool).
CallsOf ==
  [r \in Responses |-> CASE r = final -> <<>>
                         [] r = batch -> <<"tool", "ask">>
                         [] r = wrong -> <<"ask", "bad_ask">>]

Symmetric == Permutations(Attempts) \cup Permutations(JobIds)
=============================================================================
