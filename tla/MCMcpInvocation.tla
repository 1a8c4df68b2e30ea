-------------------------- MODULE MCMcpInvocation --------------------------
\* TLC instances of McpInvocation.
EXTENDS McpInvocation, TLC

Symmetry == Permutations(Requests) \cup Permutations(Ops) \cup
            Permutations(Procs) \cup Permutations(Results) \cup Permutations(Keys)
=============================================================================
