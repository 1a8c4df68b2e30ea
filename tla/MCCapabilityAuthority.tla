----------------------- MODULE MCCapabilityAuthority -----------------------
\* A small instance of CapabilityAuthority: two permissions, a manifest with
\* both and one with the first only, a grant and a revocation of the first for
\* the extension, and a grant for the agent under the key of the revocation,
\* a revocation of the baseline, and a grant for the node under a used operation.
EXTENDS CapabilityAuthority

MCMutations == {
  [action |-> "GRANT", key |-> "k1", op |-> "o1", subject |-> "extension", perms |-> {"p1", "p2"}, rank |-> 1],
  [action |-> "REVOKE", key |-> "k2", op |-> "o2", subject |-> "extension", perms |-> {"p2"}, rank |-> 1],
  [action |-> "GRANT", key |-> "k2", op |-> "o2", subject |-> "agent", perms |-> {"p1"}, rank |-> 1],
  [action |-> "REVOKE", key |-> "k1", op |-> "o1", subject |-> "core", perms |-> {"p1"}, rank |-> 1],
  [action |-> "GRANT", key |-> "k2", op |-> "o1", subject |-> "node", perms |-> {"p1"}, rank |-> 1]}

MCDeclares == [m1 |-> {"p1"}, m2 |-> {"p1", "p2"}]
MCRuntimePerms == [hosted |-> {"p1"}, local |-> {"p2"}]
=============================================================================
