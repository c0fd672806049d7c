----------------------------- MODULE MCCredentials -----------------------------
EXTENDS Credentials, TLC

CONSTANTS s1, s2, s3

\* s1 and s2 differ in the audience only, s3 in the scope.
ThreeServers ==
     s1 :> [client |-> "relay", scope |-> "read", audience |-> "a"]
  @@ s2 :> [client |-> "relay", scope |-> "read", audience |-> "b"]
  @@ s3 :> [client |-> "relay", scope |-> "write", audience |-> "a"]

Symmetry == Permutations(Openers)
=============================================================================
