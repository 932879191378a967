----------------------------- MODULE MCAccounts -----------------------------
\* Two goroutines at a time, which are interchangeable.
EXTENDS Accounts, TLC

Symmetry == Permutations(Procs)

\* A bound: behind the first invitation no connection is read, and behind the
\* second organisation at most one is not over.  Invitations do not depend on
\* connections, nor overlapping connections on the number of organisations.
Trade ==
  \A a \in Agents :
    /\ nextCode > 1 => pumps[a] + ended[a] = 0
    /\ nextOrg > 2 => pumps[a] + ended[a] < 2
=============================================================================
