----------------------------- MODULE MCListener -----------------------------
(***************************************************************************)
(* The server for TLC: connections are interchangeable.                    *)
(***************************************************************************)
EXTENDS Listener, TLC

\* For two connections: accepts do not fail and no deadline passes (operations
\* still fail), the run with one connection covers both
Pair ==
    /\ \A i \in DOMAIN acceptor : acceptor[i].res \notin {"reset", "resources"}
    /\ \A c \in Connections : session[c].timer = "armed"

Symmetry == Permutations(Connections)
=============================================================================
