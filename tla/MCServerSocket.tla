--------------------------- MODULE MCServerSocket ---------------------------
(* Instances of ServerSocket for TLC. *)
EXTENDS ServerSocket, TLC

\* Pollers are interchangeable, and so are the other threads.
ThreadSymmetry == {f \in Permutations(Threads) :
                     \A t \in Threads : t \in Pollers <=> f[t] \in Pollers}
=============================================================================
