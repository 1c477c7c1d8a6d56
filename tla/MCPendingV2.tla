----------------------------- MODULE MCPendingV2 -----------------------------
(* Model values and symmetry for checking PendingV2 with TLC. *)
EXTENDS PendingV2, TLC

Symmetry == Permutations(Workers) \cup Permutations(Ops) \cup Permutations(Hashes)

(* Executions that are not cut off by a crash end within their lease: the  *)
(* clock does not take the lease of a current execution to where another   *)
(* API clock could call it over.  The lease is 60 s; the statement and lock *)
(* timeouts of the pool are 30 s and 10 s.                                  *)
Timely ==
    Tick => \A w \in Workers :
        InFlight(w) /\ StillOurs(w) => row[work[w].op].lease > MaxSkew + 1

(* An execution that was not cut off proceeds, time passes, and whoever     *)
(* waits for an operation keeps asking for its reconciliation.              *)
LiveSpec ==
    /\ Init
    /\ [][Next /\ Timely]_vars
    /\ WF_vars(Tick /\ Timely)
    /\ \A w \in Workers : WF_vars(RunExecutor(w)) /\ WF_vars(Settle(w))
    /\ \A o \in Ops : SF_vars(\E w \in Workers, s \in Skews : Reconcile(w, o, s))

(* An operation that was claimed is eventually settled: a crash between TX1 *)
(* and TX2 does not leave it executing for ever.                            *)
ExecutingSettles ==
    \A o \in Ops : row[o].status = "executing" ~> row[o].status # "executing"

=============================================================================
