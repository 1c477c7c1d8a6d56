--------------------------- MODULE ApprovalContract ---------------------------
(***************************************************************************)
(* What the approval store (apps/api/src/approvals/pending-v2.ts) promises *)
(* its callers, with attestations, attempts, leases and concurrent         *)
(* executions left out: an operation moves along the status machine, at    *)
(* most one transaction is posted for it, only after it was confirmed and  *)
(* claimed, and it is reported succeeded only with that transaction's id.  *)
(*                                                                         *)
(* The posting is a step of its own and may come in any status once an     *)
(* execution has started: the store promises that the effect is single,    *)
(* not that a failed, cancelled or expired operation has none.             *)
(***************************************************************************)
CONSTANTS Ops, Hashes, Nothing

VARIABLES
    status,     \* [Ops -> status]
    proposal,   \* [Ops -> Hashes or Nothing]: what was proposed
    started,    \* operations some execution of which has been claimed
    posted,     \* [Ops -> Hashes or Nothing]: the transaction on the ledger
    reported    \* operations whose receipt has been stored

vars == <<status, proposal, started, posted, reported>>

Init ==
    /\ status = [o \in Ops |-> "absent"]
    /\ proposal = [o \in Ops |-> Nothing]
    /\ started = {}
    /\ posted = [o \in Ops |-> Nothing]
    /\ reported = {}

Move(o, from, to) ==
    /\ status[o] \in from
    /\ status' = [status EXCEPT ![o] = to]

Propose(o, h) ==
    /\ Move(o, {"absent"}, "proposed")
    /\ proposal' = [proposal EXCEPT ![o] = h]
    /\ UNCHANGED <<started, posted, reported>>

Authorise(o) ==
    /\ Move(o, {"proposed", "confirmed", "failed"}, "confirmed")
    /\ UNCHANGED <<proposal, started, posted, reported>>

Withdraw(o) ==
    /\ \E to \in {"cancelled", "expired"} : Move(o, {"proposed", "confirmed"}, to)
    /\ UNCHANGED <<proposal, started, posted, reported>>

Start(o) ==
    /\ Move(o, {"confirmed"}, "executing")
    /\ started' = started \cup {o}
    /\ UNCHANGED <<proposal, posted, reported>>

Post(o) ==
    /\ o \in started
    /\ posted[o] = Nothing
    /\ posted' = [posted EXCEPT ![o] = proposal[o]]
    /\ UNCHANGED <<status, proposal, started, reported>>

Succeed(o) ==
    /\ posted[o] # Nothing
    /\ Move(o, {"executing"}, "succeeded")
    /\ reported' = reported \cup {o}
    /\ UNCHANGED <<proposal, started, posted>>

Fail(o) ==
    /\ Move(o, {"executing"}, "failed")
    /\ UNCHANGED <<proposal, started, posted, reported>>

Next ==
    \E o \in Ops : \/ \E h \in Hashes : Propose(o, h)
                   \/ Authorise(o) \/ Withdraw(o) \/ Start(o)
                   \/ Post(o) \/ Succeed(o) \/ Fail(o)

Spec == Init /\ [][Next]_vars
=============================================================================
