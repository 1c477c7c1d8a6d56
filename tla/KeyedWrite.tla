------------------------------ MODULE KeyedWrite ------------------------------
(***************************************************************************)
(* What an idempotency key promises the callers of apps/api, whichever     *)
(* protocol keeps it (writes/postgres.ts or writes/pending-idempotency.ts):*)
(* one effect is posted under the key, once and for ever, and whoever is   *)
(* answered with success asked for that effect and is told of it.  It is   *)
(* the step the approval store relies on when its executor writes under    *)
(* the operation's key (Written in PendingV2).                             *)
(***************************************************************************)
CONSTANTS Keys, Hashes, Ids

VARIABLES
    posted,    \* effects [key, hash, id] that were committed
    told       \* effects that callers were told of, with the hash they asked for

vars == <<posted, told>>

Init ==
    /\ posted = {}
    /\ told = {}

(* The effect is posted; its answer reaches the caller or is lost. *)
Post(e) ==
    /\ \A p \in posted : p.key # e.key
    /\ posted' = posted \cup {e}
    /\ told' \in {told, told \cup {e}}

(* A caller is told of the effect it asked for. *)
Tell(e) ==
    /\ e \in posted
    /\ told' = told \cup {e}
    /\ UNCHANGED posted

Next ==
    \/ \E e \in posted : Tell(e)
    \/ \E k \in Keys, h \in Hashes, id \in Ids :
          Post([key |-> k, hash |-> h, id |-> id])

Spec == Init /\ [][Next]_vars
=============================================================================
