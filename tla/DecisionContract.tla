--------------------------- MODULE DecisionContract ---------------------------
(***************************************************************************)
(* What a client of the approval API can tell of an operation: whether it  *)
(* is listed as awaiting a decision (proposed, confirmed), was taken up by *)
(* an execution (executing, failed, succeeded), or was closed without one  *)
(* (cancelled, expired), and what it would execute.  ApprovalContract      *)
(* implements it; DraftHandoff is composed with it.                        *)
(***************************************************************************)
CONSTANTS Ops, Hashes, Nothing

VARIABLES
    standing,   \* [Ops -> {"absent", "open", "taken", "closed"}]
    content     \* [Ops -> Hashes or Nothing]: what was proposed

vars == <<standing, content>>

Init ==
    /\ standing = [o \in Ops |-> "absent"]
    /\ content = [o \in Ops |-> Nothing]

Propose(o, h) ==
    /\ standing[o] = "absent"
    /\ standing' = [standing EXCEPT ![o] = "open"]
    /\ content' = [content EXCEPT ![o] = h]

Goes(o, from, to) ==
    /\ standing[o] = from
    /\ standing' = [standing EXCEPT ![o] = to]
    /\ UNCHANGED content

(* cancel, expire *)
Close(o) == Goes(o, "open", "closed")

(* execute: the claim *)
Take(o) == Goes(o, "open", "taken")

(* retry of a failed operation *)
Reopen(o) == Goes(o, "taken", "open")

Next ==
    \E o \in Ops : \/ \E h \in Hashes : Propose(o, h)
                   \/ Close(o) \/ Take(o) \/ Reopen(o)

Spec == Init /\ [][Next]_vars
=============================================================================
