------------------------------ MODULE MCApproval ------------------------------
(* The approval store and the browser in which approvals are given, side by *)
(* side: one of the two moves, the other rests in its initial state.        *)
EXTENDS MCPendingV2, OfflineSnapshot

VARIABLE side

approvalVars == <<vars, snapshotVars, side>>

(* People and workspaces are interchangeable: the same ones come first. *)
FirstCome ==
    /\ moves = 0 => cookie' \in {Empty, CHOOSE u \in People : TRUE}
    /\ moves = 1 => tab'.current \in {Empty, CHOOSE w \in Places : TRUE}

ApprovalInit ==
    /\ Init
    /\ SnapshotInit
    /\ side \in {"store", "browser"}

ApprovalNext ==
    \/ side = "store" /\ Next /\ UNCHANGED <<snapshotVars, side>>
    \/ side = "browser" /\ SnapshotNext /\ FirstCome /\ UNCHANGED <<vars, side>>

ApprovalSpec == ApprovalInit /\ [][ApprovalNext]_approvalVars

SymmetryOfBoth == Symmetry \cup Permutations(Boots)

(* Every variable of the two stays in its type. *)
ApprovalTypeOK == TypeOK /\ SnapshotTypeOK
=============================================================================
