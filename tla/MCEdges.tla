------------------------------- MODULE MCEdges -------------------------------
(* KeyedMutation, Workspace and Reminders side by side, each on its own: one *)
(* of the three moves, the others rest in one of their initial states.      *)
EXTENDS KeyedMutation, Workspace, Reminders, TLC

VARIABLE edge

edgesVars == <<vars, workspaceVars, remindersVars, edge>>

KeyedRest == \A k \in Keys : record[k] = NoRecord

WorkspaceRest ==
    /\ patron = CHOOSE u \in Users \ Newcomers : TRUE
    /\ \A u \in Newcomers : HasRole(u, "member")

EdgesInit ==
    /\ Init
    /\ WorkspaceInit
    /\ RemindersInit
    /\ edge \in {"keyed", "workspace", "reminders"}
    /\ edge = "keyed" \/ KeyedRest
    /\ edge = "workspace" \/ WorkspaceRest

EdgesNext ==
    \/ edge = "keyed" /\ Next
       /\ UNCHANGED <<workspaceVars, remindersVars, edge>>
    \/ edge = "workspace" /\ WorkspaceNext
       /\ UNCHANGED <<vars, remindersVars, edge>>
    \/ edge = "reminders" /\ RemindersNext
       /\ UNCHANGED <<vars, workspaceVars, edge>>

EdgesSpec == EdgesInit /\ [][EdgesNext]_edgesVars

(* The cfg gives the officers, the runners and the hashes the same names, so *)
(* that one permutation serves the part that moves.                         *)
Symmetry == Permutations(Runners)

(* The requests under a key are interchangeable: only how many of them are  *)
(* at the same point tells two states apart.                                *)
Crowd == [w \in {work[s] : s \in Sessions} |-> Cardinality({s \in Sessions : work[s] = w})]

EdgesView == <<record, effects, Crowd, started, answers, conflicts, workspaceVars,
               remindersVars, edge>>

(* Every variable of the three stays in its type. *)
EdgesTypeOK == TypeOK /\ WorkspaceTypeOK /\ RemindersTypeOK
=============================================================================
