----------------------- MODULE ApprovalContract_Proofs -----------------------
(***************************************************************************)
(* ApprovalContract implements DecisionContract, which is what DraftHandoff *)
(* assumes of the API.  With ContractImplemented of PendingV2_Proofs the   *)
(* agent is checked against no more than the store gives (DecisionsOfStore *)
(* there).                                                                 *)
(***************************************************************************)
EXTENDS ApprovalContract, TLAPS

Open == {"proposed", "confirmed"}
Taken == {"executing", "succeeded", "failed"}
Closed == {"cancelled", "expired"}

StandingOf(s) ==
    CASE s \in Open -> "open" [] s \in Taken -> "taken" [] s \in Closed -> "closed"
      [] OTHER -> "absent"

Standing == [o \in Ops |-> StandingOf(status[o])]

Decisions == INSTANCE DecisionContract WITH
    standing <- Standing,
    content  <- proposal

(* Statuses and proposals are kept per operation. *)
TypeOK ==
    /\ status \in [Ops -> {"absent"} \cup Open \cup Taken \cup Closed]
    /\ proposal \in [Ops -> Hashes \cup {Nothing}]

-----------------------------------------------------------------------------
(* The types hold throughout. *)
THEOREM TypeCorrect == Spec => []TypeOK
<1>1. Init => TypeOK
  BY DEF Init, TypeOK
<1>2. TypeOK /\ [Next]_vars => TypeOK'
  <2> SUFFICES ASSUME TypeOK, [Next]_vars PROVE TypeOK'
    OBVIOUS
  <2> USE DEF TypeOK, Move, Open, Taken, Closed
  <2>1. ASSUME NEW o \in Ops, NEW h \in Hashes, Propose(o, h) PROVE TypeOK'
    BY <2>1 DEF Propose
  <2>2. ASSUME NEW o \in Ops, Authorise(o) \/ Start(o) PROVE TypeOK'
    BY <2>2 DEF Authorise, Start
  <2>3. ASSUME NEW o \in Ops, Withdraw(o) PROVE TypeOK'
    BY <2>3 DEF Withdraw
  <2>4. ASSUME NEW o \in Ops, Post(o) \/ Succeed(o) \/ Fail(o) PROVE TypeOK'
    BY <2>4 DEF Post, Succeed, Fail
  <2>5. CASE UNCHANGED vars
    BY <2>5 DEF vars
  <2> QED BY <2>1, <2>2, <2>3, <2>4, <2>5 DEF Next
<1> QED BY <1>1, <1>2, PTL DEF Spec

(* An operation whose status moves changes its standing alone. *)
LEMMA MoveStands ==
    ASSUME TypeOK, NEW o \in Ops, NEW from, NEW to,
           Move(o, from, to)
    PROVE  /\ Standing' = [Standing EXCEPT ![o] = StandingOf(to)]
           /\ Standing[o] = StandingOf(status[o])
           /\ status[o] \in from
BY DEF Move, TypeOK, Standing

(* Standings, one by one *)
LEMMA Standings ==
    /\ \A s \in Open : StandingOf(s) = "open"
    /\ \A s \in Taken : StandingOf(s) = "taken"
    /\ \A s \in Closed : StandingOf(s) = "closed"
    /\ StandingOf("absent") = "absent"
BY DEF StandingOf, Open, Taken, Closed

(* A move within one standing is not seen. *)
LEMMA SameStanding ==
    ASSUME TypeOK, NEW o \in Ops, NEW from, NEW to, Move(o, from, to),
           StandingOf(to) = StandingOf(status[o]), proposal' = proposal
    PROVE  UNCHANGED Decisions!vars
<1>1. Standing' = [Standing EXCEPT ![o] = Standing[o]]
  BY MoveStands
<1>2. Standing' = Standing
  BY <1>1 DEF Standing
<1> QED BY <1>2 DEF Decisions!vars, Standing

(* A move between standings is the step of the same name. *)
LEMMA OtherStanding ==
    ASSUME TypeOK, NEW o \in Ops, NEW from, NEW to, Move(o, from, to),
           proposal' = proposal,
           <<StandingOf(status[o]), StandingOf(to)>>
               \in {<<"open", "closed">>, <<"open", "taken">>, <<"taken", "open">>}
    PROVE  Decisions!Next
<1>1. Decisions!Goes(o, StandingOf(status[o]), StandingOf(to))
  BY MoveStands DEF Decisions!Goes, Standing
<1> QED BY <1>1 DEF Decisions!Next, Decisions!Close, Decisions!Take, Decisions!Reopen

(* What the agent assumes of the API, the approval contract provides: an    *)
(* operation is proposed once, with content that never changes, is listed   *)
(* while it is open, and is taken or closed at most once each time.         *)
THEOREM DecisionsImplemented == Spec => Decisions!Spec
<1>1. Init => Decisions!Init
  BY Standings DEF Init, Decisions!Init, Standing
<1>2. TypeOK /\ [Next]_vars => [Decisions!Next]_(Decisions!vars)
  <2> SUFFICES ASSUME TypeOK, [Next]_vars
               PROVE  Decisions!Next \/ UNCHANGED Decisions!vars
    OBVIOUS
  <2>1. ASSUME NEW o \in Ops, NEW h \in Hashes, Propose(o, h)
        PROVE  Decisions!Next
    <3>1. Move(o, {"absent"}, "proposed") /\ proposal' = [proposal EXCEPT ![o] = h]
      BY <2>1 DEF Propose
    <3>2. /\ Standing' = [Standing EXCEPT ![o] = "open"]
          /\ Standing[o] = "absent"
      BY <3>1, MoveStands, Standings DEF Open
    <3>3. Decisions!Propose(o, h)
      BY <3>1, <3>2 DEF Decisions!Propose, Standing
    <3> QED BY <3>3 DEF Decisions!Next
  <2>2. ASSUME NEW o \in Ops, Authorise(o)
        PROVE  Decisions!Next \/ UNCHANGED Decisions!vars
    <3>1. /\ Move(o, {"proposed", "confirmed", "failed"}, "confirmed")
          /\ proposal' = proposal
      BY <2>2 DEF Authorise
    <3>2. StandingOf("confirmed") = "open"
      BY Standings DEF Open
    <3>3. CASE status[o] \in Open
      BY <3>1, <3>2, <3>3, Standings, SameStanding
    <3>4. CASE status[o] = "failed"
      <4>1. StandingOf(status[o]) = "taken"
        BY <3>4, Standings DEF Taken
      <4> QED BY <3>1, <3>2, <4>1, OtherStanding
    <3> QED BY <3>1, <3>3, <3>4 DEF Move, Open
  <2>3. ASSUME NEW o \in Ops, Withdraw(o) PROVE Decisions!Next
    <3>1. PICK to \in Closed :
             /\ Move(o, {"proposed", "confirmed"}, to) /\ proposal' = proposal
      BY <2>3 DEF Withdraw, Closed
    <3>2. StandingOf(status[o]) = "open" /\ StandingOf(to) = "closed"
      BY <3>1, Standings DEF Move, Open
    <3> QED BY <3>1, <3>2, OtherStanding
  <2>4. ASSUME NEW o \in Ops, Start(o) PROVE Decisions!Next
    <3>1. Move(o, {"confirmed"}, "executing") /\ proposal' = proposal
      BY <2>4 DEF Start
    <3>2. StandingOf(status[o]) = "open" /\ StandingOf("executing") = "taken"
      BY <3>1, Standings DEF Move, Open, Taken
    <3> QED BY <3>1, <3>2, OtherStanding
  <2>5. ASSUME NEW o \in Ops, Succeed(o) \/ Fail(o) PROVE UNCHANGED Decisions!vars
    <3>1. PICK to \in {"succeeded", "failed"} :
             Move(o, {"executing"}, to) /\ proposal' = proposal
      BY <2>5 DEF Succeed, Fail
    <3>2. StandingOf(status[o]) = "taken" /\ StandingOf(to) = "taken"
      BY <3>1, Standings DEF Move, Taken
    <3> QED BY <3>1, <3>2, SameStanding
  <2>6. ASSUME NEW o \in Ops, Post(o) PROVE UNCHANGED Decisions!vars
    BY <2>6 DEF Post, Decisions!vars, Standing
  <2>7. CASE UNCHANGED vars
    BY <2>7 DEF vars, Decisions!vars, Standing
  <2> QED BY <2>1, <2>2, <2>3, <2>4, <2>5, <2>6, <2>7 DEF Next
<1> QED BY <1>1, <1>2, TypeCorrect, PTL DEF Spec, Decisions!Spec
=============================================================================
