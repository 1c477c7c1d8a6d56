------------------------------ MODULE Edges_Proofs ------------------------------
(***************************************************************************)
(* Proofs about the edges of the system: the keys under which requests     *)
(* reach the write store (KeyedMutation), the members and tokens of a      *)
(* workspace (Workspace) and the runs that send reminders (Reminders).     *)
(* They share no state.  Each part names an inductive invariant, shows     *)
(* that every action keeps it, and draws the properties of its module from *)
(* it; the last joins them.                                                *)
(***************************************************************************)
EXTENDS MCEdges, FiniteSetTheorems, TLAPS

(***************************************************************************)
(*                              KeyedMutation                              *)
(*                                                                         *)
(* For any number of keys, payloads and overlapping requests, the two      *)
(* protocols commit one effect per key, answer honestly and implement      *)
(* KeyedWrite.  The invariant says who may hold a key: a transaction that  *)
(* has inserted, or locked, the row of a key is alone with it              *)
(* (HoldersAlone), and while it is, the key is not completed and, if a     *)
(* dead process left the row, it was left for the same payload             *)
(* (HoldersOwn).                                                           *)
(***************************************************************************)
Status(s) == record[work[s].key].status

Holding(s) ==
    \/ work[s].pc = "commit"
    \/ work[s].pc = "effect" /\ work[s].key \in ClaimKeys

(* A request that is being served has a key of its protocol and a payload,  *)
(* and numbers its effect within the bound.                                 *)
ServedInOrder ==
    \A s \in Sessions : work[s].pc # "idle" =>
        /\ work[s].key \in Keys
        /\ work[s].hash \in Hashes
        /\ work[s].pc \in {"claim", "lost", "takeover", "reread"}
               => work[s].key \in ClaimKeys
        /\ work[s].pc \in {"select", "record", "settle"}
               => work[s].key \in RecordKeys
        /\ work[s].pc \in {"record", "commit"} => work[s].id \in 1 .. MaxEffects

HoldersAlone ==
    \A s, t \in Sessions :
        Holding(s) /\ Holding(t) /\ work[s].key = work[t].key => s = t

HoldersOwn ==
    \A s \in Sessions :
        /\ Holding(s) => Status(s) # "completed"
        /\ Holding(s) /\ Status(s) = "processing" => Matches(s)

(* The row of a key is never deleted: who saw one still sees one, and who   *)
(* means to take it over asks for what it was left for.                     *)
SeenIsThere ==
    \A s \in Sessions :
        /\ work[s].pc \in {"lost", "takeover", "reread", "settle"}
               => Status(s) # "none"
        /\ work[s].pc = "takeover" => Matches(s)
        /\ work[s].pc = "settle" => Status(s) = "completed"

(* Only a claim is ever left unfinished, for a payload. *)
RowsInOrder ==
    \A k \in Keys :
        /\ record[k].status = "processing" => k \in ClaimKeys
        /\ record[k].status # "none" => record[k].hash \in Hashes

(* The rows say what was committed. *)
EffectsRecorded ==
    /\ \A e \in effects :
          /\ record[e.key].status = "completed"
          /\ record[e.key].hash = e.hash
          /\ record[e.key].response = e.id
    /\ \A k \in Keys : record[k].status = "completed" =>
          [key |-> k, hash |-> record[k].hash, id |-> record[k].response] \in effects

WithinBounds == started \in 0 .. MaxEffects

Protocol ==
    /\ ServedInOrder
    /\ HoldersAlone
    /\ HoldersOwn
    /\ SeenIsThere
    /\ RowsInOrder
    /\ EffectsRecorded
    /\ WithinBounds

IInv == TypeOK /\ Protocol /\ answers \subseteq effects /\ ConflictMeansOtherPayload

-----------------------------------------------------------------------------
(* The initial states *)

LEMMA InitIInv == Init => IInv
<1> SUFFICES ASSUME Init PROVE IInv
  OBVIOUS
<1> USE DEF Init
<1>1. \A k \in Keys :
         record[k] = NoRecord
         \/ (k \in ClaimKeys /\ \E h \in Hashes : record[k] = Orphan(h, LeaseTicks))
  BY DEF Keys
<1>2. TypeOK
  <2>1. NoRecord \in Record /\ \A h \in Hashes : Orphan(h, LeaseTicks) \in Record
    BY BoundsAssumption DEF NoRecord, Orphan, Record, Left
  <2>2. record \in [Keys -> Record]
    BY <2>1
  <2>3. Idle \in Work
    BY DEF Idle, Work
  <2> QED BY <2>2, <2>3 DEF TypeOK
<1>3. \A s \in Sessions : work[s].pc = "idle"
  BY DEF Idle
<1>4. ServedInOrder /\ HoldersAlone /\ HoldersOwn /\ SeenIsThere
  BY <1>3 DEF ServedInOrder, HoldersAlone, HoldersOwn, SeenIsThere, Holding
<1>5. RowsInOrder /\ EffectsRecorded
  BY <1>1 DEF RowsInOrder, EffectsRecorded, NoRecord, Orphan
<1>6. WithinBounds
  BY BoundsAssumption DEF WithinBounds
<1> QED BY <1>2, <1>4, <1>5, <1>6 DEF IInv, Protocol, ConflictMeansOtherPayload

-----------------------------------------------------------------------------
(* Steps of one request, the rows left alone *)

(* A request that ends leaves the others as they were. *)
LEMMA Ending ==
    ASSUME IInv, NEW s \in Sessions, work' = [work EXCEPT ![s] = Idle],
           UNCHANGED <<record, effects, started>>
    PROVE  Protocol' /\ work' \in [Sessions -> Work]
<1>1. \A t \in Sessions : work'[t] = IF t = s THEN Idle ELSE work[t]
  BY DEF IInv, TypeOK
<1>2. Idle \in Work /\ Idle.pc = "idle"
  BY DEF Idle, Work
<1>3. work' \in [Sessions -> Work]
  BY <1>2 DEF IInv, TypeOK
<1>4. ServedInOrder' /\ HoldersAlone' /\ HoldersOwn' /\ SeenIsThere'
  BY <1>1, <1>2 DEF IInv, Protocol, ServedInOrder, HoldersAlone, HoldersOwn,
                    SeenIsThere, Holding, Status, Matches
<1>5. RowsInOrder' /\ EffectsRecorded' /\ WithinBounds'
  BY DEF IInv, Protocol, RowsInOrder, EffectsRecorded, WithinBounds
<1> QED BY <1>3, <1>4, <1>5 DEF Protocol

(* Where a request may go without disturbing the others *)
LEMMA Moving ==
    ASSUME IInv, NEW s \in Sessions, NEW w \in Work,
           work' = [work EXCEPT ![s] = w],
           UNCHANGED <<record, effects, answers, conflicts>>,
           started' \in 0 .. MaxEffects,
           ServedInOrder',
           Holding(s)' => /\ \A t \in Sessions \ {s} :
                               Holding(t) => work[t].key # w.key
                          /\ Status(s)' # "completed"
                          /\ Status(s)' = "processing" => Matches(s)',
           w.pc \in {"lost", "takeover", "reread", "settle"} => Status(s)' # "none",
           w.pc = "takeover" => Matches(s)',
           w.pc = "settle" => Status(s)' = "completed"
    PROVE  IInv'
<1>1. \A t \in Sessions : work'[t] = IF t = s THEN w ELSE work[t]
  BY DEF IInv, TypeOK
<1>2. TypeOK'
  BY BoundsAssumption DEF IInv, TypeOK
<1>3. HoldersAlone'
  BY <1>1 DEF IInv, Protocol, HoldersAlone, Holding
<1>4. HoldersOwn' /\ SeenIsThere'
  BY <1>1 DEF IInv, Protocol, HoldersOwn, SeenIsThere, Holding, Status, Matches
<1>5. RowsInOrder' /\ EffectsRecorded' /\ WithinBounds'
  BY DEF IInv, Protocol, RowsInOrder, EffectsRecorded, WithinBounds
<1>6. (answers \subseteq effects)' /\ ConflictMeansOtherPayload'
  BY DEF IInv, ConflictMeansOtherPayload
<1> QED BY <1>2, <1>3, <1>4, <1>5, <1>6 DEF IInv, Protocol

-----------------------------------------------------------------------------
(* Actions *)

(* The caller is answered with the stored response, or told of a conflict. *)
LEMMA Answering ==
    ASSUME IInv, NEW s \in Sessions, work[s].pc # "idle", Status(s) # "none",
           Matches(s) => Status(s) = "completed", Answered(s)
    PROVE  IInv'
<1> DEFINE e == [key |-> work[s].key, hash |-> work[s].hash,
                 id |-> record[work[s].key].response]
<1>1. work[s].key \in Keys /\ work[s].hash \in Hashes
  BY DEF IInv, Protocol, ServedInOrder
<1>2. CASE Matches(s) /\ Replay(s)
  <2>1. e \in effects
    BY <1>1, <1>2 DEF IInv, Protocol, EffectsRecorded, Matches, Status
  <2>2. Protocol' /\ work' \in [Sessions -> Work]
    BY <1>2, Ending DEF Replay
  <2>3. answers' = answers \cup {e}
    BY <1>2 DEF Replay
  <2> QED BY <1>2, <2>1, <2>2, <2>3 DEF IInv, TypeOK, Replay, ConflictMeansOtherPayload
<1>3. CASE ~Matches(s) /\ Conflict(s)
  <2>1. Protocol' /\ work' \in [Sessions -> Work]
    BY <1>3, Ending DEF Conflict
  <2>2. conflicts' = conflicts \cup {<<work[s].key, work[s].hash>>}
    BY <1>3 DEF Conflict
  <2>3. ConflictMeansOtherPayload'
    BY <1>1, <1>3, <2>2 DEF IInv, ConflictMeansOtherPayload, Conflict, Matches, Status
  <2>4. TypeOK'
    BY <1>1, <1>3, <2>1, <2>2 DEF IInv, TypeOK, Conflict
  <2> QED BY <1>3, <2>1, <2>3, <2>4 DEF IInv, Conflict
<1> QED BY <1>2, <1>3 DEF Answered

(* The transaction is rolled back. *)
LEMMA Ended ==
    ASSUME IInv, NEW s \in Sessions, Refuse(s) PROVE IInv'
<1>1. Protocol' /\ work' \in [Sessions -> Work]
  BY Ending DEF Refuse
<1> QED BY <1>1 DEF Refuse, IInv, TypeOK, ConflictMeansOtherPayload

(* The other sessions stay, so that only the order of the moving one counts. *)
LEMMA OrderKept ==
    ASSUME IInv, NEW s \in Sessions, NEW w, work' = [work EXCEPT ![s] = w],
           /\ w.key \in Keys
           /\ w.hash \in Hashes
           /\ w.pc \in {"claim", "lost", "takeover", "reread"} => w.key \in ClaimKeys
           /\ w.pc \in {"select", "record", "settle"} => w.key \in RecordKeys
           /\ w.pc \in {"record", "commit"} => w.id \in 1 .. MaxEffects
    PROVE  ServedInOrder'
<1>1. \A t \in Sessions : work'[t] = IF t = s THEN w ELSE work[t]
  BY DEF IInv, TypeOK
<1> QED BY <1>1 DEF IInv, Protocol, ServedInOrder

LEMMA Requesting ==
    ASSUME IInv, NEW s \in Sessions, NEW k \in Keys, NEW h \in Hashes,
           Request(s, k, h)
    PROVE  IInv'
<1> DEFINE w == [pc |-> IF k \in ClaimKeys THEN "claim" ELSE "select",
                 key |-> k, hash |-> h, id |-> 0]
<1>1. w \in Work /\ work' = [work EXCEPT ![s] = w]
  BY DEF Request, Work
<1>a. w.key = k /\ w.hash = h /\ w.pc = IF k \in ClaimKeys THEN "claim" ELSE "select"
  OBVIOUS
<1> HIDE DEF w
<1>2. ServedInOrder'
  BY <1>1, <1>a, OrderKept DEF Keys
<1>3. work'[s] = w
  BY <1>1 DEF IInv, TypeOK
<1>4. UNCHANGED <<record, effects, answers, conflicts>> /\ started' \in 0 .. MaxEffects
  BY DEF Request, IInv, Protocol, WithinBounds
<1>5. ~Holding(s)' /\ w.pc \notin {"lost", "takeover", "reread", "settle"}
  BY <1>3, <1>a DEF Holding
<1> QED BY <1>1, <1>2, <1>4, <1>5, Moving

(* A request goes to its next statement with all it had. *)
LEMMA Going ==
    ASSUME IInv, NEW s \in Sessions, work[s].pc # "idle",
           NEW pc \in {"lost", "takeover", "reread", "effect", "settle", "commit"},
           Goto(s, pc), UNCHANGED <<record, effects, started, answers, conflicts>>,
           pc \in {"lost", "takeover", "reread"} => work[s].key \in ClaimKeys,
           pc = "settle" => work[s].key \in RecordKeys,
           pc = "commit" => work[s].id \in 1 .. MaxEffects,
           pc = "commit" \/ (pc = "effect" /\ work[s].key \in ClaimKeys)
               => /\ ~Waits(s)
                  /\ Status(s) # "completed"
                  /\ Status(s) = "processing" => Matches(s),
           pc \in {"lost", "takeover", "reread", "settle"} => Status(s) # "none",
           pc = "takeover" => Matches(s),
           pc = "settle" => Status(s) = "completed"
    PROVE  IInv'
<1> DEFINE w == [work[s] EXCEPT !.pc = pc]
<1>1. work[s] \in Work
  BY DEF IInv, TypeOK
<1>2. /\ w \in Work
      /\ w.pc = pc /\ w.key = work[s].key /\ w.hash = work[s].hash /\ w.id = work[s].id
  BY <1>1 DEF Work
<1>3. work' = [work EXCEPT ![s] = w]
  BY DEF Goto, IInv, TypeOK
<1>4. work'[s] = w
  BY <1>3 DEF IInv, TypeOK
<1>5. ServedInOrder'
  BY <1>2, <1>3, OrderKept DEF IInv, Protocol, ServedInOrder
<1>6. (Status(s) = Status(s)') /\ (Matches(s) <=> Matches(s)')
  BY <1>2, <1>4 DEF Status, Matches
<1>7. started' \in 0 .. MaxEffects
  BY DEF IInv, Protocol, WithinBounds
<1>8. Holding(s)' => /\ \A t \in Sessions \ {s} :
                            Holding(t) => work[t].key # w.key
                     /\ Status(s)' # "completed"
                     /\ Status(s)' = "processing" => Matches(s)'
  <2>1. Holding(s)' => ~Waits(s) /\ Status(s) # "completed"
                       /\ (Status(s) = "processing" => Matches(s))
    BY <1>2, <1>4 DEF Holding
  <2>2. ~Waits(s) => \A t \in Sessions \ {s} : Holding(t) => work[t].key # w.key
    BY <1>2 DEF Waits, Holders, Holding
  <2> QED BY <2>1, <2>2, <1>6
<1> HIDE DEF w
<1> QED BY <1>2, <1>3, <1>5, <1>6, <1>7, <1>8, Moving

(* The effect is made, uncommitted. *)
LEMMA Effecting ==
    ASSUME IInv, NEW s \in Sessions, RunEffect(s)
    PROVE  IInv'
<1>1. CASE Refuse(s)
  BY <1>1, Ended
<1>2. CASE ~Refuse(s)
  <2> DEFINE w == [work[s] EXCEPT
                     !.pc = IF work[s].key \in ClaimKeys THEN "commit" ELSE "record",
                     !.id = started + 1]
  <2>1. work[s].pc = "effect" /\ work[s] \in Work
    BY DEF RunEffect, IInv, TypeOK
  <2>2. work[s].key \in Keys /\ work[s].hash \in Hashes
    BY <2>1 DEF IInv, Protocol, ServedInOrder
  <2>3. /\ work' = [work EXCEPT ![s] = w]
        /\ started' = started + 1 /\ started < MaxEffects
        /\ UNCHANGED <<record, effects, answers, conflicts>>
    BY <1>2 DEF RunEffect, IInv, TypeOK
  <2>4. started' \in 1 .. MaxEffects
    BY <2>3, BoundsAssumption DEF IInv, Protocol, WithinBounds
  <2>a. started + 1 \in Nat /\ started' \in 0 .. MaxEffects
    BY <2>4, BoundsAssumption DEF IInv, TypeOK
  <2>b. w \in Work
    <3>1. \A pc \in {"commit", "record"}, id \in Nat :
             [work[s] EXCEPT !.pc = pc, !.id = id] \in Work
      BY <2>1 DEF Work
    <3> QED BY <2>a, <3>1
  <2>5. /\ w.pc = IF work[s].key \in ClaimKeys THEN "commit" ELSE "record"
        /\ w.key = work[s].key /\ w.hash = work[s].hash /\ w.id = started'
    BY <2>1, <2>3 DEF Work
  <2>6. work'[s] = w
    BY <2>3 DEF IInv, TypeOK
  <2> HIDE DEF w
  <2>7. ServedInOrder'
    BY <2>2, <2>3, <2>4, <2>5, OrderKept DEF Keys
  <2>8. Holding(s)' => Holding(s)
    BY <2>1, <2>5, <2>6 DEF Holding
  <2>9. (Status(s) = Status(s)') /\ (Matches(s) <=> Matches(s)')
    BY <2>3, <2>5, <2>6 DEF Status, Matches
  <2>10. Holding(s) => /\ \A t \in Sessions \ {s} :
                             Holding(t) => work[t].key # w.key
                       /\ Status(s) # "completed"
                       /\ Status(s) = "processing" => Matches(s)
    BY <2>5 DEF IInv, Protocol, HoldersAlone, HoldersOwn
  <2> QED BY <2>3, <2>a, <2>b, <2>5, <2>7, <2>8, <2>9, <2>10, Moving
<1> QED BY <1>1, <1>2

(* The effect and its row are committed: nobody else holds the key, the key *)
(* had no effect, and a row left unfinished was left for this payload.      *)
LEMMA Committing ==
    ASSUME IInv, NEW s \in Sessions, Commit(s)
    PROVE  /\ IInv'
           /\ \A f \in effects : f.key # work[s].key
           /\ work[s].key \in Keys /\ work[s].hash \in Hashes
           /\ work[s].id \in 1 .. MaxEffects
<1> DEFINE k == work[s].key
           h == work[s].hash
           i == work[s].id
           e == [key |-> k, hash |-> h, id |-> i]
           row == [status |-> "completed", hash |-> h, lease |-> 0, response |-> i]
<1>1. /\ work[s].pc = "commit"
      /\ record' = [record EXCEPT ![k] = row]
      /\ effects' = effects \cup {e}
      /\ answers' \in {answers, answers \cup {e}}
      /\ work' = [work EXCEPT ![s] = Idle]
      /\ UNCHANGED <<started, conflicts>>
  BY DEF Commit
<1>2. k \in Keys /\ h \in Hashes /\ i \in 1 .. MaxEffects /\ i \in Nat
  BY <1>1 DEF IInv, Protocol, ServedInOrder
<1>3. Holding(s) /\ record[k].status # "completed"
  BY <1>1 DEF IInv, Protocol, HoldersOwn, Holding, Status
<1>4. record[k].status # "none" => record[k].hash = h
  <2>1. record[k].status \in {"none", "processing", "completed"}
    BY <1>2 DEF IInv, TypeOK, Record
  <2>2. record[k].status = "processing" => record[k].hash = h
    BY <1>3 DEF IInv, Protocol, HoldersOwn, Status, Matches
  <2> QED BY <1>3, <2>1, <2>2
<1>5. \A f \in effects : f.key # k
  BY <1>3 DEF IInv, Protocol, EffectsRecorded
<1>6. /\ \A q \in Keys : record'[q] = IF q = k THEN row ELSE record[q]
      /\ \A t \in Sessions : work'[t] = IF t = s THEN Idle ELSE work[t]
      /\ Idle.pc = "idle" /\ Idle \in Work
  BY <1>1, <1>2 DEF IInv, TypeOK, Idle, Work
<1>7. row.status = "completed" /\ row.hash = h /\ row.response = i
  OBVIOUS
<1>8. TypeOK'
  <2>1. row \in Record
    BY <1>2, BoundsAssumption DEF Record, Left
  <2>2. e \in Effect
    BY <1>2 DEF Effect
  <2> QED BY <1>1, <1>2, <1>6, <2>1, <2>2 DEF IInv, TypeOK
<1> HIDE DEF row
<1>9. ServedInOrder' /\ HoldersAlone'
  BY <1>6 DEF IInv, Protocol, ServedInOrder, HoldersAlone, Holding
<1>10. HoldersOwn'
  <2> SUFFICES ASSUME NEW t \in Sessions, Holding(t)'
               PROVE  Status(t)' # "completed" /\ (Status(t)' = "processing" => Matches(t)')
    BY DEF HoldersOwn
  <2>1. t # s /\ Holding(t) /\ work'[t] = work[t]
    BY <1>6 DEF Holding
  <2>2. work[t].key # k /\ work[t].key \in Keys
    BY <1>3, <2>1 DEF IInv, Protocol, HoldersAlone, ServedInOrder, Holding
  <2> QED BY <1>6, <2>1, <2>2 DEF IInv, Protocol, HoldersOwn, Status, Matches
<1>11. SeenIsThere'
  <2> SUFFICES ASSUME NEW t \in Sessions, work'[t].pc \in {"lost", "takeover", "reread", "settle"}
               PROVE  /\ Status(t)' # "none"
                      /\ work'[t].pc = "takeover" => Matches(t)'
                      /\ work'[t].pc = "settle" => Status(t)' = "completed"
    BY DEF SeenIsThere
  <2>1. t # s /\ work'[t] = work[t] /\ work[t].key \in Keys
    BY <1>6 DEF IInv, Protocol, ServedInOrder
  <2>2. /\ Status(t) # "none"
        /\ work[t].pc = "takeover" => Matches(t)
        /\ work[t].pc = "settle" => Status(t) = "completed"
    BY <2>1 DEF IInv, Protocol, SeenIsThere
  <2>3. CASE work[t].key = k
    BY <1>4, <1>6, <1>7, <2>1, <2>2, <2>3 DEF Status, Matches
  <2>4. CASE work[t].key # k
    BY <1>6, <2>1, <2>2, <2>4 DEF Status, Matches
  <2> QED BY <2>3, <2>4
<1>12. RowsInOrder' /\ EffectsRecorded' /\ WithinBounds'
  <2>1. RowsInOrder' /\ WithinBounds'
    BY <1>1, <1>2, <1>6, <1>7 DEF IInv, Protocol, RowsInOrder, WithinBounds
  <2>2. \A f \in effects' :
           /\ record'[f.key].status = "completed"
           /\ record'[f.key].hash = f.hash
           /\ record'[f.key].response = f.id
    <3>1. \A f \in effects : f.key \in Keys
      BY DEF IInv, TypeOK, Effect
    <3> QED BY <1>1, <1>2, <1>5, <1>6, <1>7, <3>1 DEF IInv, Protocol, EffectsRecorded
  <2>3. \A q \in Keys : record'[q].status = "completed" =>
           [key |-> q, hash |-> record'[q].hash, id |-> record'[q].response] \in effects'
    BY <1>1, <1>6, <1>7 DEF IInv, Protocol, EffectsRecorded
  <2> QED BY <2>1, <2>2, <2>3 DEF EffectsRecorded
<1>13. (answers \subseteq effects)'
  BY <1>1 DEF IInv
<1>14. ConflictMeansOtherPayload'
  BY <1>1, <1>4, <1>6, <1>7 DEF IInv, ConflictMeansOtherPayload
<1> QED BY <1>2, <1>5, <1>8, <1>9, <1>10, <1>11, <1>12, <1>13, <1>14 DEF IInv, Protocol

(* The clock advances: leases run out, nothing else about a row changes. *)
LEMMA Ticking ==
    ASSUME IInv, Tick PROVE IInv'
<1>1. \A k \in Keys :
         /\ record'[k] \in Record
         /\ record'[k].status = record[k].status
         /\ record'[k].hash = record[k].hash
         /\ record'[k].response = record[k].response
  <2> SUFFICES ASSUME NEW k \in Keys
               PROVE  /\ Sooner(record[k]) \in Record
                      /\ Sooner(record[k]).status = record[k].status
                      /\ Sooner(record[k]).hash = record[k].hash
                      /\ Sooner(record[k]).response = record[k].response
    BY DEF Tick
  <2>1. record[k] \in Record
    BY DEF IInv, TypeOK
  <2>2. record[k].lease > -MaxSkew => record[k].lease - 1 \in Left
    BY <2>1, BoundsAssumption DEF Record, Left
  <2> QED BY <2>1, <2>2 DEF Sooner, Record
<1>2. UNCHANGED <<effects, work, started, answers, conflicts>>
  BY DEF Tick
<1>3. TypeOK'
  BY <1>1, <1>2 DEF IInv, TypeOK, Tick
<1>4. \A e \in effects : e.key \in Keys
  BY DEF IInv, TypeOK, Effect
<1>5. EffectsRecorded' /\ RowsInOrder' /\ WithinBounds'
  BY <1>1, <1>2, <1>4 DEF IInv, Protocol, EffectsRecorded, RowsInOrder, WithinBounds
<1>6. ServedInOrder' /\ HoldersAlone'
  BY <1>2 DEF IInv, Protocol, ServedInOrder, HoldersAlone, Holding
<1>7. HoldersOwn' /\ SeenIsThere'
  <2>1. \A s \in Sessions : work[s].pc # "idle" =>
           Status(s)' = Status(s) /\ (Matches(s)' <=> Matches(s))
    BY <1>1, <1>2 DEF IInv, Protocol, ServedInOrder, Status, Matches
  <2> QED BY <1>2, <2>1 DEF IInv, Protocol, HoldersOwn, SeenIsThere, Holding
<1>8. (answers \subseteq effects)' /\ ConflictMeansOtherPayload'
  BY <1>1, <1>2 DEF IInv, ConflictMeansOtherPayload
<1> QED BY <1>3, <1>5, <1>6, <1>7, <1>8 DEF IInv, Protocol

(* The statements of lookupOrRecord *)
LEMMA ClaimProtocol ==
    ASSUME IInv, NEW s \in Sessions,
           \/ Claim(s)
           \/ \E skew \in Skews : ResolveLost(s, skew)
           \/ TakeOver(s)
           \/ Reread(s)
    PROVE  IInv'
<1>1. /\ work[s].pc # "idle" => work[s].key \in Keys /\ work[s].hash \in Hashes
      /\ work[s].pc \in {"claim", "lost", "takeover", "reread"} => work[s].key \in ClaimKeys
      /\ work[s].pc \in {"lost", "takeover", "reread"} => Status(s) # "none"
      /\ work[s].pc = "takeover" => Matches(s)
      /\ work[s].pc # "idle" => Status(s) \in {"none", "processing", "completed"}
  BY DEF IInv, Protocol, ServedInOrder, SeenIsThere, TypeOK, Record, Status
<1>2. CASE Claim(s)
  <2>1. work[s].pc = "claim" /\ UNCHANGED <<record, effects, started, answers, conflicts>>
    BY <1>2 DEF Claim
  <2>2. CASE Status(s) = "none" /\ ~Waits(s) /\ Goto(s, "effect")
    BY <1>1, <2>1, <2>2, Going
  <2>3. CASE Status(s) # "none" /\ Goto(s, "lost")
    BY <1>1, <2>1, <2>3, Going
  <2> QED BY <1>2, <2>2, <2>3 DEF Claim, Status
<1>3. ASSUME NEW skew \in Skews, ResolveLost(s, skew) PROVE IInv'
  <2>1. work[s].pc = "lost"
    BY <1>3 DEF ResolveLost
  <2>2. CASE (~Matches(s) \/ Status(s) = "completed") /\ Answered(s)
    BY <1>1, <2>1, <2>2, Answering
  <2>3. CASE Refuse(s)
    BY <2>3, Ended
  <2>4. CASE /\ Matches(s) /\ Goto(s, "takeover")
             /\ UNCHANGED <<record, effects, started, answers, conflicts>>
    BY <1>1, <2>1, <2>4, Going
  <2> QED BY <1>3, <2>2, <2>3, <2>4 DEF ResolveLost, Status
<1>4. CASE TakeOver(s)
  <2>1. /\ work[s].pc = "takeover" /\ ~Waits(s)
        /\ UNCHANGED <<record, effects, started, answers, conflicts>>
    BY <1>4 DEF TakeOver
  <2>2. CASE Status(s) = "processing" /\ Goto(s, "effect")
    BY <1>1, <2>1, <2>2, Going
  <2>3. CASE Goto(s, "reread")
    BY <1>1, <2>1, <2>3, Going
  <2> QED BY <1>4, <2>2, <2>3 DEF TakeOver, Takeable, Status
<1>5. CASE Reread(s)
  <2>1. work[s].pc = "reread"
    BY <1>5 DEF Reread
  <2>2. CASE Refuse(s)
    BY <2>2, Ended
  <2>3. CASE Status(s) # "processing" /\ Answered(s)
    BY <1>1, <2>1, <2>3, Answering
  <2> QED BY <1>5, <2>2, <2>3 DEF Reread, Status
<1> QED BY <1>2, <1>3, <1>4, <1>5

(* The statements of runKeyedMutation *)
LEMMA RecordProtocol ==
    ASSUME IInv, NEW s \in Sessions, SelectKey(s) \/ RecordKey(s) \/ Settle(s)
    PROVE  IInv'
<1>1. /\ work[s].pc # "idle" => work[s].key \in Keys /\ work[s].hash \in Hashes
      /\ work[s].pc \in {"select", "record", "settle"}
             => work[s].key \in RecordKeys /\ work[s].key \notin ClaimKeys
      /\ work[s].pc = "settle" => Status(s) = "completed"
      /\ work[s].pc = "record" => work[s].id \in 1 .. MaxEffects
      /\ work[s].pc # "idle" => Status(s) \in {"none", "processing", "completed"}
      /\ work[s].pc = "record" => Status(s) # "processing"
  BY KeysAssumption
     DEF IInv, Protocol, ServedInOrder, SeenIsThere, RowsInOrder, TypeOK, Record, Status
<1>2. CASE SelectKey(s)
  <2>1. work[s].pc = "select"
    BY <1>2 DEF SelectKey
  <2>2. CASE Status(s) = "completed" /\ Answered(s)
    BY <1>1, <2>1, <2>2, Answering
  <2>3. CASE Goto(s, "effect") /\ UNCHANGED <<record, effects, started, answers, conflicts>>
    BY <1>1, <2>1, <2>3, Going
  <2> QED BY <1>2, <2>2, <2>3 DEF SelectKey, Status
<1>3. CASE RecordKey(s)
  <2>1. /\ work[s].pc = "record" /\ ~Waits(s)
        /\ UNCHANGED <<record, effects, started, answers, conflicts>>
    BY <1>3 DEF RecordKey
  <2>2. CASE Status(s) = "none" /\ Goto(s, "commit")
    BY <1>1, <2>1, <2>2, Going
  <2>3. CASE Status(s) # "none" /\ Goto(s, "settle")
    BY <1>1, <2>1, <2>3, Going
  <2> QED BY <1>3, <2>2, <2>3 DEF RecordKey, Recorded, Status
<1>4. CASE Settle(s)
  BY <1>1, <1>4, Answering DEF Settle
<1> QED BY <1>2, <1>3, <1>4

-----------------------------------------------------------------------------
(* The theorems *)

LEMMA StepIInv == IInv /\ [Next]_vars => IInv'
<1> SUFFICES ASSUME IInv, [Next]_vars PROVE IInv'
  OBVIOUS
<1>1. ASSUME NEW s \in Sessions, NEW k \in Keys, NEW h \in Hashes, Request(s, k, h)
      PROVE  IInv'
  BY <1>1, Requesting
<1>2. ASSUME NEW s \in Sessions, Step(s) PROVE IInv'
  BY <1>2, ClaimProtocol, RecordProtocol, Effecting, Committing DEF Step
<1>3. ASSUME NEW s \in Sessions, Crash(s) PROVE IInv'
  <2>1. Refuse(s)
    BY <1>3 DEF Crash, Refuse
  <2> QED BY <2>1, Ended
<1>4. CASE Tick
  BY <1>4, Ticking
<1>5. CASE UNCHANGED vars
  BY <1>5 DEF vars, IInv, Protocol, TypeOK, ServedInOrder, HoldersAlone, HoldersOwn,
              SeenIsThere, RowsInOrder, EffectsRecorded, WithinBounds, Holding, Status,
              Matches, ConflictMeansOtherPayload
<1> QED BY <1>1, <1>2, <1>3, <1>4, <1>5 DEF Next

(* The inductive invariant: whoever holds a key is alone with it, and the   *)
(* rows of lookupOrRecord and runKeyedMutation say what was committed.      *)
THEOREM Invariance == Spec => []IInv
BY InitIInv, StepIInv, PTL DEF Spec

(* Every variable stays in its type. *)
THEOREM TypeCorrect == Spec => []TypeOK
<1>1. IInv => TypeOK
  BY DEF IInv
<1> QED BY <1>1, Invariance, PTL

(* However many requests with one key overlap, crash, are retried or take   *)
(* over an orphan, one effect at most is committed for it.                  *)
THEOREM OneEffect == Spec => []EffectAtMostOnce
<1>1. IInv => EffectAtMostOnce
  <2> SUFFICES ASSUME IInv, NEW e \in effects, NEW f \in effects, e.key = f.key
               PROVE  e = f
    BY DEF EffectAtMostOnce
  <2>1. e \in Effect /\ f \in Effect
    BY DEF IInv, TypeOK
  <2>2. e.hash = f.hash /\ e.id = f.id
    BY DEF IInv, Protocol, EffectsRecorded
  <2> QED BY <2>1, <2>2 DEF Effect
<1> QED BY <1>1, Invariance, PTL

(* Whoever is told idempotency.conflict used the key with another payload.  *)
THEOREM HonestConflicts == Spec => []ConflictMeansOtherPayload
<1>1. IInv => ConflictMeansOtherPayload
  BY DEF IInv
<1> QED BY <1>1, Invariance, PTL

(* An answer tells of the effect that is committed for what it asked. *)
LEMMA AnsweringTells ==
    ASSUME IInv, NEW s \in Sessions, work[s].pc # "idle",
           Matches(s) => Status(s) = "completed", Answered(s)
    PROVE  Contract!Next \/ UNCHANGED Contract!vars
<1> DEFINE e == [key |-> work[s].key, hash |-> work[s].hash,
                 id |-> record[work[s].key].response]
<1>1. CASE Matches(s) /\ Replay(s)
  <2>1. work[s].key \in Keys
    BY DEF IInv, Protocol, ServedInOrder
  <2>2. e \in effects
    BY <1>1, <2>1 DEF IInv, Protocol, EffectsRecorded, Matches, Status
  <2>3. answers' = answers \cup {e} /\ effects' = effects
    BY <1>1 DEF Replay
  <2> QED BY <2>2, <2>3 DEF Contract!Next, Contract!Tell
<1>2. CASE Conflict(s)
  BY <1>2 DEF Conflict, Contract!vars
<1> QED BY <1>1, <1>2 DEF Answered

(* A statement that neither answers nor commits is not seen. *)
LEMMA StepTells ==
    ASSUME IInv, NEW s \in Sessions, Step(s)
    PROVE  Contract!Next \/ UNCHANGED Contract!vars
<1>1. /\ work[s].pc = "settle" => Status(s) = "completed"
      /\ work[s].pc = "reread" => Status(s) \in {"processing", "completed"}
  BY DEF IInv, Protocol, ServedInOrder, SeenIsThere, TypeOK, Record, Status
<1>2. CASE Claim(s) \/ TakeOver(s) \/ RecordKey(s)
  BY <1>2 DEF Claim, TakeOver, RecordKey, Contract!vars
<1>3. ASSUME NEW skew \in Skews, ResolveLost(s, skew)
      PROVE  Contract!Next \/ UNCHANGED Contract!vars
  <2>1. CASE (~Matches(s) \/ Status(s) = "completed") /\ Answered(s)
    BY <1>3, <2>1, AnsweringTells DEF ResolveLost
  <2>2. CASE effects' = effects /\ answers' = answers
    BY <2>2 DEF Contract!vars
  <2> QED BY <1>3, <2>1, <2>2 DEF ResolveLost, Refuse, Status
<1>4. CASE Reread(s)
  <2>1. CASE Status(s) # "processing" /\ Answered(s)
    BY <1>1, <1>4, <2>1, AnsweringTells DEF Reread
  <2>2. CASE Refuse(s)
    BY <2>2 DEF Refuse, Contract!vars
  <2> QED BY <1>4, <2>1, <2>2 DEF Reread, Status
<1>5. CASE SelectKey(s)
  <2>1. CASE Status(s) = "completed" /\ Answered(s)
    BY <1>5, <2>1, AnsweringTells DEF SelectKey
  <2>2. CASE effects' = effects /\ answers' = answers
    BY <2>2 DEF Contract!vars
  <2> QED BY <1>5, <2>1, <2>2 DEF SelectKey, Status
<1>6. CASE Settle(s)
  BY <1>1, <1>6, AnsweringTells DEF Settle
<1>7. CASE RunEffect(s)
  BY <1>7 DEF RunEffect, Refuse, Contract!vars
<1>8. CASE Commit(s)
  <2> DEFINE e == [key |-> work[s].key, hash |-> work[s].hash, id |-> work[s].id]
  <2>1. /\ effects' = effects \cup {e}
        /\ answers' \in {answers, answers \cup {e}}
    BY <1>8 DEF Commit
  <2>2. Contract!Post(e)
    BY <1>8, <2>1, Committing DEF Contract!Post
  <2> QED BY <1>8, <2>2, Committing DEF Contract!Next
<1> QED BY <1>2, <1>3, <1>4, <1>5, <1>6, <1>7, <1>8 DEF Step

(* Both protocols implement the keyed write, for every number of keys,      *)
(* payloads and requests.                                                   *)
THEOREM KeyedWriteImplemented == Spec => ImplementsKeyedWrite
<1>1. Init => Contract!Init
  BY DEF Init, Contract!Init
<1>2. IInv /\ [Next]_vars => [Contract!Next]_(Contract!vars)
  <2> SUFFICES ASSUME IInv, [Next]_vars
               PROVE  Contract!Next \/ UNCHANGED Contract!vars
    OBVIOUS
  <2>1. ASSUME NEW s \in Sessions, Step(s)
        PROVE  Contract!Next \/ UNCHANGED Contract!vars
    BY <2>1, StepTells
  <2>2. CASE effects' = effects /\ answers' = answers
    BY <2>2 DEF Contract!vars
  <2>3. CASE UNCHANGED vars
    BY <2>3 DEF vars, Contract!vars
  <2> QED BY <2>1, <2>2, <2>3 DEF Next, Request, Crash, Tick
<1> QED BY <1>1, <1>2, Invariance, PTL DEF Spec, Contract!Spec, ImplementsKeyedWrite

-----------------------------------------------------------------------------
(***************************************************************************)
(*                               Workspace                                 *)
(***************************************************************************)

(* What a request may be about at each of its steps *)
Departs(e) == e.op \in {"remove", "leave"}
Changes(e) == e.op \in {"remove", "leave", "take", "join"}

ErrandOK(e) ==
    /\ e.op = "none" => e.step = "asked"
    /\ e.op \in {"remove", "leave", "offer", "take", "invite", "join", "register"} => e.on \in Users
    /\ e.op \in {"offer", "take"} => e.from \in Users
    /\ e.op \in {"resend", "join"} => e.invite \in Invites
    /\ e.op = "rotate" => e.device \in Devices
    /\ e.op \in {"invite", "resend"} /\ e.step = "checked" => e.secret \in Secrets
    /\ e.step \in {"due", "aimed"} => Departs(e)
    /\ e.step = "vetted" => Changes(e)
    /\ e.step = "written" => Changes(e) \/ e.op = "rotate"

ErrandsOK == \A c \in Officers : ErrandOK(errand[c])

TransferOK == transfer = NoTransfer \/ (transfer.from \in Users /\ transfer.to \in Users)

(* What was vetted leaves an owner, as long as nobody else commits. *)
VettedOK ==
    skewed \/ /\ Owners(member) # {}
              /\ \A c \in Officers : errand[c].step = "vetted" => Owners(Seen(errand[c], member)) # {}

(* An invite that is being accepted is locked, and was not revoked. *)
JoinsOK ==
    \A c \in Officers : errand[c].op = "join" =>
        invite[errand[c].invite].whom # Nobody /\ ~invite[errand[c].invite].revoked

(* A token that is being rotated is locked, and still live; *)
RotationsOK ==
    \A c \in Officers : At(c, "rotate", "written") =>
        /\ token[errand[c].device].state = "live"
        /\ \A d \in Officers \ {c} : At(d, "rotate", "written") => errand[d].device # errand[c].device

(* nothing descends from a token that was not rotated. *)
FamilyOK ==
    \A d \in Devices :
        /\ token[d].state \in {"free", "live"} => \A e \in Devices : token[e].parent # d
        /\ \A e, f \in Devices : token[e].parent = d /\ token[f].parent = d => e = f
        /\ token[d].user = token[d].person /\ (Usable(d) => token[d].person \in Users)

(* Who holds a usable token is a member, or its revocation is on its way. *)
Covered(d) ==
    LET u == token[d].person
    IN  \/ Active(u) \/ u \in missed
        \/ \E c \in Officers :
              errand[c].on = u /\ (errand[c].step = "due" \/ (errand[c].step = "aimed" /\ d \in errand[c].aim))

TokensAnswered == \A d \in Devices : Usable(d) => Covered(d)

WorkspaceInv ==
    /\ WorkspaceTypeOK /\ ErrandsOK /\ TransferOK /\ VettedOK
    /\ JoinsOK /\ InviteSettlesOnce /\ RotationsOK /\ FamilyOK /\ TokensAnswered

-----------------------------------------------------------------------------
(* The request of one officer moves on. *)
ErrandMoves(c, e) ==
    /\ errand' = [errand EXCEPT ![c] = e]
    /\ e \in Errand /\ ErrandOK(e)

LEMMA ErrandsMove ==
    ASSUME WorkspaceInv, NEW c \in Officers, NEW e, ErrandMoves(c, e)
    PROVE  /\ errand' \in [Officers -> Errand] /\ ErrandsOK'
           /\ errand'[c] = e
           /\ \A d \in Officers : d # c => errand'[d] = errand[d]
<1>1. errand \in [Officers -> Errand]
  BY DEF WorkspaceInv, WorkspaceTypeOK
<1>2. /\ errand' \in [Officers -> Errand] /\ errand'[c] = e
      /\ \A d \in Officers : d # c => errand'[d] = errand[d]
  BY <1>1 DEF ErrandMoves
<1>3. \A d \in Officers : ErrandOK(errand'[d])
  BY <1>2 DEF ErrandMoves, WorkspaceInv, ErrandsOK
<1> QED BY <1>2, <1>3 DEF ErrandsOK, ErrandOK, Departs, Changes

(* An invite stays with whom, and in which role, it was written. *)
RolesKept ==
    \A i \in Invites : invite[i].whom # Nobody =>
        invite'[i].whom = invite[i].whom /\ invite'[i].role = invite[i].role

(* What each part of the invariant needs of a step that does not concern it *)

LEMMA VettedKept ==
    ASSUME WorkspaceInv, NEW c \in Officers, NEW e, ErrandMoves(c, e), RolesKept,
           UNCHANGED <<member, skewed>>,
           e.op = "join" => invite[e.invite].whom # Nobody,
           e.step = "vetted" => Owners(Seen(e, member)) # {}
    PROVE  VettedOK'
<1> SUFFICES ASSUME ~skewed
             PROVE  /\ Owners(member') # {}
                    /\ \A d \in Officers : errand'[d].step = "vetted" =>
                           Owners(Seen(errand[d], member)') # {}
  BY DEF VettedOK, Owners
<1>1. Owners(member) # {}
  BY DEF WorkspaceInv, VettedOK
<1>2. ASSUME NEW d \in Officers, errand'[d].step = "vetted"
      PROVE  Owners(Seen(errand[d], member)') # {}
  <2> DEFINE f == IF d = c THEN e ELSE errand[d]
  <2>1. errand'[d] = f
    BY ErrandsMove
  <2>2. f.op = "join" => f.invite \in Invites /\ invite[f.invite].whom # Nobody
    BY DEF ErrandMoves, WorkspaceInv, ErrandsOK, ErrandOK, JoinsOK
  <2>3. Owners(Seen(f, member)) # {}
    BY <1>2, <2>1 DEF WorkspaceInv, VettedOK
  <2> HIDE DEF f
  <2>4. Seen(errand[d], member)' = Seen(f, member)
    BY <2>1, <2>2 DEF RolesKept, Seen, Written
  <2> QED BY <2>3, <2>4
<1> QED BY <1>1, <1>2

LEMMA JoinsKept ==
    ASSUME WorkspaceInv, NEW c \in Officers, NEW e, ErrandMoves(c, e), RolesKept,
           \A i \in Invites : invite[i].whom # Nobody => invite'[i].revoked = invite[i].revoked,
           e.op = "join" => invite[e.invite].whom # Nobody /\ ~invite[e.invite].revoked
    PROVE  JoinsOK'
<1>1. \A d \in Officers : errand'[d].op = "join" =>
          /\ errand'[d].invite \in Invites
          /\ invite[errand'[d].invite].whom # Nobody
          /\ ~invite[errand'[d].invite].revoked
  BY ErrandsMove DEF ErrandMoves, WorkspaceInv, JoinsOK, ErrandsOK, ErrandOK
<1> QED BY <1>1 DEF JoinsOK, RolesKept

LEMMA RotationsKept ==
    ASSUME WorkspaceInv, NEW c \in Officers, NEW e, ErrandMoves(c, e),
           \A d \in Officers \ {c} : At(d, "rotate", "written") =>
               token'[errand[d].device].state = token[errand[d].device].state,
           e.op # "rotate" \/ e.step # "written"
    PROVE  RotationsOK'
<1>1. \A d \in Officers : At(d, "rotate", "written")' =>
          d # c /\ At(d, "rotate", "written") /\ errand'[d] = errand[d]
  BY ErrandsMove DEF At
<1> QED BY <1>1 DEF WorkspaceInv, RotationsOK

LEMMA FamilyKept ==
    ASSUME WorkspaceInv, token' = token
    PROVE  FamilyOK'
BY DEF WorkspaceInv, FamilyOK, Usable

LEMMA TokensKept ==
    ASSUME WorkspaceInv, NEW c \in Officers, NEW e, ErrandMoves(c, e), token' = token,
           \A u \in Users : Active(u) => Active(u)',
           missed \subseteq missed', errand[c].step \notin {"due", "aimed"}
    PROVE  TokensAnswered'
<1> SUFFICES ASSUME NEW d \in Devices, Usable(d)' PROVE Covered(d)'
  BY DEF TokensAnswered
<1>1. Usable(d) /\ Covered(d) /\ token[d].person \in Users
  BY DEF WorkspaceInv, TokensAnswered, Usable, FamilyOK
<1>2. \A b \in Officers : errand[b].step \in {"due", "aimed"} => errand'[b] = errand[b]
  BY ErrandsMove
<1> QED BY <1>1, <1>2 DEF Covered

-----------------------------------------------------------------------------
(* A request that only moves on *)

LEMMA Plain ==
    ASSUME WorkspaceInv, NEW c \in Officers, NEW e, ErrandMoves(c, e),
           UNCHANGED <<member, patron, transfer, invite, letters, token, failures, skewed, missed>>,
           errands' \in 0 .. MaxErrands,
           errand[c].step \notin {"due", "aimed"},
           e.step = "vetted" => Owners(Seen(e, member)) # {},
           e.op = "join" => invite[e.invite].whom # Nobody /\ ~invite[e.invite].revoked,
           e.op # "rotate" \/ e.step # "written"
    PROVE  WorkspaceInv'
<1>1. RolesKept
  BY DEF RolesKept
<1>2. VettedOK' /\ JoinsOK' /\ RotationsOK' /\ FamilyOK'
  BY <1>1, VettedKept, JoinsKept, RotationsKept, FamilyKept
<1>3. TokensAnswered'
  BY TokensKept DEF Active
<1>4. WorkspaceTypeOK' /\ ErrandsOK'
  BY ErrandsMove DEF WorkspaceInv, WorkspaceTypeOK
<1>5. TransferOK' /\ InviteSettlesOnce'
  BY DEF WorkspaceInv, TransferOK, InviteSettlesOnce
<1> QED BY <1>2, <1>3, <1>4, <1>5 DEF WorkspaceInv

LEMMA NoErrandOK == NoErrand \in Errand /\ ErrandOK(NoErrand)
BY DEF NoErrand, Errand, ErrandOK, Departs, Changes

(* It is over, *)
LEMMA Finishes ==
    ASSUME WorkspaceInv, NEW c \in Officers, Finish(c), errands' = errands,
           UNCHANGED <<member, patron, transfer, invite, letters, token, failures, skewed, missed>>,
           errand[c].step \notin {"due", "aimed"}
    PROVE  WorkspaceInv'
<1>1. ErrandMoves(c, NoErrand)
  BY NoErrandOK DEF ErrandMoves, Finish
<1>2. errands' \in 0 .. MaxErrands
  BY DEF WorkspaceInv, WorkspaceTypeOK
<1> QED BY <1>1, <1>2, Plain DEF NoErrand

(* or goes on to its next step. *)
LEMMA Proceeds ==
    ASSUME WorkspaceInv, NEW c \in Officers,
           NEW s \in {"checked", "written", "vetted"}, Onward(c, s), errands' = errands,
           UNCHANGED <<member, patron, transfer, invite, letters, token, failures, skewed, missed>>,
           errand[c].step \notin {"due", "aimed"},
           errand[c].op \notin {"none", "invite", "resend"},
           s \in {"written", "vetted"} => Changes(errand[c]),
           s = "vetted" => Owners(Seen([errand[c] EXCEPT !.step = "vetted"], member)) # {}
    PROVE  WorkspaceInv'
<1> DEFINE w == errand[c]
           e == [w EXCEPT !.step = s]
<1>1. w \in Errand /\ ErrandOK(w)
  BY DEF WorkspaceInv, WorkspaceTypeOK, ErrandsOK
<1>2. w.op = "join" => invite[w.invite].whom # Nobody /\ ~invite[w.invite].revoked
  BY DEF WorkspaceInv, JoinsOK
<1>3. errand' = [errand EXCEPT ![c] = e]
  BY DEF Onward
<1>4. s = "vetted" => Owners(Seen(e, member)) # {}
  OBVIOUS
<1>5. w.op \notin {"none", "invite", "resend"} /\ (s \in {"written", "vetted"} => Changes(w))
  OBVIOUS
<1>6. w.step \notin {"due", "aimed"}
  OBVIOUS
<1> HIDE DEF w
<1>7. /\ e \in Errand /\ e.op = w.op /\ e.step = s /\ e.on = w.on /\ e.from = w.from
      /\ e.invite = w.invite /\ e.device = w.device /\ e.secret = w.secret
  BY <1>1 DEF Errand
<1> HIDE DEF e
<1>8. ErrandOK(e)
  BY <1>1, <1>5, <1>7 DEF ErrandOK, Changes, Departs
<1>9. e.op # "rotate" \/ e.step # "written"
  BY <1>5, <1>7 DEF Changes
<1>10. errands' \in 0 .. MaxErrands
  BY DEF WorkspaceInv, WorkspaceTypeOK
<1>11. ErrandMoves(c, e)
  BY <1>3, <1>7, <1>8 DEF ErrandMoves
<1>12. errand[c].step \notin {"due", "aimed"}
  BY <1>6
<1>13. e.step = "vetted" => Owners(Seen(e, member)) # {}
  BY <1>4, <1>7
<1>14. e.op = "join" => invite[e.invite].whom # Nobody /\ ~invite[e.invite].revoked
  BY <1>2, <1>7
<1> QED BY <1>9, <1>10, <1>11, <1>12, <1>13, <1>14, Plain

-----------------------------------------------------------------------------
(* Requests begin *)

LEMMA Begins ==
    ASSUME WorkspaceInv, NEW c \in Officers, NEW e, Serve(c, e),
           UNCHANGED <<member, patron, transfer, invite, letters, token, failures, skewed, missed>>,
           e \in Errand, ErrandOK(e), e.step \in {"asked", "checked"},
           e.op = "join" => invite[e.invite].whom # Nobody /\ ~invite[e.invite].revoked
    PROVE  WorkspaceInv'
<1>1. ErrandMoves(c, e)
  BY DEF Serve, ErrandMoves
<1>2. errands' \in 0 .. MaxErrands
  BY ErrandsAssumption DEF Serve, WorkspaceInv, WorkspaceTypeOK
<1>3. errand[c].step \notin {"due", "aimed"}
  BY DEF Serve, WorkspaceInv, ErrandsOK, ErrandOK
<1> QED BY <1>1, <1>2, <1>3, Plain

LEMMA Asks ==
    ASSUME WorkspaceInv, NEW c \in Officers, Ask(c)
    PROVE  WorkspaceInv'
<1> DEFINE Still == UNCHANGED <<member, patron, transfer, invite, letters, token, failures,
                                skewed, missed>>
<1>1. ASSUME NEW a \in Users, NEW u \in Users, AskRemove(c, a, u) PROVE WorkspaceInv'
  <2> DEFINE e == [NoErrand EXCEPT !.op = "remove", !.on = u]
  <2>1. e \in Errand /\ ErrandOK(e) /\ e.step = "asked" /\ e.op = "remove"
    BY DEF NoErrand, Errand, ErrandOK, Departs, Changes
  <2>2. Serve(c, e) /\ Still
    BY <1>1 DEF AskRemove
  <2> HIDE DEF e
  <2> QED BY <2>1, <2>2, Begins
<1>2. ASSUME NEW u \in Users, AskLeave(c, u) PROVE WorkspaceInv'
  <2> DEFINE e == [NoErrand EXCEPT !.op = "leave", !.on = u,
                                   !.from = IF HasRole(u, "owner") THEN u ELSE Nobody]
  <2>1. e \in Errand /\ ErrandOK(e) /\ e.step = "asked" /\ e.op = "leave"
    BY DEF NoErrand, Errand, ErrandOK, Departs, Changes
  <2>2. Serve(c, e) /\ Still
    BY <1>2 DEF AskLeave
  <2> HIDE DEF e
  <2> QED BY <2>1, <2>2, Begins
<1>3. ASSUME NEW a \in Users, NEW u \in Users, AskOffer(c, a, u) PROVE WorkspaceInv'
  <2> DEFINE e == [NoErrand EXCEPT !.op = "offer", !.from = a, !.on = u]
  <2>1. e \in Errand /\ ErrandOK(e) /\ e.step = "asked" /\ e.op = "offer"
    BY DEF NoErrand, Errand, ErrandOK, Departs, Changes
  <2>2. Serve(c, e) /\ Still
    BY <1>3 DEF AskOffer
  <2> HIDE DEF e
  <2> QED BY <2>1, <2>2, Begins
<1>4. ASSUME NEW u \in Users, AskTake(c, u) PROVE WorkspaceInv'
  <2> DEFINE e == [NoErrand EXCEPT !.op = "take", !.from = transfer.from, !.on = u]
  <2>1. transfer.from \in Users
    BY <1>4, NobodyAssumption DEF AskTake, WorkspaceInv, TransferOK, NoTransfer
  <2>2. e \in Errand /\ ErrandOK(e) /\ e.step = "asked" /\ e.op = "take"
    BY <2>1 DEF NoErrand, Errand, ErrandOK, Departs, Changes
  <2>3. Serve(c, e) /\ Still
    BY <1>4 DEF AskTake
  <2> HIDE DEF e
  <2> QED BY <2>2, <2>3, Begins
<1>5. ASSUME NEW a \in Users, NEW u \in Newcomers, AskInvite(c, a, u) PROVE WorkspaceInv'
  <2> DEFINE e == [NoErrand EXCEPT !.op = "invite", !.on = u]
  <2>1. e \in Errand /\ ErrandOK(e) /\ e.step = "asked" /\ e.op = "invite"
    BY NobodyAssumption DEF NoErrand, Errand, ErrandOK, Departs, Changes
  <2>2. Serve(c, e) /\ Still
    BY <1>5 DEF AskInvite
  <2> HIDE DEF e
  <2> QED BY <2>1, <2>2, Begins
<1>6. ASSUME NEW a \in Users, NEW i \in Invites, AskResend(c, a, i) PROVE WorkspaceInv'
  <2> DEFINE e == [NoErrand EXCEPT !.op = "resend", !.invite = i, !.renew = invite[i].expired,
                                   !.expected = invite[i].secret]
  <2>1. invite[i].expired \in BOOLEAN /\ invite[i].secret \in Secrets \cup {0}
    BY DEF WorkspaceInv, WorkspaceTypeOK, Invite
  <2>2. e \in Errand /\ ErrandOK(e) /\ e.step = "asked" /\ e.op = "resend"
    BY <2>1 DEF NoErrand, Errand, ErrandOK, Departs, Changes
  <2>3. Serve(c, e) /\ Still
    BY <1>6 DEF AskResend
  <2> HIDE DEF e
  <2> QED BY <2>2, <2>3, Begins
<1>7. ASSUME NEW u \in Users, NEW i \in Invites, AskJoin(c, u, i) PROVE WorkspaceInv'
  <2> DEFINE e == [NoErrand EXCEPT !.op = "join", !.step = "checked", !.invite = i, !.on = u]
  <2>1. e \in Errand /\ ErrandOK(e) /\ e.step = "checked" /\ e.invite = i
    BY DEF NoErrand, Errand, ErrandOK, Departs, Changes
  <2>2. Serve(c, e) /\ Still
    BY <1>7 DEF AskJoin
  <2>3. invite[i].whom # Nobody /\ ~invite[i].revoked
    BY <1>7, NobodyAssumption DEF AskJoin, Pending
  <2> HIDE DEF e
  <2> QED BY <2>1, <2>2, <2>3, Begins
<1>8. ASSUME NEW u \in Users, AskRegister(c, u) PROVE WorkspaceInv'
  <2> DEFINE e == [NoErrand EXCEPT !.op = "register", !.on = u]
  <2>1. e \in Errand /\ ErrandOK(e) /\ e.step = "asked" /\ e.op = "register"
    BY DEF NoErrand, Errand, ErrandOK, Departs, Changes
  <2>2. Serve(c, e) /\ Still
    BY <1>8 DEF AskRegister
  <2> HIDE DEF e
  <2> QED BY <2>1, <2>2, Begins
<1>9. ASSUME NEW d \in Devices, AskRotate(c, d) PROVE WorkspaceInv'
  <2> DEFINE e == [NoErrand EXCEPT !.op = "rotate", !.device = d]
  <2>1. e \in Errand /\ ErrandOK(e) /\ e.step = "asked" /\ e.op = "rotate"
    BY DEF NoErrand, Errand, ErrandOK, Departs, Changes
  <2>2. Serve(c, e) /\ Still
    BY <1>9 DEF AskRotate
  <2> HIDE DEF e
  <2> QED BY <2>1, <2>2, Begins
<1> QED BY <1>1, <1>2, <1>3, <1>4, <1>5, <1>6, <1>7, <1>8, <1>9 DEF Ask

-----------------------------------------------------------------------------
(* Memberships *)

LEMMA Steps ==
    ASSUME WorkspaceInv, NEW c \in Officers,
           CheckDeparture(c) \/ WriteDeparture(c) \/ Vet(c) \/ CheckTake(c) \/ WriteTake(c)
              \/ WriteJoin(c)
    PROVE  WorkspaceInv'
<1>1. /\ UNCHANGED <<member, patron, transfer, invite, letters, token, failures, skewed, missed>>
      /\ errands' = errands
  BY DEF CheckDeparture, WriteDeparture, Vet, CheckTake, WriteTake, WriteJoin
<1>2. errand[c].step \notin {"due", "aimed"}
  BY DEF CheckDeparture, WriteDeparture, Vet, CheckTake, WriteTake, WriteJoin, At
<1>3. ErrandOK(errand[c])
  BY DEF WorkspaceInv, ErrandsOK
<1>4. CASE Finish(c)
  BY <1>1, <1>2, <1>4, Finishes
<1>5. CASE CheckDeparture(c) \/ CheckTake(c)
  <2>1. CASE Onward(c, "checked")
    <3>1. errand[c].op \in {"remove", "leave", "take"}
      BY <1>5 DEF CheckDeparture, CheckTake, At
    <3> QED BY <1>1, <1>2, <2>1, <3>1, Proceeds
  <2> QED BY <1>4, <1>5, <2>1 DEF CheckDeparture, CheckTake
<1>6. CASE WriteDeparture(c) \/ WriteTake(c) \/ WriteJoin(c)
  <2>1. CASE Onward(c, "written")
    <3>1. errand[c].op \in {"remove", "leave", "take", "join"} /\ Changes(errand[c])
      BY <1>6 DEF WriteDeparture, WriteTake, WriteJoin, At, Changes
    <3> QED BY <1>1, <1>2, <2>1, <3>1, Proceeds
  <2> QED BY <1>4, <1>6, <2>1 DEF WriteDeparture, WriteTake, WriteJoin
<1>7. CASE Vet(c)
  <2>1. CASE Vetted(errand[c]) /\ Onward(c, "vetted")
    <3> DEFINE w == errand[c]
               e == [w EXCEPT !.step = "vetted"]
    <3>1. w.step = "written" /\ Written(w) # {} /\ w \in Errand
      BY <1>7 DEF Vet, WorkspaceInv, WorkspaceTypeOK
    <3>2. Changes(w)
      BY <3>1 DEF Written, Changes
    <3>3. Owners(Seen(e, member)) # {}
      <4>1. Owners(Seen(w, member)) # {}
        BY <2>1 DEF Vetted
      <4>2. /\ e.op = w.op /\ e.on = w.on /\ e.from = w.from /\ e.invite = w.invite
            /\ e.step = "vetted"
        BY <3>1 DEF Errand
      <4> HIDE DEF w, e
      <4>3. Seen(e, member) = Seen(w, member)
        BY <3>1, <4>2 DEF Seen, Written
      <4> QED BY <4>1, <4>3
    <3>4. errand[c].op \notin {"none", "invite", "resend"} /\ Changes(errand[c])
      BY <3>2 DEF Changes
    <3>5. Owners(Seen([errand[c] EXCEPT !.step = "vetted"], member)) # {}
      BY <3>3
    <3> QED BY <1>1, <1>2, <2>1, <3>4, <3>5, Proceeds
  <2> QED BY <1>4, <1>7, <2>1 DEF Vet
<1> QED BY <1>5, <1>6, <1>7

(* What a commit makes of the memberships *)
LEMMA SeenTypes ==
    ASSUME WorkspaceInv, NEW c \in Officers, errand[c].step = "vetted"
    PROVE  /\ Seen(errand[c], member) \in [Users -> Membership]
           /\ ~Departs(errand[c]) =>
                 \A u \in Users : Active(u) => Seen(errand[c], member)[u].status = "active"
           /\ Departs(errand[c]) =>
                 \A u \in Users : Active(u) =>
                     Seen(errand[c], member)[u].status = "active" \/ u = errand[c].on
<1> DEFINE e == errand[c]
<1>1. /\ member \in [Users -> Membership] /\ e \in Errand /\ ErrandOK(e)
      /\ invite \in [Invites -> Invite] /\ e.step = "vetted" /\ Changes(e)
  BY DEF WorkspaceInv, WorkspaceTypeOK, ErrandsOK, ErrandOK
<1> HIDE DEF e
<1>2. CASE Departs(e)
  <2>1. Seen(e, member) = [member EXCEPT ![e.on].status = "removed"] /\ e.on \in Users
    BY <1>1, <1>2 DEF Seen, Written, Departs, ErrandOK
  <2> QED BY <1>1, <1>2, <2>1 DEF Membership, Active, e
<1>3. CASE e.op = "take"
  <2>1. Seen(e, member) = [u \in Users |->
            IF member[u].status = "none" THEN member[u]
            ELSE IF u = e.on THEN [member[u] EXCEPT !.role = "owner"]
            ELSE IF u = e.from THEN [member[u] EXCEPT !.role = "member"]
            ELSE member[u]]
    BY <1>1, <1>3 DEF Seen, Written
  <2> QED BY <1>1, <1>3, <2>1 DEF Membership, Active, Departs, e
<1>4. CASE e.op = "join"
  <2>1. Seen(e, member) = [member EXCEPT ![e.on] =
            IF member[e.on].status = "none"
            THEN [role |-> invite[e.invite].role, status |-> "active"]
            ELSE member[e.on]]
    BY <1>1, <1>4 DEF Seen, Written
  <2>2. e.on \in Users /\ invite[e.invite].role \in {"owner", "member"}
    BY <1>1, <1>4 DEF ErrandOK, Invite
  <2> QED BY <1>1, <1>4, <2>1, <2>2 DEF Membership, Active, Departs, e
<1> QED BY <1>1, <1>2, <1>3, <1>4 DEF Changes, Departs

LEMMA Commits ==
    ASSUME WorkspaceInv, NEW c \in Officers, CommitMembership(c)
    PROVE  WorkspaceInv'
<1> DEFINE w == errand[c]
           e == IF Departs(w) THEN [w EXCEPT !.step = "due"] ELSE NoErrand
<1>1. /\ w.step = "vetted" /\ w \in Errand /\ ErrandOK(w) /\ Changes(w)
      /\ member' = Seen(w, member)
      /\ patron' = IF w.op = "take" THEN w.on ELSE patron
      /\ transfer' = IF w.op = "take" THEN NoTransfer ELSE transfer
      /\ invite' = IF w.op = "join" THEN [invite EXCEPT ![w.invite].consumed = TRUE] ELSE invite
      /\ skewed' = (skewed \/ Overlaps(c))
      /\ UNCHANGED <<letters, token, errands, failures, missed>>
  BY DEF CommitMembership, WorkspaceInv, WorkspaceTypeOK, ErrandsOK, ErrandOK
<1>2. errand' = [errand EXCEPT ![c] = e]
  BY DEF CommitMembership, Onward, Finish, Departs
<1>3. WorkspaceTypeOK /\ TransferOK /\ InviteSettlesOnce
  BY DEF WorkspaceInv
<1>4. /\ member' \in [Users -> Membership]
      /\ ~Departs(w) => \A u \in Users : Active(u) => member'[u].status = "active"
      /\ Departs(w) => \A u \in Users : Active(u) => member'[u].status = "active" \/ u = w.on
  BY <1>1, SeenTypes
<1>5. w.op = "join" => w.invite \in Invites /\ ~invite[w.invite].revoked
  BY <1>1 DEF WorkspaceInv, JoinsOK, ErrandOK
<1> HIDE DEF w
<1>6. /\ e \in Errand /\ ErrandOK(e) /\ e.step \in {"asked", "due"}
      /\ e.op \notin {"join", "rotate"} /\ (Departs(w) => e.step = "due" /\ e.on = w.on)
  <2>1. CASE Departs(w)
    <3>1. e \in Errand /\ e.op = w.op /\ e.step = "due" /\ e.on = w.on
      BY <1>1, <2>1 DEF Errand
    <3> QED BY <1>1, <2>1, <3>1 DEF ErrandOK, Departs, Changes
  <2>2. CASE ~Departs(w)
    <3>1. e = NoErrand /\ e.op = "none" /\ e.step = "asked"
      BY <2>2 DEF NoErrand
    <3> QED BY <2>2, <3>1, NoErrandOK
  <2> QED BY <2>1, <2>2
<1> HIDE DEF e
<1>7. ErrandMoves(c, e)
  BY <1>2, <1>6 DEF ErrandMoves
<1>8. /\ RolesKept /\ invite' \in [Invites -> Invite]
      /\ \A i \in Invites : invite'[i].revoked = invite[i].revoked
      /\ InviteSettlesOnce'
  <2>1. CASE w.op = "join"
    <3>1. /\ \A i \in Invites : i # w.invite => invite'[i] = invite[i]
          /\ invite'[w.invite] = [invite[w.invite] EXCEPT !.consumed = TRUE]
          /\ invite' \in [Invites -> Invite]
      BY ZenonT(60), <1>1, <1>3, <1>5, <2>1 DEF WorkspaceTypeOK, Invite
    <3>2. /\ invite'[w.invite].whom = invite[w.invite].whom
          /\ invite'[w.invite].role = invite[w.invite].role
          /\ invite'[w.invite].revoked = invite[w.invite].revoked
      BY <1>3, <1>5, <2>1, <3>1 DEF WorkspaceTypeOK, Invite
    <3>3. \A i \in Invites : invite'[i].revoked = invite[i].revoked
      BY <3>1, <3>2
    <3>4. InviteSettlesOnce'
      BY <1>3, <1>5, <2>1, <3>1, <3>3 DEF InviteSettlesOnce
    <3> QED BY <3>1, <3>2, <3>3, <3>4 DEF RolesKept
  <2>2. CASE w.op # "join"
    BY <1>1, <1>3, <2>2 DEF RolesKept, InviteSettlesOnce, WorkspaceTypeOK
  <2> QED BY <2>1, <2>2
<1>9. VettedOK'
  <2> SUFFICES ASSUME ~skewed'
               PROVE  /\ Owners(member') # {}
                      /\ \A d \in Officers : errand'[d].step # "vetted"
    BY DEF VettedOK, Owners
  <2>1. ~skewed /\ \A d \in Officers \ {c} : errand[d].step # "vetted"
    BY <1>1 DEF Overlaps, WorkspaceInv, WorkspaceTypeOK
  <2>2. Owners(Seen(w, member)) # {}
    BY <1>1, <2>1 DEF WorkspaceInv, VettedOK, w
  <2>3. \A d \in Officers : errand'[d].step # "vetted"
    BY <1>6, <1>7, <2>1, ErrandsMove
  <2> QED BY <1>1, <2>2, <2>3
<1>10. JoinsOK' /\ RotationsOK' /\ FamilyOK'
  <2>1. token' = token
    BY <1>1
  <2> QED BY <1>6, <1>7, <1>8, <2>1, JoinsKept, RotationsKept, FamilyKept
<1>11. TokensAnswered'
  <2> SUFFICES ASSUME NEW d \in Devices, Usable(d)' PROVE Covered(d)'
    BY DEF TokensAnswered
  <2>1. Usable(d) /\ Covered(d) /\ token[d].person \in Users /\ token' = token
    BY <1>1 DEF WorkspaceInv, TokensAnswered, Usable, FamilyOK
  <2>2. \A b \in Officers : errand[b].step \in {"due", "aimed"} => errand'[b] = errand[b]
    BY <1>1, <1>7, ErrandsMove DEF w
  <2>3. CASE Active(token[d].person)
    <3>1. CASE member'[token[d].person].status = "active"
      BY <2>1, <3>1 DEF Covered, Active
    <3>2. CASE Departs(w) /\ token[d].person = w.on
      <4>1. errand'[c] = e
        BY <1>7, ErrandsMove
      <4> QED BY <1>6, <2>1, <3>2, <4>1 DEF Covered
    <3> QED BY <1>4, <2>1, <2>3, <3>1, <3>2
  <2>4. CASE ~Active(token[d].person)
    BY <1>1, <2>1, <2>2, <2>4 DEF Covered
  <2> QED BY <2>3, <2>4
<1>12. WorkspaceTypeOK' /\ ErrandsOK'
  <2>1. patron' \in Users /\ transfer' \in Transfer
    BY <1>1, <1>3, NobodyAssumption
       DEF WorkspaceTypeOK, ErrandOK, NoTransfer, Transfer
  <2>2. skewed' \in BOOLEAN
    BY <1>1, <1>3 DEF WorkspaceTypeOK, Overlaps
  <2>3. errand' \in [Officers -> Errand] /\ ErrandsOK'
    BY <1>7, ErrandsMove
  <2> QED BY <1>1, <1>3, <1>4, <1>8, <2>1, <2>2, <2>3 DEF WorkspaceTypeOK
<1>13. TransferOK'
  BY <1>1, <1>3 DEF TransferOK, NoTransfer
<1> QED BY <1>8, <1>9, <1>10, <1>11, <1>12, <1>13 DEF WorkspaceInv

(* The tokens to be revoked are seen, *)
LEMMA Aims ==
    ASSUME WorkspaceInv, NEW c \in Officers, AimRevocation(c)
    PROVE  WorkspaceInv'
<1> DEFINE w == errand[c]
           aim == Revocable(w.on)
           e == [w EXCEPT !.step = "aimed", !.aim = aim]
<1>1. /\ w.step = "due" /\ w \in Errand /\ ErrandOK(w) /\ Departs(w) /\ w.on \in Users
      /\ missed' = missed \ {w.on}
      /\ UNCHANGED <<member, patron, transfer, invite, letters, token, errands, failures, skewed>>
  BY DEF AimRevocation, WorkspaceInv, WorkspaceTypeOK, ErrandsOK, ErrandOK, Departs
<1>2. errand' = [errand EXCEPT ![c] = e]
  BY DEF AimRevocation, WorkspaceInv, WorkspaceTypeOK
<1>3. aim \in SUBSET Devices
  BY DEF Revocable
<1> HIDE DEF w, aim
<1>4. /\ e \in Errand /\ e.op = w.op /\ e.on = w.on /\ e.step = "aimed" /\ e.aim = aim
  BY <1>1, <1>3 DEF Errand
<1> HIDE DEF e
<1>5. ErrandOK(e)
  BY <1>1, <1>4 DEF ErrandOK, Departs, Changes
<1>6. ErrandMoves(c, e)
  BY <1>2, <1>4, <1>5 DEF ErrandMoves
<1>7. VettedOK' /\ JoinsOK' /\ RotationsOK' /\ FamilyOK'
  <2>1. RolesKept /\ e.op \notin {"join", "rotate"}
    BY <1>1, <1>4 DEF RolesKept, Departs
  <2> QED BY <1>1, <1>4, <1>6, <2>1, VettedKept, JoinsKept, RotationsKept, FamilyKept
<1>8. TokensAnswered'
  <2> SUFFICES ASSUME NEW d \in Devices, Usable(d)' PROVE Covered(d)'
    BY DEF TokensAnswered
  <2>1. /\ Usable(d) /\ Covered(d) /\ token' = token /\ member' = member
        /\ token[d].user = token[d].person
    BY <1>1 DEF WorkspaceInv, TokensAnswered, Usable, FamilyOK
  <2>2. errand'[c] = e /\ \A b \in Officers : b # c => errand'[b] = errand[b]
    BY <1>6, ErrandsMove
  <2>3. CASE token[d].person = w.on
    <3>1. d \in aim
      BY <2>1, <2>3 DEF aim, Revocable
    <3> QED BY <1>4, <2>1, <2>2, <2>3, <3>1 DEF Covered
  <2>4. CASE token[d].person # w.on
    BY <1>1, <2>1, <2>2, <2>4 DEF Covered, Active, w
  <2> QED BY <2>3, <2>4
<1>9. WorkspaceTypeOK' /\ ErrandsOK' /\ TransferOK' /\ InviteSettlesOnce'
  BY <1>1, <1>6, ErrandsMove DEF WorkspaceInv, WorkspaceTypeOK, TransferOK, InviteSettlesOnce
<1> QED BY <1>7, <1>8, <1>9 DEF WorkspaceInv

(* and revoked. *)
LEMMA Revokes ==
    ASSUME WorkspaceInv, NEW c \in Officers, RevokeAllForUserWorkspace(c)
    PROVE  WorkspaceInv'
<1> DEFINE w == errand[c]
<1>1. /\ w.step = "aimed" /\ w.aim \subseteq Devices
      /\ \A d \in w.aim : DeviceFree(d)
      /\ token' = [d \in Devices |->
            IF d \in w.aim THEN [token[d] EXCEPT !.state = "revoked"] ELSE token[d]]
      /\ UNCHANGED <<member, patron, transfer, invite, letters, errands, failures, skewed, missed>>
  BY DEF RevokeAllForUserWorkspace, WorkspaceInv, WorkspaceTypeOK, Errand
<1>2. ErrandMoves(c, NoErrand)
  BY NoErrandOK DEF RevokeAllForUserWorkspace, ErrandMoves, Finish
<1>3. WorkspaceTypeOK /\ FamilyOK
  BY DEF WorkspaceInv
<1>4. \A d \in Devices :
          /\ token'[d] \in Token /\ token'[d].parent = token[d].parent
          /\ token'[d].user = token[d].user /\ token'[d].person = token[d].person
          /\ d \in w.aim => token'[d].state = "revoked"
          /\ d \notin w.aim => token'[d] = token[d]
  BY <1>1, <1>3 DEF WorkspaceTypeOK, Token
<1>5. VettedOK' /\ JoinsOK'
  <2>1. RolesKept
    BY <1>1 DEF RolesKept
  <2> QED BY <1>1, <1>2, <2>1, VettedKept, JoinsKept DEF NoErrand
<1>6. RotationsOK'
  <2>1. ASSUME NEW d \in Officers \ {c}, At(d, "rotate", "written")
        PROVE  token'[errand[d].device].state = token[errand[d].device].state
    <3>1. errand[d].device \notin w.aim
      BY <1>1, <2>1 DEF DeviceFree
    <3>2. errand[d].device \in Devices
      BY <2>1 DEF WorkspaceInv, ErrandsOK, ErrandOK, At
    <3> QED BY <1>4, <3>1, <3>2
  <2> QED BY <1>2, <2>1, RotationsKept DEF NoErrand
<1>7. FamilyOK'
  <2>1. \A d \in Devices : token'[d].state \in {"free", "live"} => token[d].state \in {"free", "live"}
    BY <1>4
  <2>2. \A d \in Devices : Usable(d)' => Usable(d)
    BY <1>4 DEF Usable
  <2> QED BY <1>3, <1>4, <2>1, <2>2 DEF FamilyOK
<1>8. TokensAnswered'
  <2> SUFFICES ASSUME NEW d \in Devices, Usable(d)' PROVE Covered(d)'
    BY DEF TokensAnswered
  <2>1. d \notin w.aim /\ Usable(d) /\ Covered(d)
    BY <1>4 DEF WorkspaceInv, TokensAnswered, Usable
  <2>2. errand'[c] = NoErrand /\ \A b \in Officers : b # c => errand'[b] = errand[b]
    BY <1>2, ErrandsMove
  <2> QED BY <1>1, <1>4, <2>1, <2>2 DEF Covered, Active
<1>9. WorkspaceTypeOK' /\ ErrandsOK' /\ TransferOK' /\ InviteSettlesOnce'
  <2>1. token' \in [Devices -> Token]
    BY <1>1, <1>4
  <2> QED BY <1>1, <1>2, <2>1, ErrandsMove
          DEF WorkspaceInv, WorkspaceTypeOK, TransferOK, InviteSettlesOnce
<1> QED BY <1>5, <1>6, <1>7, <1>8, <1>9 DEF WorkspaceInv

-----------------------------------------------------------------------------
(* The offer of the ownership, the invites *)

LEMMA Files ==
    ASSUME WorkspaceInv, NEW c \in Officers, FileOffer(c)
    PROVE  WorkspaceInv'
<1> DEFINE w == errand[c]
<1>1. /\ w.op = "offer" /\ w.step = "asked" /\ w.from \in Users /\ w.on \in Users
      /\ transfer' = transfer \/ transfer' = [from |-> w.from, to |-> w.on]
      /\ UNCHANGED <<member, patron, invite, letters, token, errands, failures, skewed, missed>>
  BY DEF FileOffer, At, WorkspaceInv, ErrandsOK, ErrandOK
<1>2. ErrandMoves(c, NoErrand)
  BY NoErrandOK DEF FileOffer, ErrandMoves, Finish
<1> HIDE DEF w
<1>3. RolesKept /\ token' = token /\ errand[c].step \notin {"due", "aimed"}
  BY <1>1 DEF RolesKept, w
<1>4. VettedOK' /\ JoinsOK' /\ RotationsOK' /\ FamilyOK'
  BY <1>1, <1>2, <1>3, VettedKept, JoinsKept, RotationsKept, FamilyKept DEF NoErrand
<1>5. TokensAnswered'
  BY <1>1, <1>2, <1>3, TokensKept DEF Active
<1>6. transfer' \in Transfer /\ TransferOK'
  BY <1>1 DEF WorkspaceInv, WorkspaceTypeOK, Transfer, TransferOK
<1>7. WorkspaceTypeOK' /\ ErrandsOK' /\ InviteSettlesOnce'
  BY <1>1, <1>2, <1>6, ErrandsMove DEF WorkspaceInv, WorkspaceTypeOK, InviteSettlesOnce
<1> QED BY <1>4, <1>5, <1>6, <1>7 DEF WorkspaceInv

LEMMA Delivers ==
    ASSUME WorkspaceInv, NEW c \in Officers, Deliver(c)
    PROVE  WorkspaceInv'
<1>1. /\ errand[c].op \in {"invite", "resend"} /\ errand[c].step = "asked"
      /\ UNCHANGED <<member, patron, transfer, invite, token, errands, failures, skewed, missed>>
  BY DEF Deliver, At
<1>2. PICK k \in FreshSecret :
          /\ letters' = letters \cup {k}
          /\ errand' = [errand EXCEPT ![c].step = "checked", ![c].secret = k]
  BY DEF Deliver
<1> DEFINE w == errand[c]
           e == [w EXCEPT !.step = "checked", !.secret = k]
<1>3. /\ w \in Errand /\ ErrandOK(w) /\ errand \in [Officers -> Errand]
      /\ letters \subseteq Secrets /\ k \in Secrets
  BY <1>2 DEF WorkspaceInv, WorkspaceTypeOK, ErrandsOK, FreshSecret, Least
<1>4. errand' = [errand EXCEPT ![c] = e]
  BY <1>2, <1>3
<1>5. w.op \in {"invite", "resend"} /\ w.step = "asked"
  BY <1>1
<1> HIDE DEF w
<1>6. /\ e \in Errand /\ e.op = w.op /\ e.step = "checked" /\ e.secret = k
      /\ e.on = w.on /\ e.from = w.from /\ e.invite = w.invite /\ e.device = w.device
  BY <1>3 DEF Errand
<1> HIDE DEF e
<1>7. ErrandMoves(c, e) /\ e.op \notin {"join", "rotate"} /\ e.step = "checked"
  BY <1>3, <1>4, <1>5, <1>6 DEF ErrandMoves, ErrandOK, Departs, Changes
<1>8. RolesKept /\ token' = token /\ errand[c].step \notin {"due", "aimed"}
  BY <1>1 DEF RolesKept
<1>9. VettedOK' /\ JoinsOK' /\ RotationsOK' /\ FamilyOK'
  BY <1>1, <1>7, <1>8, VettedKept, JoinsKept, RotationsKept, FamilyKept
<1>10. TokensAnswered'
  BY <1>1, <1>7, <1>8, TokensKept DEF Active
<1>11. WorkspaceTypeOK' /\ ErrandsOK' /\ TransferOK' /\ InviteSettlesOnce'
  BY <1>1, <1>2, <1>3, <1>7, ErrandsMove
     DEF WorkspaceInv, WorkspaceTypeOK, TransferOK, InviteSettlesOnce
<1> QED BY <1>9, <1>10, <1>11 DEF WorkspaceInv

(* A row of the invites is written. *)
LEMMA Writes ==
    ASSUME WorkspaceInv, NEW i \in Invites, NEW v \in Invite,
           invite' = [invite EXCEPT ![i] = v],
           invite[i].whom # Nobody => v.whom = invite[i].whom /\ v.role = invite[i].role,
           ~(v.consumed /\ v.revoked)
    PROVE  RolesKept /\ InviteSettlesOnce' /\ invite' \in [Invites -> Invite]
<1>1. /\ invite' \in [Invites -> Invite] /\ invite'[i] = v
      /\ \A j \in Invites : j # i => invite'[j] = invite[j]
  BY DEF WorkspaceInv, WorkspaceTypeOK
<1> QED BY <1>1 DEF WorkspaceInv, RolesKept, InviteSettlesOnce

LEMMA Inserts ==
    ASSUME WorkspaceInv, NEW c \in Officers, InsertInvite(c)
    PROVE  WorkspaceInv'
<1>1. /\ errand[c].op = "invite" /\ errand[c].step = "checked"
      /\ errand[c].on \in Users /\ errand[c].secret \in Secrets
      /\ UNCHANGED <<member, patron, transfer, letters, token, errands, failures, skewed, missed>>
  BY DEF InsertInvite, At, WorkspaceInv, ErrandsOK, ErrandOK
<1>2. ErrandMoves(c, NoErrand)
  BY NoErrandOK DEF InsertInvite, ErrandMoves, Finish
<1>3. PICK i \in FreshInvite, role \in {"owner", "member"} :
          invite' = [invite EXCEPT ![i] =
              [NoInvite EXCEPT !.whom = errand[c].on, !.role = role, !.secret = errand[c].secret]]
  BY DEF InsertInvite
<1> DEFINE v == [NoInvite EXCEPT !.whom = errand[c].on, !.role = role, !.secret = errand[c].secret]
<1>4. i \in Invites /\ invite[i].whom = Nobody
  BY DEF FreshInvite, Least
<1>5. v \in Invite /\ ~v.consumed /\ ~v.revoked
  BY <1>1, <1>3 DEF Invite, NoInvite
<1>6. invite' = [invite EXCEPT ![i] = v]
  BY <1>3
<1> HIDE DEF v
<1>7. RolesKept /\ InviteSettlesOnce' /\ invite' \in [Invites -> Invite]
  BY <1>4, <1>5, <1>6, Writes
<1>8. \A j \in Invites : invite[j].whom # Nobody => invite'[j].revoked = invite[j].revoked
  BY <1>4, <1>6
<1>9. token' = token /\ errand[c].step \notin {"due", "aimed"}
  BY <1>1
<1>10. VettedOK' /\ JoinsOK' /\ RotationsOK' /\ FamilyOK'
  BY <1>1, <1>2, <1>7, <1>8, <1>9, VettedKept, JoinsKept, RotationsKept, FamilyKept DEF NoErrand
<1>11. TokensAnswered'
  BY <1>1, <1>2, <1>9, TokensKept DEF Active
<1>12. WorkspaceTypeOK' /\ ErrandsOK' /\ TransferOK'
  BY <1>1, <1>2, <1>7, ErrandsMove DEF WorkspaceInv, WorkspaceTypeOK, TransferOK
<1> QED BY <1>7, <1>10, <1>11, <1>12 DEF WorkspaceInv

LEMMA Activates ==
    ASSUME WorkspaceInv, NEW c \in Officers, ActivateResentInvite(c)
    PROVE  WorkspaceInv'
<1> DEFINE w == errand[c]
           i == w.invite
           x == invite[i].expired /\ ~w.renew
           v == [invite[i] EXCEPT !.secret = w.secret, !.expired = x]
<1>1. /\ w.op = "resend" /\ w.step = "checked" /\ w \in Errand
      /\ i \in Invites /\ w.secret \in Secrets /\ invite \in [Invites -> Invite]
      /\ UNCHANGED <<member, patron, transfer, letters, token, errands, failures, skewed, missed>>
  BY DEF ActivateResentInvite, At, WorkspaceInv, WorkspaceTypeOK, ErrandsOK, ErrandOK
<1>2. ErrandMoves(c, NoErrand)
  BY NoErrandOK DEF ActivateResentInvite, ErrandMoves, Finish
<1>3. invite' = invite \/ (invite' = [invite EXCEPT ![i] = v] /\ Pending(i))
  <2>1. \/ invite' = invite
        \/ /\ Pending(i)
           /\ invite' = [invite EXCEPT ![i].secret = w.secret, ![i].expired = @ /\ ~w.renew]
    BY DEF ActivateResentInvite
  <2> HIDE DEF w
  <2> QED BY <1>1, <2>1
<1> HIDE DEF w
<1>4. /\ v \in Invite /\ v.whom = invite[i].whom /\ v.role = invite[i].role
      /\ v.consumed = invite[i].consumed /\ v.revoked = invite[i].revoked
  <2>1. x \in BOOLEAN
    OBVIOUS
  <2> HIDE DEF x
  <2> QED BY <1>1, <2>1 DEF Invite
<1> HIDE DEF v, i
<1>5. /\ RolesKept /\ InviteSettlesOnce' /\ invite' \in [Invites -> Invite]
      /\ \A j \in Invites : invite'[j].revoked = invite[j].revoked
  <2>1. CASE invite' = invite
    BY <1>1, <2>1 DEF RolesKept, WorkspaceInv, InviteSettlesOnce
  <2>2. CASE invite' = [invite EXCEPT ![i] = v] /\ Pending(i)
    <3>1. RolesKept /\ InviteSettlesOnce' /\ invite' \in [Invites -> Invite]
      BY <1>1, <1>4, <2>2, Writes DEF Pending
    <3> QED BY <1>1, <1>4, <2>2, <3>1
  <2> QED BY <1>3, <2>1, <2>2
<1>6. token' = token /\ errand[c].step \notin {"due", "aimed"}
  BY <1>1 DEF w
<1>7. VettedOK' /\ JoinsOK' /\ RotationsOK' /\ FamilyOK'
  BY <1>1, <1>2, <1>5, <1>6, VettedKept, JoinsKept, RotationsKept, FamilyKept DEF NoErrand
<1>8. TokensAnswered'
  BY <1>1, <1>2, <1>6, TokensKept DEF Active
<1>9. WorkspaceTypeOK' /\ ErrandsOK' /\ TransferOK'
  BY <1>1, <1>2, <1>5, ErrandsMove DEF WorkspaceInv, WorkspaceTypeOK, TransferOK
<1> QED BY <1>5, <1>7, <1>8, <1>9 DEF WorkspaceInv

(* Its revocation and its expiry wait for, or say nothing of, who accepts it. *)
LEMMA Withdraws ==
    ASSUME WorkspaceInv, NEW i \in Invites,
           (\E a \in Users : RevokeInvite(a, i)) \/ ExpireInvite(i)
    PROVE  WorkspaceInv'
<1>1. UNCHANGED <<member, patron, transfer, letters, token, errand, errands, failures,
                  skewed, missed>>
  BY DEF RevokeInvite, ExpireInvite
<1>2. invite \in [Invites -> Invite] /\ InviteSettlesOnce
  BY DEF WorkspaceInv, WorkspaceTypeOK
<1>3. /\ RolesKept /\ InviteSettlesOnce' /\ invite' \in [Invites -> Invite]
      /\ \A c \in Officers : errand[c].op = "join" =>
             invite'[errand[c].invite].revoked = invite[errand[c].invite].revoked
  <2>1. CASE \E a \in Users : RevokeInvite(a, i)
    <3> DEFINE v == [invite[i] EXCEPT !.revoked = TRUE]
    <3>1. invite' = [invite EXCEPT ![i] = v] /\ InviteFree(i) /\ Pending(i)
      BY <2>1 DEF RevokeInvite
    <3>2. v \in Invite /\ v.whom = invite[i].whom /\ v.role = invite[i].role /\ ~v.consumed
      BY <1>2, <3>1 DEF Invite, Pending
    <3> HIDE DEF v
    <3>3. RolesKept /\ InviteSettlesOnce' /\ invite' \in [Invites -> Invite]
      BY <3>1, <3>2, Writes
    <3>4. \A c \in Officers : errand[c].op = "join" => errand[c].invite # i
      BY <3>1 DEF InviteFree
    <3> QED BY <3>1, <3>3, <3>4
  <2>2. CASE ExpireInvite(i)
    <3> DEFINE v == [invite[i] EXCEPT !.expired = TRUE]
    <3>1. invite' = [invite EXCEPT ![i] = v]
      BY <2>2 DEF ExpireInvite
    <3>2. /\ v \in Invite /\ v.whom = invite[i].whom /\ v.role = invite[i].role
          /\ v.consumed = invite[i].consumed /\ v.revoked = invite[i].revoked
      BY <1>2 DEF Invite
    <3> HIDE DEF v
    <3>3. RolesKept /\ InviteSettlesOnce' /\ invite' \in [Invites -> Invite]
      BY <1>2, <3>1, <3>2, Writes DEF InviteSettlesOnce
    <3>4. \A j \in Invites : invite'[j].revoked = invite[j].revoked
      BY <1>2, <3>1, <3>2
    <3>5. \A c \in Officers : errand[c].op = "join" => errand[c].invite \in Invites
      BY DEF WorkspaceInv, ErrandsOK, ErrandOK
    <3> QED BY <3>3, <3>4, <3>5
  <2> QED BY <2>1, <2>2
<1>4. JoinsOK'
  BY <1>1, <1>3 DEF WorkspaceInv, JoinsOK, RolesKept, ErrandsOK, ErrandOK
<1>5. VettedOK'
  <2>1. ASSUME NEW c \in Officers PROVE Seen(errand[c], member)' = Seen(errand[c], member)
    <3>1. errand[c].op = "join" =>
              errand[c].invite \in Invites /\ invite[errand[c].invite].whom # Nobody
      BY DEF WorkspaceInv, ErrandsOK, ErrandOK, JoinsOK
    <3> QED BY <1>1, <1>3, <3>1 DEF RolesKept, Seen, Written
  <2> QED BY <1>1, <2>1 DEF WorkspaceInv, VettedOK, Owners
<1>6. RotationsOK' /\ FamilyOK'
  BY <1>1 DEF WorkspaceInv, RotationsOK, FamilyOK, At, Usable
<1>7. TokensAnswered'
  BY <1>1 DEF WorkspaceInv, TokensAnswered, Covered, Active, Usable
<1>8. WorkspaceTypeOK' /\ ErrandsOK' /\ TransferOK'
  BY <1>1, <1>3 DEF WorkspaceInv, WorkspaceTypeOK, ErrandsOK, ErrandOK, TransferOK, Departs, Changes
<1> QED BY <1>3, <1>4, <1>5, <1>6, <1>7, <1>8 DEF WorkspaceInv

-----------------------------------------------------------------------------
(* Device tokens *)

LEMMA LocksPredecessor ==
    ASSUME WorkspaceInv, NEW c \in Officers, LockPredecessor(c)
    PROVE  WorkspaceInv'
<1>1. /\ UNCHANGED <<member, patron, transfer, invite, letters, token, errands, failures,
                     skewed, missed>>
      /\ errand[c].op = "rotate" /\ errand[c].step = "asked" /\ DeviceFree(errand[c].device)
      /\ errand[c].device \in Devices
  BY DEF LockPredecessor, At, WorkspaceInv, ErrandsOK, ErrandOK
<1>2. CASE Finish(c)
  BY <1>1, <1>2, Finishes
<1>3. CASE token[errand[c].device].state = "live" /\ Onward(c, "written")
  <2> DEFINE w == errand[c]
             e == [w EXCEPT !.step = "written"]
  <2>1. w \in Errand /\ ErrandOK(w) /\ errand' = [errand EXCEPT ![c] = e]
    BY <1>3 DEF WorkspaceInv, WorkspaceTypeOK, ErrandsOK, Onward
  <2>2. w.op = "rotate" /\ w.step = "asked" /\ token[w.device].state = "live" /\ DeviceFree(w.device)
    BY <1>1, <1>3
  <2> HIDE DEF w
  <2>3. e \in Errand /\ e.op = "rotate" /\ e.step = "written" /\ e.device = w.device
    BY <2>1, <2>2 DEF Errand
  <2> HIDE DEF e
  <2>4. w.device \in Devices
    BY <1>1 DEF w
  <2>5. ErrandMoves(c, e)
    BY <2>1, <2>3, <2>4 DEF ErrandMoves, ErrandOK, Departs, Changes
  <2>6. RolesKept /\ token' = token /\ errand[c].step \notin {"due", "aimed"}
    BY <1>1 DEF RolesKept
  <2>7. VettedOK' /\ JoinsOK' /\ FamilyOK'
    BY <1>1, <2>3, <2>5, <2>6, VettedKept, JoinsKept, FamilyKept
  <2>8. RotationsOK'
    <3>1. errand'[c] = e /\ \A d \in Officers : d # c => errand'[d] = errand[d]
      BY <2>5, ErrandsMove
    <3>2. \A d \in Officers : At(d, "rotate", "written") => errand[d].device # w.device
      BY <2>2 DEF DeviceFree
    <3> QED BY <2>2, <2>3, <2>6, <3>1, <3>2 DEF WorkspaceInv, RotationsOK, At
  <2>9. TokensAnswered'
    BY <1>1, <2>5, <2>6, TokensKept DEF Active
  <2>10. WorkspaceTypeOK' /\ ErrandsOK' /\ TransferOK' /\ InviteSettlesOnce'
    BY <1>1, <2>5, ErrandsMove DEF WorkspaceInv, WorkspaceTypeOK, TransferOK, InviteSettlesOnce
  <2> QED BY <2>7, <2>8, <2>9, <2>10 DEF WorkspaceInv
<1> QED BY <1>2, <1>3 DEF LockPredecessor

(* A token that is new has its person for user, is nobody's parent, and its *)
(* person is covered. *)
LEMMA MissedNowCovers ==
    ASSUME WorkspaceInv, NEW c \in Officers, ErrandMoves(c, NoErrand), member' = member,
           NEW u \in Users, missed' = MissedNow(u), errand[c].step # "due"
    PROVE  /\ missed \subseteq missed' /\ missed' \subseteq Users
           /\ \/ member'[u].status = "active" \/ u \in missed'
              \/ \E d \in Officers : errand'[d].step = "due" /\ errand'[d].on = u
<1>1. missed \subseteq Users
  BY DEF WorkspaceInv, WorkspaceTypeOK
<1>2. \A d \in Officers : d # c => errand'[d] = errand[d]
  BY ErrandsMove
<1>3. CASE Active(u)
  BY <1>1, <1>3 DEF MissedNow, Active
<1>4. CASE \E d \in Officers : errand[d].step = "due" /\ errand[d].on = u
  BY <1>1, <1>2, <1>4 DEF MissedNow
<1>5. CASE ~Active(u) /\ ~\E d \in Officers : errand[d].step = "due" /\ errand[d].on = u
  BY <1>1, <1>5 DEF MissedNow
<1> QED BY <1>3, <1>4, <1>5

LEMMA Registers ==
    ASSUME WorkspaceInv, NEW c \in Officers, Register(c)
    PROVE  WorkspaceInv'
<1> DEFINE u == errand[c].on
           new == [state |-> "live", person |-> u, user |-> u, parent |-> 0]
<1>1. /\ errand[c].op = "register" /\ errand[c].step = "asked" /\ u \in Users
      /\ missed' = MissedNow(u)
      /\ UNCHANGED <<member, patron, transfer, invite, letters, errands, failures, skewed>>
  BY DEF Register, At, WorkspaceInv, ErrandsOK, ErrandOK
<1>2. ErrandMoves(c, NoErrand)
  BY NoErrandOK DEF Register, ErrandMoves, Finish
<1>3. PICK d \in FreshDevice : token' = [token EXCEPT ![d] = new]
  BY DEF Register
<1> HIDE DEF u
<1>4. d \in Devices /\ token[d].state = "free" /\ d # 0 /\ token \in [Devices -> Token]
  BY NumbersAssumption DEF FreshDevice, Least, WorkspaceInv, WorkspaceTypeOK
<1>5. /\ token'[d] = new /\ token' \in [Devices -> Token]
      /\ \A f \in Devices : f # d => token'[f] = token[f]
  BY <1>1, <1>3, <1>4 DEF Token
<1>6. new.state = "live" /\ new.person = u /\ new.user = u /\ new.parent = 0
  OBVIOUS
<1> HIDE DEF new
<1>7. RolesKept /\ \A f \in Devices : f # 0
  BY <1>1, NumbersAssumption DEF RolesKept
<1>8. VettedOK' /\ JoinsOK'
  BY <1>1, <1>2, <1>7, VettedKept, JoinsKept DEF NoErrand
<1>9. RotationsOK'
  <2>1. \A b \in Officers \ {c} : At(b, "rotate", "written") =>
            token'[errand[b].device].state = token[errand[b].device].state
    <3>1. \A b \in Officers : At(b, "rotate", "written") =>
              errand[b].device \in Devices /\ token[errand[b].device].state = "live"
      BY DEF WorkspaceInv, RotationsOK, ErrandsOK, ErrandOK, At
    <3> QED BY <1>4, <1>5, <3>1
  <2> QED BY <1>2, <2>1, RotationsKept DEF NoErrand
<1>10. FamilyOK'
  <2>1. FamilyOK
    BY DEF WorkspaceInv
  <2>2. \A e \in Devices : token[e].parent # d
    BY <1>4, <2>1 DEF FamilyOK
  <2> QED BY <1>1, <1>4, <1>5, <1>6, <1>7, <2>1, <2>2 DEF FamilyOK, Usable
<1>11. TokensAnswered'
  <2> SUFFICES ASSUME NEW f \in Devices, Usable(f)' PROVE Covered(f)'
    BY DEF TokensAnswered
  <2>1. /\ missed \subseteq missed'
        /\ \/ member'[u].status = "active" \/ u \in missed'
           \/ \E b \in Officers : errand'[b].step = "due" /\ errand'[b].on = u
    BY <1>1, <1>2, MissedNowCovers
  <2>2. CASE f = d
    BY <1>5, <1>6, <2>1, <2>2 DEF Covered, Active
  <2>3. CASE f # d
    <3>1. Usable(f) /\ Covered(f) /\ token'[f] = token[f]
      BY <1>5, <2>3 DEF WorkspaceInv, TokensAnswered, Usable
    <3>2. \A b \in Officers : errand[b].step \in {"due", "aimed"} => errand'[b] = errand[b]
      BY <1>1, <1>2, ErrandsMove
    <3> QED BY <1>1, <2>1, <3>1, <3>2 DEF Covered, Active
  <2> QED BY <2>2, <2>3
<1>12. missed' \subseteq Users
  BY <1>1, <1>2, MissedNowCovers
<1>13. WorkspaceTypeOK' /\ ErrandsOK' /\ TransferOK' /\ InviteSettlesOnce'
  BY <1>1, <1>2, <1>5, <1>12, ErrandsMove
     DEF WorkspaceInv, WorkspaceTypeOK, TransferOK, InviteSettlesOnce
<1> QED BY <1>8, <1>9, <1>10, <1>11, <1>13 DEF WorkspaceInv

LEMMA CommitsRotation ==
    ASSUME WorkspaceInv, NEW c \in Officers, CommitRotate(c)
    PROVE  WorkspaceInv'
<1> DEFINE p == errand[c].device
           u == token[p].person
           new == Successor(p)
           old == [token[p] EXCEPT !.state = "windowed"]
<1>1. /\ errand[c].op = "rotate" /\ errand[c].step = "written" /\ p \in Devices
      /\ missed' = MissedNow(u)
      /\ UNCHANGED <<member, patron, transfer, invite, letters, errands, failures, skewed>>
  BY DEF CommitRotate, At, WorkspaceInv, ErrandsOK, ErrandOK
<1>2. ErrandMoves(c, NoErrand)
  BY NoErrandOK DEF CommitRotate, ErrandMoves, Finish
<1>3. PICK d \in FreshDevice : token' = [token EXCEPT ![d] = new, ![p].state = "windowed"]
  BY DEF CommitRotate
<1>4. /\ token[p].state = "live" /\ token \in [Devices -> Token] /\ FamilyOK
      /\ u \in Users /\ token[p].user = u
  BY <1>1 DEF WorkspaceInv, WorkspaceTypeOK, RotationsOK, FamilyOK, Usable, At
<1>5. \A b \in Officers \ {c} : At(b, "rotate", "written") =>
          /\ errand[b].device \in Devices /\ errand[b].device # p
          /\ token[errand[b].device].state = "live"
  BY <1>1 DEF WorkspaceInv, RotationsOK, ErrandsOK, ErrandOK, At
<1>6. new.state = "live" /\ new.person = u /\ new.user = u /\ new.parent = p /\ new \in Token
  BY <1>1, <1>4 DEF Successor, Token
<1> HIDE DEF p, u, new
<1>7. d \in Devices /\ token[d].state = "free" /\ d # p
  BY <1>4 DEF FreshDevice, Least
<1>8. /\ old \in Token /\ old.state = "windowed" /\ old.person = token[p].person
      /\ old.user = token[p].user /\ old.parent = token[p].parent
  BY <1>1, <1>4 DEF Token
<1>9. /\ token'[d] = new /\ token'[p] = old /\ token' \in [Devices -> Token]
      /\ \A f \in Devices : f # d /\ f # p => token'[f] = token[f]
  BY <1>1, <1>3, <1>4, <1>6, <1>7, <1>8
<1> HIDE DEF old
<1>10. RolesKept
  BY <1>1 DEF RolesKept
<1>11. VettedOK' /\ JoinsOK'
  BY <1>1, <1>2, <1>10, VettedKept, JoinsKept DEF NoErrand
<1>12. RotationsOK'
  <2>1. \A b \in Officers \ {c} : At(b, "rotate", "written") =>
            token'[errand[b].device].state = token[errand[b].device].state
    BY <1>5, <1>7, <1>9
  <2> QED BY <1>2, <2>1, RotationsKept DEF NoErrand
<1>13. FamilyOK'
  <2>1. \A e \in Devices : token[e].parent # d /\ token[e].parent # p
    BY <1>1, <1>4, <1>7 DEF FamilyOK
  <2>2. \A f \in Devices : token'[f].state \in {"free", "live"} =>
            \A e \in Devices : token'[e].parent # f
    <3> SUFFICES ASSUME NEW f \in Devices, token'[f].state \in {"free", "live"}, NEW e \in Devices
                 PROVE  token'[e].parent # f
      OBVIOUS
    <3>1. f # p
      BY <1>8, <1>9
    <3>2. token[e].parent # f
      BY <1>4, <1>9, <2>1, <3>1 DEF FamilyOK
    <3> QED BY <1>6, <1>8, <1>9, <3>1, <3>2
  <2>3. \A f, e, g \in Devices : token'[e].parent = f /\ token'[g].parent = f => e = g
    <3>1. \A e \in Devices : e # d => token'[e].parent = token[e].parent
      BY <1>8, <1>9
    <3> QED BY <1>4, <1>6, <1>9, <2>1, <3>1 DEF FamilyOK
  <2>4. \A f \in Devices : token'[f].user = token'[f].person
    BY <1>4, <1>6, <1>8, <1>9 DEF FamilyOK
  <2>5. \A f \in Devices : Usable(f)' => token'[f].person \in Users
    BY <1>4, <1>6, <1>8, <1>9 DEF FamilyOK, Usable, u
  <2> QED BY <2>2, <2>3, <2>4, <2>5 DEF FamilyOK
<1>14. /\ missed \subseteq missed' /\ missed' \subseteq Users
       /\ \/ member'[u].status = "active" \/ u \in missed'
          \/ \E b \in Officers : errand'[b].step = "due" /\ errand'[b].on = u
  BY <1>1, <1>2, <1>4, MissedNowCovers
<1>15. TokensAnswered'
  <2> SUFFICES ASSUME NEW f \in Devices, Usable(f)' PROVE Covered(f)'
    BY DEF TokensAnswered
  <2>1. CASE f = d \/ f = p
    BY <1>6, <1>8, <1>9, <1>14, <2>1 DEF Covered, Active, u
  <2>2. CASE f # d /\ f # p
    <3>1. Usable(f) /\ Covered(f) /\ token'[f] = token[f]
      BY <1>9, <2>2 DEF WorkspaceInv, TokensAnswered, Usable
    <3>2. \A b \in Officers : errand[b].step \in {"due", "aimed"} => errand'[b] = errand[b]
      BY <1>1, <1>2, ErrandsMove
    <3> QED BY <1>1, <1>14, <3>1, <3>2 DEF Covered, Active
  <2> QED BY <2>1, <2>2
<1>16. WorkspaceTypeOK' /\ ErrandsOK' /\ TransferOK' /\ InviteSettlesOnce'
  BY <1>1, <1>2, <1>9, <1>14, ErrandsMove
     DEF WorkspaceInv, WorkspaceTypeOK, TransferOK, InviteSettlesOnce
<1> QED BY <1>11, <1>12, <1>13, <1>15, <1>16 DEF WorkspaceInv

(* A token is revoked by its owner. *)
LEMMA RevokesOne ==
    ASSUME WorkspaceInv, NEW d \in Devices, Revoke(d)
    PROVE  WorkspaceInv'
<1> DEFINE new == [token[d] EXCEPT !.state = "revoked"]
<1>1. /\ token' = [token EXCEPT ![d] = new] /\ DeviceFree(d) /\ Usable(d)
      /\ UNCHANGED <<member, patron, transfer, invite, letters, errand, errands, failures,
                     skewed, missed>>
  BY DEF Revoke
<1>2. token \in [Devices -> Token] /\ FamilyOK
  BY DEF WorkspaceInv, WorkspaceTypeOK
<1>3. /\ new \in Token /\ new.state = "revoked" /\ new.person = token[d].person
      /\ new.user = token[d].user /\ new.parent = token[d].parent
  BY <1>2 DEF Token
<1> HIDE DEF new
<1>4. /\ token'[d] = new /\ token' \in [Devices -> Token]
      /\ \A f \in Devices : f # d => token'[f] = token[f]
  BY <1>1, <1>2, <1>3
<1>5. FamilyOK'
  BY <1>2, <1>3, <1>4 DEF FamilyOK, Usable
<1>6. RotationsOK'
  <2>1. \A b \in Officers : At(b, "rotate", "written") =>
            errand[b].device \in Devices /\ errand[b].device # d
    BY <1>1 DEF DeviceFree, WorkspaceInv, ErrandsOK, ErrandOK, At
  <2> QED BY <1>1, <1>4, <2>1 DEF WorkspaceInv, RotationsOK, At
<1>7. TokensAnswered'
  <2> SUFFICES ASSUME NEW f \in Devices, Usable(f)' PROVE Covered(f)'
    BY DEF TokensAnswered
  <2>1. f # d /\ token'[f] = token[f] /\ Covered(f)
    BY <1>3, <1>4 DEF WorkspaceInv, TokensAnswered, Usable
  <2> QED BY <1>1, <2>1 DEF Covered, Active
<1>8. VettedOK' /\ JoinsOK'
  <2>1. \A c \in Officers : Seen(errand[c], member)' = Seen(errand[c], member)
    BY <1>1 DEF Seen, Written
  <2> QED BY <1>1, <2>1 DEF WorkspaceInv, VettedOK, JoinsOK, Owners
<1>9. WorkspaceTypeOK' /\ ErrandsOK' /\ TransferOK' /\ InviteSettlesOnce'
  BY <1>1, <1>4 DEF WorkspaceInv, WorkspaceTypeOK, ErrandsOK, ErrandOK, TransferOK, Departs,
                    Changes, InviteSettlesOnce
<1> QED BY <1>5, <1>6, <1>7, <1>8, <1>9 DEF WorkspaceInv

-----------------------------------------------------------------------------
(* A request fails. *)
LEMMA FailsHalfWay ==
    ASSUME WorkspaceInv, NEW c \in Officers, Fail(c)
    PROVE  WorkspaceInv'
<1> DEFINE w == errand[c]
<1>1. /\ w.op # "none" /\ failures' \in 0 .. MaxFailures
      /\ missed' = IF w.step \in {"due", "aimed"} THEN missed \cup {w.on} ELSE missed
      /\ UNCHANGED <<member, patron, transfer, invite, letters, token, errands, skewed>>
      /\ w.step \in {"due", "aimed"} => w.on \in Users
  BY ErrandsAssumption
     DEF Fail, WorkspaceInv, WorkspaceTypeOK, ErrandsOK, ErrandOK, Departs
<1>2. ErrandMoves(c, NoErrand)
  BY NoErrandOK DEF Fail, ErrandMoves, Finish
<1> HIDE DEF w
<1>3. RolesKept
  BY <1>1 DEF RolesKept
<1>4. VettedOK' /\ JoinsOK' /\ RotationsOK' /\ FamilyOK'
  BY <1>1, <1>2, <1>3, VettedKept, JoinsKept, RotationsKept, FamilyKept DEF NoErrand
<1>5. TokensAnswered'
  <2> SUFFICES ASSUME NEW d \in Devices, Usable(d)' PROVE Covered(d)'
    BY DEF TokensAnswered
  <2>1. Usable(d) /\ Covered(d)
    BY <1>1 DEF WorkspaceInv, TokensAnswered, Usable
  <2>2. \A b \in Officers : b # c => errand'[b] = errand[b]
    BY <1>2, ErrandsMove
  <2>3. missed \subseteq missed' /\ (w.step \in {"due", "aimed"} => w.on \in missed')
    BY <1>1
  <2> QED BY <1>1, <2>1, <2>2, <2>3 DEF Covered, Active, w
<1>6. missed' \subseteq Users
  BY <1>1 DEF WorkspaceInv, WorkspaceTypeOK
<1>7. WorkspaceTypeOK' /\ ErrandsOK' /\ TransferOK' /\ InviteSettlesOnce'
  BY <1>1, <1>2, <1>6, ErrandsMove
     DEF WorkspaceInv, WorkspaceTypeOK, TransferOK, InviteSettlesOnce
<1> QED BY <1>4, <1>5, <1>7 DEF WorkspaceInv

-----------------------------------------------------------------------------
LEMMA WorkspaceBegins == WorkspaceInit => WorkspaceInv
<1> SUFFICES ASSUME WorkspaceInit PROVE WorkspaceInv
  OBVIOUS
<1>1. PICK founder \in Users \ Newcomers, second \in Users, role \in {"owner", "member"} :
         /\ patron = founder
         /\ member = [u \in Users |->
               [role |-> IF u = founder THEN "owner" ELSE IF u = second THEN role ELSE "member",
                status |-> IF u \in {founder, second} THEN "active" ELSE "none"]]
         /\ token = [d \in Devices |->
               IF d = 1 THEN [state |-> "live", person |-> second, user |-> second, parent |-> 0]
               ELSE NoToken]
  BY DEF WorkspaceInit
<1>2. /\ transfer = NoTransfer /\ invite = [i \in Invites |-> NoInvite] /\ letters = {}
      /\ errand = [c \in Officers |-> NoErrand] /\ errands = 0 /\ failures = 0
      /\ skewed = FALSE /\ missed = {}
  BY DEF WorkspaceInit
<1>3. member \in [Users -> Membership]
  BY <1>1 DEF Membership
<1>4. NoToken \in Token /\ NoInvite \in Invite /\ NoTransfer \in Transfer
  BY DEF NoToken, Token, NoInvite, Invite, NoTransfer, Transfer
<1>5. token \in [Devices -> Token]
  <2>1. [state |-> "live", person |-> second, user |-> second, parent |-> 0] \in Token
    BY DEF Token
  <2> QED BY <1>1, <1>4, <2>1
<1>6. 0 \in 0 .. MaxErrands /\ 0 \in 0 .. MaxFailures
  BY ErrandsAssumption
<1>7. WorkspaceTypeOK
  BY <1>1, <1>2, <1>3, <1>4, <1>5, <1>6, NoErrandOK DEF WorkspaceTypeOK
<1>8. ErrandsOK /\ TransferOK /\ JoinsOK /\ RotationsOK /\ InviteSettlesOnce
  BY <1>2, NoErrandOK
     DEF ErrandsOK, TransferOK, JoinsOK, RotationsOK, InviteSettlesOnce, NoErrand, NoInvite, At
<1>9. VettedOK
  <2>1. founder \in Owners(member)
    BY <1>1 DEF Owners
  <2> QED BY <1>2, <2>1 DEF VettedOK, NoErrand
<1>10. FamilyOK /\ TokensAnswered
  <2>1. \A d \in Devices : token[d].parent = 0 /\ token[d].user = token[d].person
    BY <1>1 DEF NoToken
  <2>2. \A d \in Devices : Usable(d) => token[d].person = second
    BY <1>1 DEF NoToken, Usable
  <2>3. Active(second)
    BY <1>1 DEF Active
  <2> QED BY <2>1, <2>2, <2>3, NumbersAssumption DEF FamilyOK, TokensAnswered, Covered
<1> QED BY <1>7, <1>8, <1>9, <1>10 DEF WorkspaceInv

LEMMA WorkspaceGoesOn == WorkspaceInv /\ [WorkspaceNext]_workspaceVars => WorkspaceInv'
<1> SUFFICES ASSUME WorkspaceInv, [WorkspaceNext]_workspaceVars PROVE WorkspaceInv'
  OBVIOUS
<1>1. ASSUME NEW c \in Officers, Ask(c) PROVE WorkspaceInv'
  BY <1>1, Asks
<1>2. ASSUME NEW c \in Officers, Proceed(c) PROVE WorkspaceInv'
  BY <1>2, Steps, Commits, Aims, Revokes, Files, Delivers, Inserts, Activates, Registers,
     LocksPredecessor, CommitsRotation, FailsHalfWay DEF Proceed
<1>3. ASSUME NEW i \in Invites, (\E a \in Users : RevokeInvite(a, i)) \/ ExpireInvite(i)
      PROVE  WorkspaceInv'
  BY <1>3, Withdraws
<1>4. ASSUME NEW d \in Devices, Revoke(d) PROVE WorkspaceInv'
  BY <1>4, RevokesOne
<1>5. CASE UNCHANGED workspaceVars
  <2>1. UNCHANGED <<member, patron, transfer, invite, letters, token, errand, errands, failures,
                    skewed, missed>>
    BY <1>5 DEF workspaceVars
  <2>2. \A c \in Officers : Seen(errand[c], member)' = Seen(errand[c], member)
    BY <2>1 DEF Seen, Written
  <2>3. VettedOK'
    BY <2>1, <2>2 DEF WorkspaceInv, VettedOK, Owners
  <2>4. TokensAnswered'
    BY <2>1 DEF WorkspaceInv, TokensAnswered, Covered, Active, Usable
  <2> QED BY <2>1, <2>3, <2>4
          DEF WorkspaceInv, WorkspaceTypeOK, ErrandsOK, ErrandOK, TransferOK, JoinsOK,
              InviteSettlesOnce, RotationsOK, FamilyOK, At, Usable, Departs, Changes
<1> QED BY <1>1, <1>2, <1>3, <1>4, <1>5 DEF WorkspaceNext

(* The invariant of a workspace: the type of its rows and requests, who is  *)
(* locked by whom, and how a removal reaches the tokens.                    *)
THEOREM WorkspaceInvariance == WorkspaceSpec => []WorkspaceInv
<1> QED BY WorkspaceBegins, WorkspaceGoesOn, PTL DEF WorkspaceSpec

(* Every variable of the workspace stays in its type. *)
THEOREM WorkspaceTypes == WorkspaceSpec => []WorkspaceTypeOK
<1>1. WorkspaceInv => WorkspaceTypeOK
  BY DEF WorkspaceInv
<1> QED BY <1>1, WorkspaceInvariance, PTL

(* The trigger at COMMIT suffices to keep an owner, whoever else writes,    *)
(* unless a second transaction passes it before the first is seen.          *)
THEOREM OwnerStays == WorkspaceSpec => []OwnerRemains
<1>1. WorkspaceInv => OwnerRemains
  BY DEF WorkspaceInv, VettedOK, OwnerRemains
<1> QED BY <1>1, WorkspaceInvariance, PTL

(* No interleaving of acceptances, revocations and resends settles an       *)
(* invite both ways.                                                        *)
THEOREM InvitesSettle == WorkspaceSpec => []InviteSettlesOnce
<1>1. WorkspaceInv => InviteSettlesOnce
  BY DEF WorkspaceInv
<1> QED BY <1>1, WorkspaceInvariance, PTL

(* Rotations of the same device token, however many at once, leave at most  *)
(* one successor.                                                           *)
THEOREM OneSuccessorOnly == WorkspaceSpec => []OneSuccessor
<1>1. WorkspaceInv => OneSuccessor
  <2> SUFFICES ASSUME WorkspaceInv, NEW d \in Devices
               PROVE  Cardinality({e \in Devices : token[e].parent = d}) <= 1
    BY DEF OneSuccessor
  <2> DEFINE S == {e \in Devices : token[e].parent = d}
  <2>1. \A e, f \in S : e = f
    BY DEF WorkspaceInv, FamilyOK
  <2>2. S = {} \/ \E e \in S : S = {e}
    <3> HIDE DEF S
    <3> QED BY <2>1
  <2>3. Cardinality(S) = 0 \/ Cardinality(S) = 1
    BY <2>2, FS_EmptySet, FS_Singleton
  <2> QED BY <2>3
<1> QED BY <1>1, WorkspaceInvariance, PTL

(* Once a removal has been answered no token of the removed is usable, but  *)
(* for those history counts as missed.                                      *)
THEOREM RemovedLoseTokens == WorkspaceSpec => []RemovedHoldNoToken
<1>1. WorkspaceInv => RemovedHoldNoToken
  BY DEF WorkspaceInv, TokensAnswered, Covered, RemovedHoldNoToken, Active
<1> QED BY <1>1, WorkspaceInvariance, PTL

-----------------------------------------------------------------------------
(***************************************************************************)
(*                                Reminders                                *)
(***************************************************************************)
(* The run is about one endpoint, whose row it has claimed. *)
Working(w) == round[w].step \in {"send", "mark", "drop", "free"}

(* A claim belongs to one run, and is marked when the push went through. *)
RoundsOK ==
    \A w \in Runners : Working(w) =>
        /\ round[w].at \in Endpoints /\ attempt[round[w].at] = "claimed"
        /\ \A v \in Runners : Working(v) /\ round[v].at = round[w].at => v = w
        /\ round[w].step = "mark" => pushed[round[w].at] > 0

(* A device that was reached keeps its row, and nobody is to send to it. *)
PushesOK ==
    \A e \in Endpoints : pushed[e] > 0 /\ e \notin unclear =>
        /\ pushed[e] = 1 /\ attempt[e] # "none"
        /\ \A w \in Runners : Working(w) /\ round[w].at = e => round[w].step = "mark"

(* A row says that its device was reached, or is being seen to, or is left behind. *)
ClaimsOK ==
    \A e \in Endpoints :
        attempt[e] = "none" \/ pushed[e] > 0
          \/ (attempt[e] = "claimed" /\ (e \in stuck \/ \E w \in Runners : Working(w) /\ round[w].at = e))

(* Until a lock is lost, who runs has it, *)
LockOK == exposed \/ \A w \in Runners : round[w].step # "none" => lock = w

(* and what it has listed is reached, or still to be. *)
Answers(w, e) ==
    \/ pushed[e] > 0 \/ e \in stuck
    \/ e \in round[w].todo
    \/ round[w].step \in {"send", "drop"} /\ e = round[w].at
    \/ round[w].step = "free" /\ round[w].fails

ListOK(w) ==
    /\ round[w].step \in {"list", "next", "send", "mark", "drop", "free"} => notice.status # "sent"
    /\ round[w].step \in {"next", "send", "mark", "drop", "free"} => \A e \in expected : Answers(w, e)
    /\ round[w].step = "record" /\ round[w].verdict = "sent"
          => \A e \in expected : pushed[e] > 0 \/ e \in stuck

ListsOK == exposed \/ \A w \in Runners : ListOK(w)

RemindersInv ==
    /\ RemindersTypeOK /\ RoundsOK /\ PushesOK /\ ClaimsOK /\ LockOK /\ ListsOK
    /\ SentReachesAll

-----------------------------------------------------------------------------
(* One run moves on. *)
RunMoves(w, r) == round' = [round EXCEPT ![w] = r] /\ r \in Round

LEMMA RunMovesOn ==
    ASSUME RemindersInv, NEW w \in Runners, NEW r, RunMoves(w, r)
    PROVE  /\ round' \in [Runners -> Round] /\ round'[w] = r
           /\ \A v \in Runners : v # w => round'[v] = round[v]
BY DEF RunMoves, RemindersInv, RemindersTypeOK

(* A step that writes no row of an attempt and reaches nobody: runs only    *)
(* leave the endpoint they are about, and not without a trace.              *)
Quiet(v) ==
    /\ Working(v)' => Working(v) /\ round'[v].at = round[v].at
    /\ Working(v)' => (round'[v].step = "mark" <=> round[v].step = "mark")
    /\ Working(v) /\ ~Working(v)' => round[v].step = "mark" \/ round[v].at \in stuck'

LEMMA QuietPushes ==
    ASSUME RemindersInv, attempt' = attempt, stuck \subseteq stuck', unclear \subseteq unclear',
           \A e \in Endpoints : pushed'[e] = pushed[e] \/ (pushed'[e] > 0 /\ e \in unclear'),
           \A v \in Runners : Quiet(v)
    PROVE  RoundsOK' /\ PushesOK' /\ ClaimsOK'
<1>1. RoundsOK /\ PushesOK /\ ClaimsOK
  BY DEF RemindersInv
<1>2. \A v \in Runners : Working(v)' =>
          /\ Working(v) /\ round'[v].at = round[v].at
          /\ round'[v].step = "mark" <=> round[v].step = "mark"
  BY DEF Quiet
<1>3. RoundsOK'
  BY <1>1, <1>2 DEF RoundsOK
<1>4. PushesOK'
  BY <1>1, <1>2 DEF PushesOK
<1>5. ClaimsOK'
  <2> SUFFICES ASSUME NEW e \in Endpoints, attempt[e] # "none", ~(pushed[e] > 0)
               PROVE  attempt[e] = "claimed"
                      /\ (e \in stuck' \/ \E w \in Runners : Working(w)' /\ round'[w].at = e)
    BY DEF ClaimsOK
  <2>1. attempt[e] = "claimed" /\ (e \in stuck \/ \E w \in Runners : Working(w) /\ round[w].at = e)
    BY <1>1 DEF ClaimsOK
  <2>2. ASSUME NEW w \in Runners, Working(w), round[w].at = e
        PROVE  e \in stuck' \/ (Working(w)' /\ round'[w].at = e)
    <3>1. round[w].step # "mark"
      BY <1>1, <2>2 DEF RoundsOK
    <3> QED BY <1>2, <2>2, <3>1 DEF Quiet
  <2> QED BY <2>1, <2>2
<1> QED BY <1>3, <1>4, <1>5

LEMMA QuietSteps ==
    ASSUME RemindersInv, UNCHANGED <<attempt, pushed, unclear>>, stuck \subseteq stuck',
           \A v \in Runners : Quiet(v)
    PROVE  RoundsOK' /\ PushesOK' /\ ClaimsOK'
BY QuietPushes

(* What is listed stays answered while others stay out. *)
LEMMA ListsKept ==
    ASSUME RemindersInv, NEW w \in Runners,
           exposed' = exposed, ~exposed => lock = w \/ \A v \in Runners : round[v].step = "none",
           \A v \in Runners : v # w => round'[v] = round[v],
           ~exposed => ListOK(w)'
    PROVE  ListsOK'
<1> SUFFICES ASSUME ~exposed, NEW v \in Runners PROVE ListOK(v)'
  BY DEF ListsOK
<1>1. CASE v = w
  BY <1>1
<1>2. CASE v # w
  <2>1. round[v].step = "none"
    BY <1>2 DEF RemindersInv, LockOK
  <2>2. round'[v].step = "none"
    BY <1>2, <2>1
  <2> QED BY <2>2 DEF ListOK
<1> QED BY <1>1, <1>2

(* The rest of the invariant *)
LEMMA RemindersParts ==
    ASSUME RemindersTypeOK', RoundsOK', PushesOK', ClaimsOK', LockOK', ListsOK', SentReachesAll'
    PROVE  RemindersInv'
BY DEF RemindersInv

(* While a run has the lock, a step that is not about the lock keeps it. *)
LEMMA LockKept ==
    ASSUME RemindersInv, NEW w \in Runners, NEW r, RunMoves(w, r), round[w].step # "none",
           lock' = lock, exposed' = exposed
    PROVE  LockOK' /\ (~exposed => lock = w /\ ListOK(w))
<1>1. \A v \in Runners : v # w => round'[v] = round[v]
  BY RunMovesOn
<1>2. ~exposed => lock = w /\ \A v \in Runners : v # w => round[v].step = "none"
  BY RunnersAssumption DEF RemindersInv, LockOK
<1>3. LockOK'
  BY <1>1, <1>2 DEF LockOK
<1>4. ~exposed => ListOK(w)
  BY DEF RemindersInv, ListsOK
<1> QED BY <1>2, <1>3, <1>4

-----------------------------------------------------------------------------
(* Steps of a run about the occurrence: no attempt is written. *)

LEMMA StartsRun ==
    ASSUME RemindersInv, NEW w \in Runners, StartRun(w)
    PROVE  RemindersInv'
<1> DEFINE r == [round[w] EXCEPT !.step = "recover"]
<1>1. /\ round[w].step = "none" /\ lock = NoRunner /\ lock' = w /\ rounds' \in 0 .. MaxRounds
      /\ UNCHANGED <<notice, attempt, subscribed, mishaps, pushed, unclear, stuck, expected, exposed>>
  BY RoundsAssumption DEF StartRun, Doing, history, RemindersInv, RemindersTypeOK
<1>2. round[w] \in Round /\ RemindersTypeOK /\ SentReachesAll
  BY DEF RemindersInv, RemindersTypeOK
<1>3. r \in Round /\ r.step = "recover"
  BY <1>2 DEF Round
<1>4. RunMoves(w, r)
  BY <1>3 DEF RunMoves, StartRun, GoTo
<1> HIDE DEF r
<1>5. /\ round' \in [Runners -> Round] /\ round'[w] = r
      /\ \A v \in Runners : v # w => round'[v] = round[v]
  BY <1>4, RunMovesOn
<1>6. RoundsOK' /\ PushesOK' /\ ClaimsOK'
  <2>1. \A v \in Runners : Quiet(v)
    BY <1>1, <1>3, <1>5 DEF Quiet, Working
  <2> QED BY <1>1, <2>1, QuietSteps
<1>7. ~exposed => \A v \in Runners : round[v].step = "none"
  BY <1>1, RunnersAssumption DEF RemindersInv, LockOK
<1>8. LockOK'
  BY <1>1, <1>5, <1>7 DEF LockOK
<1>9. ListsOK'
  <2>1. ListOK(w)'
    BY <1>3, <1>5 DEF ListOK
  <2> QED BY <1>1, <1>5, <1>7, <2>1, ListsKept
<1>10. RemindersTypeOK' /\ SentReachesAll'
  BY <1>1, <1>2, <1>5 DEF RemindersTypeOK, SentReachesAll
<1> QED BY <1>6, <1>8, <1>9, <1>10, RemindersParts

(* The run is not about an endpoint, before the step or after it. *)
Aside(w, r) ==
    /\ round[w].step \in {"recover", "claim", "list", "next", "record", "quarantine", "release", "unlock"}
    /\ r.step \in {"claim", "list", "next", "record", "quarantine", "release", "unlock"}
    /\ UNCHANGED <<attempt, subscribed, lock, rounds, pushed, unclear, stuck, exposed>>

LEMMA AsideSteps ==
    ASSUME RemindersInv, NEW w \in Runners, NEW r, RunMoves(w, r), Aside(w, r),
           notice' \in [status : {"none", "claimed", "sent", "failed", "deduplicated", "quarantined"},
                        stale : BOOLEAN],
           mishaps' = mishaps \/ Mishap, expected' \subseteq Endpoints,
           ~exposed => ListOK(w)' /\ SentReachesAll'
    PROVE  RemindersInv'
<1>1. /\ round' \in [Runners -> Round] /\ round'[w] = r
      /\ \A v \in Runners : v # w => round'[v] = round[v]
  BY RunMovesOn
<1>2. RoundsOK' /\ PushesOK' /\ ClaimsOK'
  <2>1. \A v \in Runners : Quiet(v)
    BY <1>1 DEF Quiet, Working, Aside
  <2> QED BY <2>1, QuietSteps DEF Aside
<1>3. LockOK' /\ (~exposed => lock = w)
  BY LockKept DEF Aside
<1>4. ListsOK'
  BY <1>1, <1>3, ListsKept DEF Aside
<1>5. mishaps' \in 0 .. MaxMishaps
  BY RoundsAssumption DEF Mishap, RemindersInv, RemindersTypeOK
<1>6. RemindersTypeOK'
  BY <1>1, <1>5 DEF Aside, RemindersInv, RemindersTypeOK
<1>7. SentReachesAll'
  BY DEF SentReachesAll, Aside
<1> QED BY <1>2, <1>3, <1>4, <1>6, <1>7, RemindersParts

(* Who has the lock *)
LEMMA HasLock ==
    ASSUME RemindersInv, NEW w \in Runners, round[w].step # "none", ~exposed
    PROVE  lock = w /\ ListOK(w) /\ \A v \in Runners : v # w => round[v].step = "none"
BY RunnersAssumption DEF RemindersInv, LockOK, ListsOK

LEMMA RecoversStale ==
    ASSUME RemindersInv, NEW w \in Runners, RecoverStale(w)
    PROVE  RemindersInv'
<1> DEFINE r == [round[w] EXCEPT !.step = "claim"]
<1>1. /\ round[w].step = "recover" /\ round[w] \in Round /\ SentReachesAll
      /\ UNCHANGED <<attempt, subscribed, lock, rounds, mishaps, pushed, unclear, stuck, expected, exposed>>
  BY DEF RecoverStale, Doing, history, RemindersInv, RemindersTypeOK
<1>2. r \in Round /\ r.step = "claim"
  BY <1>1 DEF Round
<1>3. RunMoves(w, r) /\ Aside(w, r)
  BY <1>1, <1>2 DEF RunMoves, Aside, RecoverStale, GoTo
<1> HIDE DEF r
<1>4. /\ notice' \in [status : {"none", "claimed", "sent", "failed", "deduplicated", "quarantined"},
                      stale : BOOLEAN]
      /\ notice'.status = "sent" => notice.status = "sent"
  BY DEF RecoverStale, RemindersInv, RemindersTypeOK
<1>5. ListOK(w)'
  BY <1>2, <1>3, RunMovesOn DEF ListOK
<1>6. SentReachesAll'
  BY <1>1, <1>4 DEF SentReachesAll
<1>7. expected' \subseteq Endpoints
  BY <1>1 DEF RemindersInv, RemindersTypeOK
<1> QED BY <1>1, <1>3, <1>4, <1>5, <1>6, <1>7, AsideSteps

LEMMA ClaimsOccurrence ==
    ASSUME RemindersInv, NEW w \in Runners, ClaimOccurrence(w)
    PROVE  RemindersInv'
<1> DEFINE r == IF Claimable THEN [round[w] EXCEPT !.step = "list"]
                ELSE [round[w] EXCEPT !.step = "record", !.verdict = "deduplicated"]
<1>1. /\ round[w].step = "claim" /\ round[w] \in Round /\ SentReachesAll
      /\ notice' = IF Claimable THEN [status |-> "claimed", stale |-> FALSE] ELSE notice
      /\ UNCHANGED <<attempt, subscribed, lock, rounds, mishaps, pushed, unclear, stuck, expected, exposed>>
      /\ round \in [Runners -> Round] /\ expected \subseteq Endpoints
  BY DEF ClaimOccurrence, Doing, history, RemindersInv, RemindersTypeOK
<1>2. /\ r \in Round /\ r.step \in {"list", "record"} /\ (Claimable => r.step = "list")
      /\ ~Claimable => r.step = "record" /\ r.verdict = "deduplicated"
  BY <1>1 DEF Round
<1>3. round' = [round EXCEPT ![w] = r]
  BY <1>1 DEF ClaimOccurrence, GoTo, Ends
<1> HIDE DEF r
<1>4. RunMoves(w, r) /\ Aside(w, r)
  BY <1>1, <1>2, <1>3 DEF RunMoves, Aside
<1>5. /\ notice' \in [status : {"none", "claimed", "sent", "failed", "deduplicated", "quarantined"},
                      stale : BOOLEAN]
      /\ notice'.status = "sent" => notice.status = "sent" /\ ~Claimable
  BY <1>1 DEF RemindersInv, RemindersTypeOK, Claimable
<1>6. ListOK(w)'
  BY <1>1, <1>2, <1>4, <1>5, RunMovesOn DEF ListOK
<1>7. SentReachesAll'
  BY <1>1, <1>5 DEF SentReachesAll
<1> QED BY <1>1, <1>4, <1>5, <1>6, <1>7, AsideSteps

LEMMA ListsPending ==
    ASSUME RemindersInv, NEW w \in Runners, ListPending(w)
    PROVE  RemindersInv'
<1> DEFINE todo == {e \in subscribed : attempt[e] = "none"}
           r == [round[w] EXCEPT !.step = "next", !.todo = todo]
<1>1. /\ round[w].step = "list" /\ round[w] \in Round /\ expected' = subscribed
      /\ UNCHANGED <<notice, attempt, subscribed, lock, rounds, mishaps, pushed, unclear, stuck, exposed>>
      /\ round \in [Runners -> Round] /\ subscribed \subseteq Endpoints
  BY DEF ListPending, Doing, RemindersInv, RemindersTypeOK
<1>2. todo \subseteq Endpoints
  BY <1>1
<1>3. round' = [round EXCEPT ![w] = r]
  BY <1>1 DEF ListPending
<1>4. \A e \in subscribed : attempt[e] = "none" => e \in todo
  OBVIOUS
<1> HIDE DEF todo
<1>5. r \in Round /\ r.step = "next" /\ r.todo = todo
  BY <1>1, <1>2 DEF Round
<1> HIDE DEF r
<1>6. RunMoves(w, r) /\ Aside(w, r)
  BY <1>1, <1>3, <1>5 DEF RunMoves, Aside
<1>7. ASSUME ~exposed PROVE ListOK(w)' /\ SentReachesAll'
  <2>1. ListOK(w) /\ \A v \in Runners : ~Working(v)
    BY <1>1, <1>7, HasLock DEF Working
  <2>2. notice.status # "sent" /\ notice' = notice
    BY <1>1, <2>1 DEF ListOK
  <2>3. \A e \in subscribed : pushed[e] > 0 \/ e \in stuck \/ e \in todo
    BY <1>1, <1>4, <2>1 DEF RemindersInv, ClaimsOK
  <2>4. round'[w] = r
    BY <1>6, RunMovesOn
  <2>5. ListOK(w)'
    BY <1>1, <1>5, <2>2, <2>3, <2>4 DEF ListOK, Answers
  <2> QED BY <2>2, <2>5 DEF SentReachesAll
<1>8. notice' \in [status : {"none", "claimed", "sent", "failed", "deduplicated", "quarantined"},
                   stale : BOOLEAN]
  BY <1>1 DEF RemindersInv, RemindersTypeOK
<1> QED BY <1>1, <1>6, <1>7, <1>8, AsideSteps

LEMMA TriesAll ==
    ASSUME RemindersInv, NEW w \in Runners, AllTried(w)
    PROVE  RemindersInv'
<1> DEFINE r == [round[w] EXCEPT !.step = "record", !.verdict = "sent"]
<1>1. /\ round[w].step = "next" /\ round[w].todo = {} /\ round[w] \in Round /\ SentReachesAll
      /\ UNCHANGED <<notice, attempt, subscribed, lock, rounds, mishaps, pushed, unclear, stuck,
                     expected, exposed>>
      /\ round \in [Runners -> Round] /\ expected \subseteq Endpoints
  BY DEF AllTried, Doing, history, RemindersInv, RemindersTypeOK
<1>2. round' = [round EXCEPT ![w] = r]
  BY <1>1 DEF AllTried, Ends
<1>3. r \in Round /\ r.step = "record"
  BY <1>1 DEF Round
<1> HIDE DEF r
<1>4. RunMoves(w, r) /\ Aside(w, r)
  BY <1>1, <1>2, <1>3 DEF RunMoves, Aside
<1>5. ASSUME ~exposed PROVE ListOK(w)'
  <2>1. \A e \in expected : pushed[e] > 0 \/ e \in stuck
    BY <1>1, <1>5, HasLock DEF ListOK, Answers
  <2> QED BY <1>1, <1>3, <1>4, <2>1, RunMovesOn DEF ListOK
<1>6. notice' \in [status : {"none", "claimed", "sent", "failed", "deduplicated", "quarantined"},
                   stale : BOOLEAN]
  BY <1>1 DEF RemindersInv, RemindersTypeOK
<1>7. SentReachesAll'
  BY <1>1 DEF SentReachesAll
<1> QED BY <1>1, <1>4, <1>5, <1>6, <1>7, AsideSteps

LEMMA RecordsExecution ==
    ASSUME RemindersInv, NEW w \in Runners,
           RecordExecution(w) \/ RecordFails(w) \/ Quarantine(w) \/ ReleaseOccurrence(w)
    PROVE  RemindersInv'
<1> DEFINE step == IF RecordFails(w) THEN "quarantine"
                   ELSE IF ReleaseOccurrence(w) THEN "unlock"
                   ELSE IF round[w].verdict = "failed" THEN "release" ELSE "unlock"
           r == [round[w] EXCEPT !.step = step]
<1>1. /\ round[w].step \in {"record", "quarantine", "release"} /\ round[w] \in Round
      /\ round \in [Runners -> Round] /\ expected \subseteq Endpoints /\ SentReachesAll
      /\ notice \in [status : {"none", "claimed", "sent", "failed", "deduplicated", "quarantined"},
                     stale : BOOLEAN]
      /\ UNCHANGED <<attempt, subscribed, lock, rounds, pushed, unclear, stuck, expected, exposed>>
      /\ mishaps' = mishaps \/ Mishap
  BY DEF RecordExecution, RecordFails, Quarantine, ReleaseOccurrence, Doing, history,
         RemindersInv, RemindersTypeOK
<1>2. round' = [round EXCEPT ![w] = r]
  BY DEF RecordExecution, RecordFails, Quarantine, ReleaseOccurrence, GoTo, Doing
<1>3. \/ notice' = notice
      \/ notice' = [notice EXCEPT !.status = "quarantined"]
      \/ notice' = [notice EXCEPT !.status = "failed"]
      \/ round[w].step = "record" /\ notice' = [notice EXCEPT !.status = round[w].verdict]
  BY DEF RecordExecution, RecordFails, Quarantine, ReleaseOccurrence, Doing
<1>4. step \in {"quarantine", "release", "unlock"}
  OBVIOUS
<1> HIDE DEF step
<1>5. r \in Round /\ r.step = step
  BY <1>1, <1>4 DEF Round
<1> HIDE DEF r
<1>6. RunMoves(w, r) /\ Aside(w, r)
  BY <1>1, <1>2, <1>4, <1>5 DEF RunMoves, Aside
<1>7. /\ notice' \in [status : {"none", "claimed", "sent", "failed", "deduplicated", "quarantined"},
                      stale : BOOLEAN]
      /\ notice'.status = "sent" =>
             notice.status = "sent" \/ (round[w].step = "record" /\ round[w].verdict = "sent")
  <2>1. round[w].verdict \in {"sent", "failed", "deduplicated"}
    BY <1>1 DEF Round
  <2> QED BY <1>1, <1>3, <2>1
<1>8. ASSUME ~exposed PROVE ListOK(w)' /\ SentReachesAll'
  <2>1. ListOK(w)'
    BY <1>4, <1>5, <1>6, RunMovesOn DEF ListOK
  <2>2. ListOK(w)
    BY <1>1, <1>8, HasLock
  <2>3. SentReachesAll'
    BY <1>1, <1>7, <2>2 DEF SentReachesAll, ListOK
  <2> QED BY <2>1, <2>3
<1> QED BY <1>1, <1>6, <1>7, <1>8, AsideSteps

LEMMA Unlocks ==
    ASSUME RemindersInv, NEW w \in Runners, Unlock(w)
    PROVE  RemindersInv'
<1>1. /\ round[w].step = "unlock" /\ round' = [round EXCEPT ![w] = NoRound]
      /\ lock' = IF lock = w THEN NoRunner ELSE lock
      /\ UNCHANGED <<notice, attempt, subscribed, rounds, mishaps, pushed, unclear, stuck, expected, exposed>>
  BY DEF Unlock, Doing, history
<1>2. NoRound \in Round /\ NoRound.step = "none"
  BY DEF NoRound, Round
<1>3. RunMoves(w, NoRound)
  BY <1>1, <1>2 DEF RunMoves
<1>4. /\ round' \in [Runners -> Round] /\ round'[w] = NoRound
      /\ \A v \in Runners : v # w => round'[v] = round[v]
  BY <1>3, RunMovesOn
<1>5. RoundsOK' /\ PushesOK' /\ ClaimsOK'
  <2>1. \A v \in Runners : Quiet(v)
    BY <1>1, <1>2, <1>4 DEF Quiet, Working
  <2> QED BY <1>1, <2>1, QuietSteps
<1>6. LockOK' /\ (~exposed => lock = w)
  BY <1>1, <1>2, <1>4, HasLock DEF LockOK
<1>7. ListsOK'
  <2>1. ListOK(w)'
    BY <1>2, <1>4 DEF ListOK
  <2> QED BY <1>1, <1>4, <1>6, <2>1, ListsKept
<1>8. RemindersTypeOK' /\ SentReachesAll'
  BY <1>1, <1>4 DEF RemindersInv, RemindersTypeOK, SentReachesAll
<1> QED BY <1>5, <1>6, <1>7, <1>8, RemindersParts

-----------------------------------------------------------------------------
(* Steps of a run about an endpoint *)

(* The type of the reminders, of a step that leaves the lock and the        *)
(* occurrence alone                                                         *)
LEMMA SendTypes ==
    ASSUME RemindersInv, NEW w \in Runners, NEW r, RunMoves(w, r),
           UNCHANGED <<notice, lock, rounds, exposed>>, mishaps' = mishaps \/ Mishap,
           attempt' \in [Endpoints -> {"none", "claimed", "delivered"}],
           pushed' \in [Endpoints -> Nat], unclear' \subseteq Endpoints, stuck' \subseteq Endpoints,
           subscribed' \subseteq Endpoints, expected' \subseteq Endpoints
    PROVE  RemindersTypeOK'
<1>1. mishaps' \in 0 .. MaxMishaps
  BY RoundsAssumption DEF Mishap, RemindersInv, RemindersTypeOK
<1>2. round' \in [Runners -> Round]
  BY RunMovesOn
<1> QED BY <1>1, <1>2 DEF RemindersInv, RemindersTypeOK

(* A run that is about to send, or to deal with what came of it, *)
Sends(w, r) ==
    /\ round[w].step \in {"next", "send", "mark", "drop", "free"}
    /\ RunMoves(w, r)
    /\ UNCHANGED <<notice, lock, rounds, exposed>>
    /\ stuck \subseteq stuck' /\ expected' \subseteq expected
    /\ \A e \in Endpoints : pushed'[e] >= pushed[e] /\ pushed'[e] \in Nat

(* keeps what it has to answer for answered. *)
LEMMA SendsLists ==
    ASSUME RemindersInv, NEW w \in Runners, NEW r, Sends(w, r),
           r.step \in {"next", "send", "mark", "drop", "free"}
              \/ (r.step = "record" /\ r.verdict = "failed"),
           \A e \in expected' : Answers(w, e) /\ r.step # "record" =>
               \/ pushed'[e] > 0 \/ e \in stuck' \/ e \in r.todo
               \/ r.step \in {"send", "drop"} /\ e = r.at
               \/ r.step = "free" /\ r.fails
    PROVE  LockOK' /\ ListsOK' /\ SentReachesAll'
<1>1. /\ round' \in [Runners -> Round] /\ round'[w] = r
      /\ \A v \in Runners : v # w => round'[v] = round[v]
  BY RunMovesOn DEF Sends
<1>2. LockOK' /\ (~exposed => lock = w /\ ListOK(w))
  BY LockKept DEF Sends
<1>3. ASSUME ~exposed PROVE ListOK(w)' /\ SentReachesAll'
  <2>1. /\ notice.status # "sent" /\ \A e \in expected : Answers(w, e)
    BY <1>2, <1>3 DEF ListOK, Sends
  <2>2. \A e \in expected' : r.step # "record" => Answers(w, e)'
    BY <1>1, <2>1 DEF Answers, Sends
  <2>3. ListOK(w)'
    BY <1>1, <2>1, <2>2 DEF ListOK, Sends
  <2> QED BY <2>1, <2>3 DEF SentReachesAll, Sends
<1>4. ListsOK'
  BY <1>1, <1>2, <1>3, ListsKept DEF Sends
<1>5. SentReachesAll'
  BY <1>3 DEF SentReachesAll, Sends
<1> QED BY <1>2, <1>4, <1>5

LEMMA ClaimsDelivery ==
    ASSUME RemindersInv, NEW w \in Runners, ClaimDelivery(w)
    PROVE  RemindersInv'
<1>1. /\ round[w].step = "next" /\ round[w] \in Round /\ round \in [Runners -> Round]
      /\ attempt \in [Endpoints -> {"none", "claimed", "delivered"}]
      /\ UNCHANGED <<notice, subscribed, lock, rounds, mishaps, pushed, unclear, stuck, expected, exposed>>
      /\ pushed \in [Endpoints -> Nat] /\ unclear \subseteq Endpoints /\ stuck \subseteq Endpoints
      /\ subscribed \subseteq Endpoints /\ expected \subseteq Endpoints
      /\ RoundsOK /\ PushesOK /\ ClaimsOK
  BY DEF ClaimDelivery, Doing, history, RemindersInv, RemindersTypeOK
<1>2. PICK e \in First(round[w].todo) :
         IF Unclaimed(e)
         THEN /\ attempt' = [attempt EXCEPT ![e] = "claimed"]
              /\ round' = [round EXCEPT ![w].step = "send", ![w].at = e, ![w].todo = @ \ {e}]
         ELSE UNCHANGED attempt /\ round' = [round EXCEPT ![w].todo = @ \ {e}]
  BY DEF ClaimDelivery
<1>3. e \in round[w].todo /\ e \in Endpoints
  BY <1>1 DEF First, Round
<1>4. CASE Unclaimed(e)
  <2> DEFINE r == [round[w] EXCEPT !.step = "send", !.at = e, !.todo = round[w].todo \ {e}]
  <2>1. r \in Round /\ r.step = "send" /\ r.at = e /\ r.todo = round[w].todo \ {e}
    BY <1>1, <1>3 DEF Round
  <2>2. round' = [round EXCEPT ![w] = r] /\ attempt' = [attempt EXCEPT ![e] = "claimed"]
    BY <1>1, <1>2, <1>4
  <2> HIDE DEF r
  <2>3. RunMoves(w, r) /\ Sends(w, r)
    BY <1>1, <2>1, <2>2 DEF RunMoves, Sends
  <2>4. /\ round'[w] = r /\ \A v \in Runners : v # w => round'[v] = round[v]
    BY <2>3, RunMovesOn
  <2>5. /\ attempt[e] = "none" /\ attempt'[e] = "claimed"
        /\ attempt' \in [Endpoints -> {"none", "claimed", "delivered"}]
        /\ \A f \in Endpoints : f # e => attempt'[f] = attempt[f]
    BY <1>1, <1>3, <1>4, <2>2 DEF Unclaimed
  <2>6. \A v \in Runners : Working(v) => round[v].at \in Endpoints /\ round[v].at # e
    BY <1>1, <2>5 DEF RoundsOK
  <2>7. \A v \in Runners : v # w => (Working(v)' <=> Working(v))
    BY <2>4 DEF Working
  <2>8. Working(w)' /\ ~Working(w)
    BY <1>1, <2>1, <2>4 DEF Working
  <2>9. RoundsOK'
    BY <1>1, <1>3, <2>1, <2>4, <2>5, <2>6, <2>7, <2>8 DEF RoundsOK
  <2>10. PushesOK'
    BY <1>1, <1>3, <2>1, <2>4, <2>5, <2>6, <2>7, <2>8 DEF PushesOK
  <2>11. ClaimsOK'
    BY <1>1, <1>3, <2>1, <2>4, <2>5, <2>6, <2>7, <2>8 DEF ClaimsOK
  <2>12. LockOK' /\ ListsOK' /\ SentReachesAll'
    <3>1. \A f \in expected' : Answers(w, f) =>
              pushed'[f] > 0 \/ f \in stuck' \/ f \in r.todo \/ f = r.at
      BY <1>1, <2>1 DEF Answers
    <3> QED BY <2>1, <2>3, <3>1, SendsLists
  <2>13. RemindersTypeOK'
    BY <1>1, <2>3, <2>5, SendTypes
  <2> QED BY <2>9, <2>10, <2>11, <2>12, <2>13, RemindersParts
<1>5. CASE ~Unclaimed(e)
  <2> DEFINE r == [round[w] EXCEPT !.todo = round[w].todo \ {e}]
  <2>1. r \in Round /\ r.step = "next" /\ r.todo = round[w].todo \ {e}
    BY <1>1, <1>3 DEF Round
  <2>2. round' = [round EXCEPT ![w] = r] /\ attempt' = attempt
    BY <1>1, <1>2, <1>5
  <2> HIDE DEF r
  <2>3. RunMoves(w, r) /\ Sends(w, r)
    BY <1>1, <2>1, <2>2 DEF RunMoves, Sends
  <2>4. /\ round'[w] = r /\ \A v \in Runners : v # w => round'[v] = round[v]
    BY <2>3, RunMovesOn
  <2>5. RoundsOK' /\ PushesOK' /\ ClaimsOK'
    <3>1. \A v \in Runners : Quiet(v)
      BY <1>1, <2>1, <2>4 DEF Quiet, Working
    <3> QED BY <1>1, <2>2, <3>1, QuietSteps
  <2>6. ~exposed => \A v \in Runners : ~Working(v)
    BY <1>1, HasLock DEF Working
  <2>7. ~exposed => pushed[e] > 0 \/ e \in stuck
    BY <1>1, <1>3, <1>5, <2>6 DEF ClaimsOK, Unclaimed
  <2>8. ~exposed => LockOK' /\ ListsOK' /\ SentReachesAll'
    <3> SUFFICES ASSUME ~exposed PROVE LockOK' /\ ListsOK' /\ SentReachesAll'
      OBVIOUS
    <3>1. \A f \in expected' : Answers(w, f) => pushed'[f] > 0 \/ f \in stuck' \/ f \in r.todo
      BY <1>1, <2>1, <2>7 DEF Answers
    <3> QED BY <2>1, <2>3, <3>1, SendsLists
  <2>9. exposed => LockOK' /\ ListsOK' /\ SentReachesAll'
    BY <1>1 DEF LockOK, ListsOK, SentReachesAll
  <2>10. RemindersTypeOK'
    BY <1>1, <2>2, <2>3, SendTypes
  <2> QED BY <2>5, <2>8, <2>9, <2>10, RemindersParts
<1> QED BY <1>4, <1>5

(* What a run is about is claimed, and by nobody else. *)
LEMMA WorksOn ==
    ASSUME RemindersInv, NEW w \in Runners, Working(w)
    PROVE  /\ round[w] \in Round /\ round[w].at \in Endpoints /\ attempt[round[w].at] = "claimed"
           /\ \A v \in Runners : v # w /\ Working(v) => round[v].at # round[w].at
BY DEF RemindersInv, RemindersTypeOK, RoundsOK

LEMMA SendingSucceeds ==
    ASSUME RemindersInv, NEW w \in Runners, SendSucceeds(w)
    PROVE  RemindersInv'
<1> DEFINE e == round[w].at
           r == [round[w] EXCEPT !.step = "mark"]
<1>1. /\ round[w].step = "send" /\ round[w] \in Round /\ round \in [Runners -> Round]
      /\ pushed' = [pushed EXCEPT ![e] = @ + 1]
      /\ UNCHANGED <<notice, attempt, subscribed, lock, rounds, mishaps, unclear, stuck, expected, exposed>>
      /\ pushed \in [Endpoints -> Nat] /\ unclear \subseteq Endpoints /\ stuck \subseteq Endpoints
      /\ subscribed \subseteq Endpoints /\ expected \subseteq Endpoints
      /\ attempt \in [Endpoints -> {"none", "claimed", "delivered"}]
      /\ RoundsOK /\ PushesOK /\ ClaimsOK
  BY DEF SendSucceeds, Doing, Reach, RemindersInv, RemindersTypeOK
<1>2. /\ e \in Endpoints /\ attempt[e] = "claimed"
      /\ \A v \in Runners : v # w /\ Working(v) => round[v].at # e
  BY <1>1, WorksOn DEF Working
<1>3. round' = [round EXCEPT ![w] = r]
  BY <1>1 DEF SendSucceeds, GoTo
<1>4. pushed[e] = 0 \/ e \in unclear
  BY <1>1, <1>2 DEF PushesOK, Working
<1>5. r \in Round /\ r.step = "mark" /\ r.at = e /\ r.todo = round[w].todo
  BY <1>1 DEF Round
<1> HIDE DEF e, r
<1>6. /\ pushed'[e] = pushed[e] + 1 /\ pushed' \in [Endpoints -> Nat]
      /\ \A f \in Endpoints : f # e => pushed'[f] = pushed[f]
  BY <1>1, <1>2
<1>7. RunMoves(w, r) /\ Sends(w, r)
  <2>1. \A f \in Endpoints : pushed'[f] >= pushed[f] /\ pushed'[f] \in Nat
    BY <1>1, <1>6
  <2> QED BY <1>1, <1>3, <1>5, <2>1 DEF RunMoves, Sends
<1>8. /\ round'[w] = r /\ \A v \in Runners : v # w => round'[v] = round[v]
  BY <1>7, RunMovesOn
<1>9. /\ \A v \in Runners : Working(v)' <=> Working(v)
      /\ \A v \in Runners : round'[v].at = round[v].at
  BY <1>1, <1>5, <1>8 DEF Working, e
<1>10. RoundsOK'
  BY <1>1, <1>2, <1>5, <1>6, <1>8, <1>9 DEF RoundsOK
<1>11. PushesOK'
  BY <1>1, <1>2, <1>4, <1>5, <1>6, <1>8, <1>9 DEF PushesOK
<1>12. ClaimsOK'
  BY <1>1, <1>2, <1>6, <1>9 DEF ClaimsOK
<1>13. LockOK' /\ ListsOK' /\ SentReachesAll'
  <2>1. \A f \in expected' : Answers(w, f) => pushed'[f] > 0 \/ f \in stuck' \/ f \in r.todo
    BY <1>1, <1>2, <1>5, <1>6 DEF Answers, e
  <2> QED BY <1>5, <1>7, <2>1, SendsLists
<1>14. RemindersTypeOK'
  BY <1>1, <1>6, <1>7, SendTypes
<1> QED BY <1>10, <1>11, <1>12, <1>13, <1>14, RemindersParts

(* The run turns to what came of it, or gives up. *)
LEMMA SendingGoesOn ==
    ASSUME RemindersInv, NEW w \in Runners, NEW r, Sends(w, r),
           round[w].step \in {"send", "mark", "drop", "free"}, attempt' = attempt,
           unclear \subseteq unclear', unclear' \subseteq Endpoints, stuck' \subseteq Endpoints,
           \A e \in Endpoints : pushed'[e] = pushed[e] \/ (pushed'[e] > 0 /\ e \in unclear'),
           pushed' \in [Endpoints -> Nat], subscribed' \subseteq Endpoints,
           mishaps' = mishaps \/ Mishap,
           \/ /\ r.step \in {"drop", "free"} /\ round[w].step # "mark" /\ r.at = round[w].at
              /\ r.todo = round[w].todo
              /\ r.step = "drop" => round[w].step = "send"
              /\ r.step = "free" /\ ~r.fails =>
                    round[w].step = "drop" /\ round[w].at \notin expected'
           \/ /\ r.step = "record" /\ r.verdict = "failed"
              /\ round[w].step = "mark" \/ round[w].at \in stuck'
    PROVE  RemindersInv'
<1>1. /\ round'[w] = r /\ \A v \in Runners : v # w => round'[v] = round[v]
      /\ RunMoves(w, r) /\ expected' \subseteq Endpoints /\ attempt' \in [Endpoints -> {"none", "claimed", "delivered"}]
  BY RunMovesOn DEF Sends, RemindersInv, RemindersTypeOK
<1>2. RoundsOK' /\ PushesOK' /\ ClaimsOK'
  <2>1. \A v \in Runners : Quiet(v)
    BY <1>1 DEF Quiet, Working
  <2> QED BY <2>1, QuietPushes DEF Sends
<1>3. LockOK' /\ ListsOK' /\ SentReachesAll'
  <2>1. \A e \in expected' : pushed[e] > 0 => pushed'[e] > 0
    BY <1>1 DEF Sends, RemindersInv, RemindersTypeOK
  <2>2. \A e \in expected' : Answers(w, e) /\ r.step # "record" =>
               \/ pushed'[e] > 0 \/ e \in stuck' \/ e \in r.todo
               \/ r.step \in {"send", "drop"} /\ e = r.at
               \/ r.step = "free" /\ r.fails
    BY <2>1 DEF Answers, Sends
  <2> QED BY <2>2, SendsLists
<1>4. RemindersTypeOK'
  BY <1>1, SendTypes DEF Sends
<1> QED BY <1>2, <1>3, <1>4, RemindersParts

LEMMA SendingFindsGone ==
    ASSUME RemindersInv, NEW w \in Runners, SendFindsGone(w)
    PROVE  RemindersInv'
<1> DEFINE r == [round[w] EXCEPT !.step = "drop"]
<1>1. /\ round[w].step = "send" /\ round[w] \in Round /\ RemindersTypeOK
      /\ UNCHANGED <<notice, attempt, subscribed, lock, rounds, mishaps, pushed, unclear, stuck,
                     expected, exposed>>
  BY DEF SendFindsGone, Doing, history, RemindersInv, RemindersTypeOK
<1>2. round' = [round EXCEPT ![w] = r]
  BY DEF SendFindsGone, GoTo
<1>3. r \in Round /\ r.step = "drop" /\ r.at = round[w].at /\ r.todo = round[w].todo
  BY <1>1 DEF Round
<1> HIDE DEF r
<1>4. Sends(w, r)
  BY <1>1, <1>2, <1>3 DEF RunMoves, Sends, RemindersTypeOK
<1> QED BY <1>1, <1>3, <1>4, SendingGoesOn DEF RemindersTypeOK

LEMMA SendingFails ==
    ASSUME RemindersInv, NEW w \in Runners, SendFails(w)
    PROVE  RemindersInv'
<1> DEFINE e == round[w].at
           r == [round[w] EXCEPT !.step = "free", !.fails = TRUE]
<1>1. /\ round[w].step = "send" /\ round[w] \in Round /\ RemindersTypeOK /\ Mishap
      /\ UNCHANGED <<notice, attempt, subscribed, lock, rounds, stuck, expected, exposed>>
      /\ \/ UNCHANGED <<pushed, unclear>>
         \/ pushed' = [pushed EXCEPT ![e] = @ + 1] /\ unclear' = unclear \cup {e}
  BY DEF SendFails, Doing, Reach, RemindersInv, RemindersTypeOK
<1>2. e \in Endpoints
  BY <1>1, WorksOn DEF Working
<1>3. round' = [round EXCEPT ![w] = r]
  BY <1>1 DEF SendFails, Thrown, RemindersTypeOK
<1>4. /\ r \in Round /\ r.step = "free" /\ r.at = e /\ r.todo = round[w].todo /\ r.fails = TRUE
  BY <1>1 DEF Round
<1> HIDE DEF r
<1>5. /\ pushed' \in [Endpoints -> Nat] /\ unclear \subseteq unclear' /\ unclear' \subseteq Endpoints
      /\ \A f \in Endpoints : pushed'[f] = pushed[f] \/ (pushed'[f] > 0 /\ f \in unclear')
      /\ \A f \in Endpoints : pushed'[f] >= pushed[f] /\ pushed'[f] \in Nat
  <2> HIDE DEF e
  <2>1. CASE UNCHANGED <<pushed, unclear>>
    BY <1>1, <2>1 DEF RemindersTypeOK
  <2>2. CASE pushed' = [pushed EXCEPT ![e] = @ + 1] /\ unclear' = unclear \cup {e}
    BY <1>1, <1>2, <2>2 DEF RemindersTypeOK
  <2> QED BY <1>1, <2>1, <2>2
<1>6. Sends(w, r)
  BY <1>1, <1>3, <1>4, <1>5 DEF RunMoves, Sends
<1> QED BY <1>1, <1>4, <1>5, <1>6, SendingGoesOn DEF RemindersTypeOK

(* A step that ends the work on an endpoint whose row it wrote *)
LEMMA SendingEnds ==
    ASSUME RemindersInv, NEW w \in Runners, NEW r, Sends(w, r), Working(w),
           UNCHANGED <<subscribed, pushed, unclear, stuck, expected, mishaps>>,
           (r.step = "next" /\ r.todo = round[w].todo) \/ (r.step = "record" /\ r.verdict = "failed"),
           NEW s, attempt' = [attempt EXCEPT ![round[w].at] = s],
           \/ s = "delivered" /\ round[w].step = "mark"
           \/ s = "none" /\ round[w].step = "free" /\ (round[w].fails => r.step = "record")
    PROVE  RemindersInv'
<1> DEFINE e == round[w].at
<1>1. /\ RemindersTypeOK /\ RoundsOK /\ PushesOK /\ ClaimsOK
      /\ round'[w] = r /\ \A v \in Runners : v # w => round'[v] = round[v]
      /\ RunMoves(w, r)
  BY RunMovesOn DEF Sends, RemindersInv
<1>2. /\ e \in Endpoints /\ attempt[e] = "claimed"
      /\ \A v \in Runners : v # w /\ Working(v) => round[v].at # e
  BY WorksOn
<1>3. /\ round[w].step = "mark" => pushed[e] > 0
      /\ round[w].step = "free" => ~(pushed[e] > 0 /\ e \notin unclear)
  BY <1>1, <1>2 DEF RoundsOK, PushesOK
<1> HIDE DEF e
<1>4. /\ attempt'[e] = s /\ attempt' \in [Endpoints -> {"none", "claimed", "delivered"}]
      /\ \A f \in Endpoints : f # e => attempt'[f] = attempt[f]
  BY <1>1, <1>2 DEF RemindersTypeOK, e
<1>5. ~Working(w)' /\ \A v \in Runners : v # w => (Working(v)' <=> Working(v))
  BY <1>1 DEF Working
<1>6. RoundsOK'
  BY <1>1, <1>2, <1>4, <1>5 DEF RoundsOK
<1>7. PushesOK'
  BY <1>1, <1>2, <1>3, <1>4, <1>5 DEF PushesOK
<1>8. ClaimsOK'
  BY <1>1, <1>2, <1>3, <1>4, <1>5 DEF ClaimsOK, e
<1>9. LockOK' /\ ListsOK' /\ SentReachesAll'
  <2>1. \A f \in expected' : Answers(w, f) /\ r.step # "record" =>
            pushed'[f] > 0 \/ f \in stuck' \/ f \in r.todo
    BY DEF Answers
  <2> QED BY <2>1, SendsLists
<1>10. RemindersTypeOK'
  BY <1>1, <1>4, SendTypes DEF RemindersTypeOK, Sends
<1> QED BY <1>6, <1>7, <1>8, <1>9, <1>10, RemindersParts

LEMMA MarksDelivered ==
    ASSUME RemindersInv, NEW w \in Runners, MarkDelivered(w)
    PROVE  RemindersInv'
<1>1. /\ round[w].step = "mark" /\ round[w] \in Round /\ RemindersTypeOK /\ Working(w)
      /\ UNCHANGED <<notice, subscribed, lock, rounds, pushed, unclear, stuck, expected, exposed>>
  BY DEF MarkDelivered, Doing, history, RemindersInv, RemindersTypeOK, Working
<1>2. \A f \in Endpoints : pushed'[f] >= pushed[f] /\ pushed'[f] \in Nat
  BY <1>1 DEF RemindersTypeOK
<1>3. CASE /\ attempt' = [attempt EXCEPT ![round[w].at] = "delivered"]
           /\ GoTo(w, "next") /\ mishaps' = mishaps
  <2> DEFINE r == [round[w] EXCEPT !.step = "next"]
  <2>1. r \in Round /\ r.step = "next" /\ r.todo = round[w].todo
    BY <1>1 DEF Round
  <2>2. round' = [round EXCEPT ![w] = r]
    BY <1>3 DEF GoTo
  <2> HIDE DEF r
  <2>3. Sends(w, r)
    BY <1>1, <1>2, <2>1, <2>2 DEF RunMoves, Sends
  <2> QED BY <1>1, <1>3, <2>1, <2>3, SendingEnds
<1>4. CASE Mishap /\ Unmarked(w) /\ UNCHANGED attempt
  <2> DEFINE r == [round[w] EXCEPT !.step = "record", !.verdict = "failed"]
  <2>1. r \in Round /\ r.step = "record" /\ r.verdict = "failed"
    BY <1>1 DEF Round
  <2>2. round' = [round EXCEPT ![w] = r]
    BY <1>1, <1>4 DEF Unmarked, Ends, RemindersTypeOK
  <2> HIDE DEF r
  <2>3. Sends(w, r)
    BY <1>1, <1>2, <2>1, <2>2 DEF RunMoves, Sends
  <2> QED BY <1>1, <1>4, <2>1, <2>3, SendingGoesOn DEF RemindersTypeOK
<1> QED BY <1>3, <1>4 DEF MarkDelivered

LEMMA RemovesGone ==
    ASSUME RemindersInv, NEW w \in Runners, RemoveGone(w)
    PROVE  RemindersInv'
<1>1. /\ round[w].step = "drop" /\ round[w] \in Round /\ RemindersTypeOK
      /\ UNCHANGED <<notice, attempt, lock, rounds, pushed, unclear, stuck, exposed>>
      /\ expected' = expected \cap subscribed'
  BY DEF RemoveGone, Doing, RemindersInv, RemindersTypeOK
<1>2. \A f \in Endpoints : pushed'[f] >= pushed[f] /\ pushed'[f] \in Nat
  BY <1>1 DEF RemindersTypeOK
<1>3. CASE /\ subscribed' = subscribed \ {round[w].at}
           /\ GoTo(w, "free") /\ mishaps' = mishaps
  <2> DEFINE r == [round[w] EXCEPT !.step = "free"]
  <2>1. r \in Round /\ r.step = "free" /\ r.todo = round[w].todo /\ r.at = round[w].at
    BY <1>1 DEF Round
  <2>2. round' = [round EXCEPT ![w] = r]
    BY <1>3 DEF GoTo
  <2> HIDE DEF r
  <2>3. Sends(w, r)
    BY <1>1, <1>2, <2>1, <2>2 DEF RunMoves, Sends
  <2>4. round[w].at \notin expected'
    BY <1>1, <1>3
  <2> QED BY <1>1, <1>3, <2>1, <2>3, <2>4, SendingGoesOn DEF RemindersTypeOK
<1>4. CASE Mishap /\ Thrown(w) /\ UNCHANGED subscribed
  <2> DEFINE r == [round[w] EXCEPT !.step = "free", !.fails = TRUE]
  <2>1. r \in Round /\ r.step = "free" /\ r.todo = round[w].todo /\ r.at = round[w].at /\ r.fails = TRUE
    BY <1>1 DEF Round
  <2>2. round' = [round EXCEPT ![w] = r]
    BY <1>1, <1>4 DEF Thrown, RemindersTypeOK
  <2> HIDE DEF r
  <2>3. Sends(w, r)
    BY <1>1, <1>2, <2>1, <2>2 DEF RunMoves, Sends
  <2> QED BY <1>1, <1>4, <2>1, <2>3, SendingGoesOn DEF RemindersTypeOK
<1> QED BY <1>3, <1>4 DEF RemoveGone

LEMMA ReleasesDelivery ==
    ASSUME RemindersInv, NEW w \in Runners, ReleaseDelivery(w)
    PROVE  RemindersInv'
<1> DEFINE e == round[w].at
<1>1. /\ round[w].step = "free" /\ round[w] \in Round /\ RemindersTypeOK /\ Working(w)
      /\ UNCHANGED <<notice, subscribed, lock, rounds, pushed, unclear, expected, exposed>>
      /\ round \in [Runners -> Round]
  BY DEF ReleaseDelivery, Doing, RemindersInv, RemindersTypeOK, Working
<1>2. \A f \in Endpoints : pushed'[f] >= pushed[f] /\ pushed'[f] \in Nat
  BY <1>1 DEF RemindersTypeOK
<1>3. e \in Endpoints /\ attempt[e] = "claimed"
  BY <1>1, WorksOn
<1>4. CASE /\ attempt' = IF attempt[e] = "claimed"
                         THEN [attempt EXCEPT ![e] = Released] ELSE attempt
           /\ round' = IF round[w].fails
                       THEN [round EXCEPT ![w].step = "record", ![w].verdict = "failed"]
                       ELSE [round EXCEPT ![w].step = "next"]
           /\ UNCHANGED <<mishaps, stuck>>
  <2> DEFINE r == IF round[w].fails THEN [round[w] EXCEPT !.step = "record", !.verdict = "failed"]
                  ELSE [round[w] EXCEPT !.step = "next"]
  <2>1. /\ r \in Round /\ r.step \in {"record", "next"}
        /\ \/ r.step = "next" /\ r.todo = round[w].todo
           \/ r.step = "record" /\ r.verdict = "failed"
        /\ round[w].fails => r.step = "record"
    BY <1>1 DEF Round
  <2>2. round' = [round EXCEPT ![w] = r]
    BY <1>1, <1>4
  <2> HIDE DEF r
  <2>3. Sends(w, r)
    BY <1>1, <1>2, <1>4, <2>1, <2>2 DEF RunMoves, Sends
  <2>4. attempt' = [attempt EXCEPT ![e] = "none"]
    BY <1>3, <1>4 DEF Released
  <2> QED BY <1>1, <1>4, <2>1, <2>3, <2>4, SendingEnds
<1>5. CASE Mishap /\ stuck' = stuck \cup {e} /\ Ends(w, "failed") /\ UNCHANGED attempt
  <2> DEFINE r == [round[w] EXCEPT !.step = "record", !.verdict = "failed"]
  <2>1. r \in Round /\ r.step = "record" /\ r.verdict = "failed"
    BY <1>1 DEF Round
  <2>2. round' = [round EXCEPT ![w] = r]
    BY <1>1, <1>5 DEF Ends
  <2> HIDE DEF r
  <2>3. Sends(w, r) /\ e \in stuck' /\ stuck' \subseteq Endpoints
    BY <1>1, <1>2, <1>3, <1>5, <2>1, <2>2 DEF RunMoves, Sends, RemindersTypeOK
  <2> QED BY <1>1, <1>5, <2>1, <2>3, SendingGoesOn DEF RemindersTypeOK
<1> QED BY <1>4, <1>5 DEF ReleaseDelivery

-----------------------------------------------------------------------------
(* Faults and the environment *)

LEMMA DyingProcess ==
    ASSUME RemindersInv, NEW w \in Runners, ProcessDies(w)
    PROVE  RemindersInv'
<1>1. /\ round[w].step # "none" /\ RemindersTypeOK /\ RoundsOK
      /\ round' = [round EXCEPT ![w] = NoRound]
      /\ lock' = IF lock = w THEN NoRunner ELSE lock
      /\ stuck' = IF round[w].step \in {"send", "drop", "free"} THEN stuck \cup {round[w].at}
                  ELSE stuck
      /\ UNCHANGED <<notice, attempt, subscribed, rounds, pushed, unclear, expected, exposed>>
      /\ mishaps' \in 0 .. MaxMishaps
  BY RoundsAssumption DEF ProcessDies, Doing, Mishap, RemindersInv, RemindersTypeOK
<1>2. NoRound \in Round /\ NoRound.step = "none"
  BY DEF NoRound, Round
<1>3. RunMoves(w, NoRound)
  BY <1>1, <1>2 DEF RunMoves
<1>4. /\ round' \in [Runners -> Round] /\ round'[w] = NoRound
      /\ \A v \in Runners : v # w => round'[v] = round[v]
  BY <1>3, RunMovesOn
<1>5. stuck \subseteq stuck' /\ stuck' \subseteq Endpoints
  BY <1>1, WorksOn DEF RemindersTypeOK, Working
<1>6. RoundsOK' /\ PushesOK' /\ ClaimsOK'
  <2>1. \A v \in Runners : Quiet(v)
    BY <1>1, <1>2, <1>4 DEF Quiet, Working
  <2> QED BY <1>1, <1>5, <2>1, QuietSteps
<1>7. LockOK' /\ (~exposed => lock = w)
  BY <1>1, <1>2, <1>4, HasLock DEF LockOK
<1>8. ListsOK'
  <2>1. ListOK(w)'
    BY <1>2, <1>4 DEF ListOK
  <2> QED BY <1>1, <1>4, <1>7, <2>1, ListsKept
<1>9. RemindersTypeOK' /\ SentReachesAll'
  BY <1>1, <1>4, <1>5 DEF RemindersInv, RemindersTypeOK, SentReachesAll
<1> QED BY <1>6, <1>7, <1>8, <1>9, RemindersParts

LEMMA LosesLock ==
    ASSUME RemindersInv, NEW w \in Runners, LoseLock(w)
    PROVE  RemindersInv'
<1>1. /\ RemindersTypeOK /\ RoundsOK /\ PushesOK /\ ClaimsOK
      /\ lock' = NoRunner /\ exposed' = TRUE /\ mishaps' \in 0 .. MaxMishaps
      /\ UNCHANGED <<notice, attempt, subscribed, round, rounds, pushed, unclear, stuck, expected>>
  BY RoundsAssumption DEF LoseLock, Mishap, RemindersInv, RemindersTypeOK
<1>2. RoundsOK' /\ PushesOK' /\ ClaimsOK'
  BY <1>1 DEF RoundsOK, PushesOK, ClaimsOK, Working
<1>3. LockOK' /\ ListsOK' /\ SentReachesAll'
  BY <1>1 DEF LockOK, ListsOK, SentReachesAll
<1>4. RemindersTypeOK'
  BY <1>1 DEF RemindersTypeOK
<1> QED BY <1>2, <1>3, <1>4, RemindersParts

(* Devices come and go, claims grow old. *)
LEMMA Surroundings ==
    ASSUME RemindersInv, UNCHANGED <<attempt, lock, round, rounds, mishaps, pushed, unclear,
                                     stuck, exposed>>,
           subscribed' \subseteq Endpoints, expected' \subseteq expected,
           notice' = notice \/ notice' = [notice EXCEPT !.stale = TRUE]
    PROVE  RemindersInv'
<1>1. /\ RemindersTypeOK /\ RoundsOK /\ PushesOK /\ ClaimsOK /\ LockOK /\ ListsOK /\ SentReachesAll
  BY DEF RemindersInv
<1>2. /\ notice' \in [status : {"none", "claimed", "sent", "failed", "deduplicated", "quarantined"},
                      stale : BOOLEAN]
      /\ notice'.status = notice.status
  BY <1>1 DEF RemindersTypeOK
<1>3. RoundsOK' /\ PushesOK' /\ ClaimsOK' /\ LockOK'
  BY <1>1 DEF RoundsOK, PushesOK, ClaimsOK, LockOK, Working
<1>4. ListsOK'
  BY <1>1, <1>2 DEF ListsOK, ListOK, Answers
<1>5. SentReachesAll'
  BY <1>1, <1>2 DEF SentReachesAll
<1>6. RemindersTypeOK'
  BY <1>1, <1>2 DEF RemindersTypeOK
<1> QED BY <1>3, <1>4, <1>5, <1>6, RemindersParts

LEMMA RemindersBegin == RemindersInit => RemindersInv
<1> SUFFICES ASSUME RemindersInit PROVE RemindersInv
  OBVIOUS
<1>1. NoRound \in Round /\ NoRound.step = "none"
  BY DEF NoRound, Round
<1>2. 0 \in 0 .. MaxRounds /\ 0 \in 0 .. MaxMishaps
  BY RoundsAssumption
<1>3. RemindersTypeOK
  BY <1>1, <1>2 DEF RemindersInit, RemindersTypeOK
<1>4. \A w \in Runners : round[w].step = "none"
  BY <1>1 DEF RemindersInit
<1>5. RoundsOK /\ PushesOK /\ ClaimsOK
  BY <1>4 DEF RemindersInit, RoundsOK, PushesOK, ClaimsOK, Working
<1>6. LockOK /\ ListsOK /\ SentReachesAll
  BY <1>4 DEF RemindersInit, LockOK, ListsOK, ListOK, SentReachesAll
<1> QED BY <1>3, <1>5, <1>6 DEF RemindersInv

LEMMA RemindersGoOn == RemindersInv /\ [RemindersNext]_remindersVars => RemindersInv'
<1> SUFFICES ASSUME RemindersInv, [RemindersNext]_remindersVars PROVE RemindersInv'
  OBVIOUS
<1>1. ASSUME NEW w \in Runners, RunStep(w) PROVE RemindersInv'
  BY <1>1, StartsRun, RecoversStale, ClaimsOccurrence, ListsPending, ClaimsDelivery, TriesAll,
     SendingSucceeds, SendingFindsGone, SendingFails, MarksDelivered, RemovesGone,
     ReleasesDelivery, RecordsExecution, Unlocks, DyingProcess, LosesLock DEF RunStep
<1>2. subscribed \subseteq Endpoints
  BY DEF RemindersInv, RemindersTypeOK
<1>3. ASSUME NEW e \in Endpoints, Subscribe(e) \/ Unsubscribe(e) PROVE RemindersInv'
  BY <1>2, <1>3, Surroundings DEF Subscribe, Unsubscribe, history
<1>4. CASE GrowStale
  BY <1>2, <1>4, Surroundings DEF GrowStale, history
<1>5. CASE UNCHANGED remindersVars
  BY <1>2, <1>5, Surroundings DEF remindersVars
<1> QED BY <1>1, <1>3, <1>4, <1>5 DEF RemindersNext

(* The invariant of the reminders: what a claim of a delivery says of its   *)
(* device, and what holds while the lock keeps runs apart.                  *)
THEOREM RemindersInvariance == RemindersSpec => []RemindersInv
<1> QED BY RemindersBegin, RemindersGoOn, PTL DEF RemindersSpec

(* Every variable of the reminders stays in its type. *)
THEOREM RemindersTypes == RemindersSpec => []RemindersTypeOK
<1>1. RemindersInv => RemindersTypeOK
  BY DEF RemindersInv
<1> QED BY <1>1, RemindersInvariance, PTL

(* The claim of a delivery alone, and not the advisory lock, keeps a device *)
(* from being pushed to twice: however many runs overlap, and however often *)
(* a failed run is repeated.                                                *)
THEOREM RemindersPushOnce == RemindersSpec => []PushedOnce
<1>1. RemindersInv => PushedOnce
  BY DEF RemindersInv, RemindersTypeOK, PushesOK, PushedOnce
<1> QED BY <1>1, RemindersInvariance, PTL

(* The advisory lock is what an occurrence recorded as sent rests on: while *)
(* it holds, every device listed was reached or has its claim left behind.  *)
THEOREM RemindersReachAll == RemindersSpec => []SentReachesAll
<1>1. RemindersInv => SentReachesAll
  BY DEF RemindersInv
<1> QED BY <1>1, RemindersInvariance, PTL

-----------------------------------------------------------------------------
(***************************************************************************)
(*                               Side by side                              *)
(***************************************************************************)
(* The keyed requests, the workspace and the reminders share no row: every  *)
(* behaviour of the three (EdgesSpec) is one of each, and what was proved   *)
(* of each holds while all are there.                                       *)
THEOREM EdgesAreAll == EdgesSpec => Spec /\ WorkspaceSpec /\ RemindersSpec
<1>1. EdgesInit => Init /\ WorkspaceInit /\ RemindersInit
  BY DEF EdgesInit
<1>2. [EdgesNext]_edgesVars => [Next]_vars
  BY DEF EdgesNext, edgesVars
<1>3. [EdgesNext]_edgesVars => [WorkspaceNext]_workspaceVars
  BY DEF EdgesNext, edgesVars
<1>4. [EdgesNext]_edgesVars => [RemindersNext]_remindersVars
  BY DEF EdgesNext, edgesVars
<1> QED BY <1>1, <1>2, <1>3, <1>4, PTL DEF EdgesSpec, Spec, WorkspaceSpec, RemindersSpec

(* EdgesTypeOK: the records, requests, memberships, invites, tokens, claims *)
(* and deliveries stay within their types and bounds (TypeOK of             *)
(* KeyedMutation, WorkspaceTypeOK, RemindersTypeOK).                        *)
THEOREM EdgesTypes == EdgesSpec => []EdgesTypeOK
<1>1. TypeOK /\ WorkspaceTypeOK /\ RemindersTypeOK => EdgesTypeOK
  BY DEF EdgesTypeOK
<1> QED BY <1>1, EdgesAreAll, TypeCorrect, WorkspaceTypes, RemindersTypes, PTL
=============================================================================
