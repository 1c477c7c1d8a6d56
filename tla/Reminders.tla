------------------------------ MODULE Reminders ------------------------------
(***************************************************************************)
(* The push reminders of apps/api/src/push: runs of the scheduler, each    *)
(* under an advisory lock, that claim one occurrence of one configuration, *)
(* push it to every device of the workspace and record what became of it.  *)
(*                                                                         *)
(* There is one occurrence, in its window and with something to say.  The  *)
(* lock belongs to a connection of its own, which may be lost while the    *)
(* run goes on; a statement may fail; a process may die; a claim may grow  *)
(* older than the 15 minutes of recoverStale.                              *)
(***************************************************************************)
EXTENDS Integers

CONSTANTS
    Endpoints,       \* subscriptions: numbers, in the order of created_at
    Runners,         \* runs in progress at a time
    NoRunner,        \* the lock is free
    MaxRounds,       \* bound: runs begun
    MaxMishaps       \* bound: statements that fail, processes and locks lost

ASSUME EndpointsAssumption == Endpoints \subseteq Nat \ {0}
ASSUME RunnersAssumption == NoRunner \notin Runners
ASSUME RoundsAssumption == MaxRounds \in Nat /\ MaxMishaps \in Nat

VARIABLES
    notice,      \* the row of push_reminder_deliveries: status, and if it is stale
    attempt,     \* [Endpoints -> status]: rows of push_delivery_attempts
    subscribed,  \* the endpoints that push_subscriptions lists
    lock,        \* who holds the advisory lock
    round,       \* [Runners -> Round]: the run in progress
    rounds,      \* runs begun so far
    mishaps,     \* faults so far
    pushed,      \* history: [Endpoints -> Nat], pushes that reached the device
    unclear,     \* history: endpoints whose provider failed after it delivered
    stuck,       \* history: endpoints whose claim nobody released
    expected,    \* history: the endpoints subscribed since they were last listed
    exposed      \* history: a lock was lost while its run went on

remindersVars == <<notice, attempt, subscribed, lock, round, rounds, mishaps,
                   pushed, unclear, stuck, expected, exposed>>

history == <<pushed, unclear, stuck, expected, exposed>>

-----------------------------------------------------------------------------
(* State space *)

Round == [step : {"none", "recover", "claim", "list", "next", "send", "mark", "drop",
                  "free", "record", "quarantine", "release", "unlock"},
          todo    : SUBSET Endpoints,
          at      : Endpoints \cup {0},
          verdict : {"sent", "failed", "deduplicated"},
          fails   : BOOLEAN]      \* after the release of the endpoint, throw

NoRound == [step |-> "none", todo |-> {}, at |-> 0, verdict |-> "sent", fails |-> FALSE]

RemindersInit ==
    /\ notice = [status |-> "none", stale |-> FALSE]
    /\ attempt = [e \in Endpoints |-> "none"]
    /\ subscribed = Endpoints
    /\ lock = NoRunner
    /\ round = [w \in Runners |-> NoRound]
    /\ rounds = 0
    /\ mishaps = 0
    /\ pushed = [e \in Endpoints |-> 0]
    /\ unclear = {}
    /\ stuck = {}
    /\ expected = {}
    /\ exposed = FALSE

Doing(w, step) == round[w].step = step

GoTo(w, step) == round' = [round EXCEPT ![w].step = step]

Ends(w, verdict) == round' = [round EXCEPT ![w].step = "record", ![w].verdict = verdict]

Mishap == mishaps < MaxMishaps /\ mishaps' = mishaps + 1

-----------------------------------------------------------------------------
(* The scheduler *)

(* pg_try_advisory_lock; a run that does not get it is skipped. *)
StartRun(w) ==
    /\ Doing(w, "none")
    /\ lock = NoRunner
    /\ rounds < MaxRounds
    /\ rounds' = rounds + 1
    /\ lock' = w
    /\ GoTo(w, "recover")
    /\ UNCHANGED <<notice, attempt, subscribed, mishaps, history>>

RecoverStale(w) ==
    /\ Doing(w, "recover")
    /\ notice' = IF notice.status = "claimed" /\ notice.stale
                 THEN [notice EXCEPT !.status = "quarantined"] ELSE notice
    /\ GoTo(w, "claim")
    /\ UNCHANGED <<attempt, subscribed, lock, rounds, mishaps, history>>

Claimable == notice.status \in {"none", "failed"}

ClaimOccurrence(w) ==
    /\ Doing(w, "claim")
    /\ IF Claimable
       THEN notice' = [status |-> "claimed", stale |-> FALSE] /\ GoTo(w, "list")
       ELSE UNCHANGED notice /\ Ends(w, "deduplicated")
    /\ UNCHANGED <<attempt, subscribed, lock, rounds, mishaps, history>>

(* record: a row that is sent or quarantined keeps its status. *)
Recordable == notice.status \notin {"sent", "quarantined"}

RecordExecution(w) ==
    /\ Doing(w, "record")
    /\ notice' = IF Recordable THEN [notice EXCEPT !.status = round[w].verdict] ELSE notice
    /\ GoTo(w, IF round[w].verdict = "failed" THEN "release" ELSE "unlock")
    /\ UNCHANGED <<attempt, subscribed, lock, rounds, mishaps, history>>

RecordFails(w) ==
    /\ Doing(w, "record")
    /\ Mishap
    /\ GoTo(w, "quarantine")
    /\ UNCHANGED <<notice, attempt, subscribed, lock, rounds, history>>

Quarantine(w) ==
    /\ Doing(w, "quarantine")
    /\ \/ /\ notice' = IF notice.status = "claimed"
                       THEN [notice EXCEPT !.status = "quarantined"] ELSE notice
          /\ UNCHANGED mishaps
       \/ Mishap /\ UNCHANGED notice
    /\ GoTo(w, IF round[w].verdict = "failed" THEN "release" ELSE "unlock")
    /\ UNCHANGED <<attempt, subscribed, lock, rounds, history>>

ReleaseOccurrence(w) ==
    /\ Doing(w, "release")
    /\ \/ /\ notice' = IF notice.status = "claimed"
                       THEN [notice EXCEPT !.status = "failed"] ELSE notice
          /\ UNCHANGED mishaps
       \/ Mishap /\ UNCHANGED notice
    /\ GoTo(w, "unlock")
    /\ UNCHANGED <<attempt, subscribed, lock, rounds, history>>

Unlock(w) ==
    /\ Doing(w, "unlock")
    /\ lock' = IF lock = w THEN NoRunner ELSE lock
    /\ round' = [round EXCEPT ![w] = NoRound]
    /\ UNCHANGED <<notice, attempt, subscribed, rounds, mishaps, history>>

-----------------------------------------------------------------------------
(* sendToWorkspace *)

ListPending(w) ==
    /\ Doing(w, "list")
    /\ round' = [round EXCEPT ![w].step = "next",
                              ![w].todo = {e \in subscribed : attempt[e] = "none"}]
    /\ expected' = subscribed
    /\ UNCHANGED <<notice, attempt, subscribed, lock, rounds, mishaps,
                   pushed, unclear, stuck, exposed>>

Unclaimed(e) == attempt[e] = "none"

(* The subscription created first *)
First(todo) == {e \in todo : \A f \in todo : e <= f}

ClaimDelivery(w) ==
    /\ Doing(w, "next")
    /\ \E e \in First(round[w].todo) :
       IF Unclaimed(e)
       THEN /\ attempt' = [attempt EXCEPT ![e] = "claimed"]
            /\ round' = [round EXCEPT ![w].step = "send", ![w].at = e, ![w].todo = @ \ {e}]
       ELSE UNCHANGED attempt /\ round' = [round EXCEPT ![w].todo = @ \ {e}]
    /\ UNCHANGED <<notice, subscribed, lock, rounds, mishaps, history>>

AllTried(w) ==
    /\ Doing(w, "next")
    /\ round[w].todo = {}
    /\ Ends(w, "sent")
    /\ UNCHANGED <<notice, attempt, subscribed, lock, rounds, mishaps, history>>

Reach(w) == pushed' = [pushed EXCEPT ![round[w].at] = @ + 1]

SendSucceeds(w) ==
    /\ Doing(w, "send")
    /\ Reach(w)
    /\ GoTo(w, "mark")
    /\ UNCHANGED <<notice, attempt, subscribed, lock, rounds, mishaps,
                   unclear, stuck, expected, exposed>>

(* 404, 410 *)
SendFindsGone(w) ==
    /\ Doing(w, "send")
    /\ GoTo(w, "drop")
    /\ UNCHANGED <<notice, attempt, subscribed, lock, rounds, mishaps, history>>

(* Variant: the run goes on to the next device, and is sent. *)
SwallowedThrow(w) == round' = [round EXCEPT ![w].step = "free", ![w].fails = FALSE]

Thrown(w) == round' = [round EXCEPT ![w].step = "free", ![w].fails = TRUE]

(* Any other answer, or none: the device may have been reached. *)
SendFails(w) ==
    /\ Doing(w, "send")
    /\ Mishap
    /\ \/ UNCHANGED <<pushed, unclear>>
       \/ Reach(w) /\ unclear' = unclear \cup {round[w].at}
    /\ Thrown(w)
    /\ UNCHANGED <<notice, attempt, subscribed, lock, rounds, stuck, expected, exposed>>

(* Variant: the claim is released, as after any other failure. *)
UnmarkedReleases(w) == Thrown(w)

(* When the row cannot be marked, the claim stays, "so a retry cannot send  *)
(* the same push twice" (delivery.ts:109-110).                              *)
Unmarked(w) == Ends(w, "failed")

MarkDelivered(w) ==
    /\ Doing(w, "mark")
    /\ \/ /\ attempt' = [attempt EXCEPT ![round[w].at] = "delivered"]
          /\ GoTo(w, "next")
          /\ UNCHANGED mishaps
       \/ Mishap /\ Unmarked(w) /\ UNCHANGED attempt
    /\ UNCHANGED <<notice, subscribed, lock, rounds, history>>

(* remove, of a subscription that is gone; whatever comes of it, release *)
RemoveGone(w) ==
    /\ Doing(w, "drop")
    /\ \/ /\ subscribed' = subscribed \ {round[w].at}
          /\ GoTo(w, "free")
          /\ UNCHANGED mishaps
       \/ Mishap /\ Thrown(w) /\ UNCHANGED subscribed
    /\ expected' = expected \cap subscribed'
    /\ UNCHANGED <<notice, attempt, lock, rounds, pushed, unclear, stuck, exposed>>

(* Variant: the row stays, marked as failed, which its CHECK refuses. *)
ReleasedKept == "failed"

(* DELETE *)
Released == "none"

ReleaseDelivery(w) ==
    /\ Doing(w, "free")
    /\ LET e == round[w].at IN
       \/ /\ attempt' = IF attempt[e] = "claimed"
                        THEN [attempt EXCEPT ![e] = Released] ELSE attempt
          /\ round' = IF round[w].fails
                      THEN [round EXCEPT ![w].step = "record", ![w].verdict = "failed"]
                      ELSE [round EXCEPT ![w].step = "next"]
          /\ UNCHANGED <<mishaps, stuck>>
       \/ Mishap /\ stuck' = stuck \cup {e} /\ Ends(w, "failed") /\ UNCHANGED attempt
    /\ UNCHANGED <<notice, subscribed, lock, rounds, pushed, unclear, expected, exposed>>

-----------------------------------------------------------------------------
(* The environment *)

(* upsert, from the device; remove, and the purge of a member who is removed *)
Subscribe(e) ==
    /\ e \notin subscribed
    /\ subscribed' = subscribed \cup {e}
    /\ UNCHANGED <<notice, attempt, lock, round, rounds, mishaps, history>>

Unsubscribe(e) ==
    /\ e \in subscribed
    /\ subscribed' = subscribed \ {e}
    /\ expected' = expected \ {e}
    /\ UNCHANGED <<notice, attempt, lock, round, rounds, mishaps, pushed, unclear, stuck,
                   exposed>>

GrowStale ==
    /\ notice.status = "claimed"
    /\ notice' = [notice EXCEPT !.stale = TRUE]
    /\ UNCHANGED <<attempt, subscribed, lock, round, rounds, mishaps, history>>

(* The process dies: its connections go, and the lock with them. *)
ProcessDies(w) ==
    /\ ~Doing(w, "none")
    /\ Mishap
    /\ round' = [round EXCEPT ![w] = NoRound]
    /\ lock' = IF lock = w THEN NoRunner ELSE lock
    /\ stuck' = IF round[w].step \in {"send", "drop", "free"} THEN stuck \cup {round[w].at}
                ELSE stuck
    /\ UNCHANGED <<notice, attempt, subscribed, rounds, pushed, unclear, expected, exposed>>

(* The connection of the lock dies, the run does not use it and goes on. *)
LoseLock(w) ==
    /\ lock = w
    /\ Mishap
    /\ lock' = NoRunner
    /\ exposed' = TRUE
    /\ UNCHANGED <<notice, attempt, subscribed, round, rounds, pushed, unclear, stuck, expected>>

RunStep(w) ==
    \/ StartRun(w)
    \/ RecoverStale(w)
    \/ ClaimOccurrence(w)
    \/ ListPending(w)
    \/ ClaimDelivery(w)
    \/ AllTried(w)
    \/ SendSucceeds(w)
    \/ SendFindsGone(w)
    \/ SendFails(w)
    \/ MarkDelivered(w)
    \/ RemoveGone(w)
    \/ ReleaseDelivery(w)
    \/ RecordExecution(w)
    \/ RecordFails(w)
    \/ Quarantine(w)
    \/ ReleaseOccurrence(w)
    \/ Unlock(w)
    \/ ProcessDies(w)
    \/ LoseLock(w)

RemindersNext ==
    \/ \E w \in Runners : RunStep(w)
    \/ \E e \in Endpoints : Subscribe(e) \/ Unsubscribe(e)
    \/ GrowStale

RemindersSpec == RemindersInit /\ [][RemindersNext]_remindersVars

-----------------------------------------------------------------------------
(* Properties *)

(* Every variable stays in its type. *)
RemindersTypeOK ==
    /\ notice \in [status : {"none", "claimed", "sent", "failed", "deduplicated", "quarantined"},
                   stale : BOOLEAN]
    /\ attempt \in [Endpoints -> {"none", "claimed", "delivered"}]
    /\ subscribed \subseteq Endpoints
    /\ lock \in Runners \cup {NoRunner}
    /\ round \in [Runners -> Round]
    /\ rounds \in 0 .. MaxRounds
    /\ mishaps \in 0 .. MaxMishaps
    /\ pushed \in [Endpoints -> Nat]
    /\ unclear \subseteq Endpoints
    /\ stuck \subseteq Endpoints
    /\ expected \subseteq Endpoints
    /\ exposed \in BOOLEAN

(* A device gets a reminder once, whatever runs overlap because a lock was  *)
(* lost, whichever statement fails, and however often a failed run is       *)
(* repeated, unless its provider failed after it had delivered.             *)
PushedOnce == \A e \in Endpoints : pushed[e] <= 1 \/ e \in unclear

(* A reminder that is recorded as sent has reached every device that was    *)
(* subscribed since its run listed them, but for those whose claim a fault  *)
(* left behind, or when the exclusion of runs was lost.                     *)
SentReachesAll ==
    notice.status = "sent" /\ ~exposed
        => \A e \in expected \ stuck : pushed[e] > 0
=============================================================================
