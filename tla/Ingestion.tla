----------------------------- MODULE Ingestion -----------------------------
(***************************************************************************)
(* IngestionCoordinator.execute over one operational store, called by       *)
(* several processes at once.                                               *)
(*                                                                         *)
(* A call asks the committed store for an exact replay without any lock     *)
(* (Gate), takes the physical store lock unless its caller already holds    *)
(* one in a write session (Enter), looks again inside BEGIN IMMEDIATE and   *)
(* inserts the running row (Start), runs the writer and the control-plane   *)
(* writes (Write), and commits (Commit).  Any exception after the running   *)
(* row rolls back and records the failure in a second transaction (Record). *)
(*                                                                         *)
(* The callers in Runner are job runners: they call inside a write session  *)
(* that they keep over several calls and under a one-shot alarm             *)
(* (_active_timeout), whose exception may surface at any statement of       *)
(* execute, the one after commit() included.                                *)
(***************************************************************************)
EXTENDS Naturals

CONSTANTS
  Caller,      \* the processes that may write the store
  Runner,      \* those of them that call from inside a job's write session
  Request,     \* what may be asked: dataset, outputs, identity and run id
  Dataset,     \* the datasets a request may name
  Registered,  \* the active rows of dataset_registry
  NoRun,       \* the checkpoint of a dataset never published
  Nobody       \* the holder of the free lock

ASSUME RunnerAssumption == Runner \subseteq Caller
ASSUME RequestAssumption ==
  \A r \in Request : r.outputs \subseteq Dataset /\ r.dataset \in r.outputs
ASSUME NoRunAssumption == NoRun \notin Request
ASSUME NobodyAssumption == Nobody \notin Caller

VARIABLES
  ledger,      \* committed ingestion_runs rows; all of them succeeded
  failures,    \* run ids of the committed ingestion_run_failures rows
  checkpoint,  \* dataset_registry: the last successful run of each dataset
  lock,        \* who holds the physical store lock
  pc,          \* where each caller is in execute
  req,         \* the request of its current or last call
  armed,       \* whether the alarm of the call may still go off
  committed,   \* whether the current or last call has committed its run
  answer       \* what the last call returned or raised

store == <<ledger, failures, checkpoint>>
vars == <<ledger, failures, checkpoint, lock, pc, req, armed, committed, answer>>

Answers == {"none", "succeeded", "unchanged", "lock_conflict", "identity_used",
            "unregistered", "storage_error", "failed", "unrecorded", "timeout"}

(* A transaction is open, or the failure of one is still to be recorded.   *)
InTransaction == {"begun", "started", "staged"}
Inside == InTransaction \cup {"committed", "failing"}

TypeOK ==
  /\ ledger \in SUBSET Request
  /\ failures \in SUBSET {r.run : r \in Request}
  /\ checkpoint \in [Dataset -> Request \cup {NoRun}]
  /\ lock \in Caller \cup {Nobody}
  /\ pc \in [Caller -> {"idle", "called", "gated"} \cup Inside]
  /\ req \in [Caller -> Request \cup {NoRun}]
  /\ \A c \in Caller : pc[c] # "idle" => req[c] \in Request
  /\ armed \in [Caller -> BOOLEAN]
  /\ committed \in [Caller -> BOOLEAN]
  /\ answer \in [Caller -> Answers]

Init ==
  /\ ledger = {}
  /\ failures = {}
  /\ checkpoint = [d \in Dataset |-> NoRun]
  /\ lock = Nobody
  /\ pc = [c \in Caller |-> "idle"]
  /\ req = [c \in Caller |-> NoRun]
  /\ armed = [c \in Caller |-> FALSE]
  /\ committed = [c \in Caller |-> FALSE]
  /\ answer = [c \in Caller |-> "none"]

-----------------------------------------------------------------------------
(* Defective variants of the definitions below.  Nothing uses them; each   *)
(* stands for a bug the checks have to notice when it takes the place of   *)
(* the definition it is a variant of.                                      *)

(* The lock wait has no deadline, and its owner no name.                   *)
LockTimeout_Never(c) ==
  /\ pc[c] = "gated"
  /\ lock \notin {c, Nobody}
  /\ UNCHANGED vars

(* The return is reached without waiting for the commit.                   *)
Write_ReturnsEarly(c) ==
  /\ pc[c] = "started"
  /\ pc' = [pc EXCEPT ![c] = "committed"]
  /\ UNCHANGED <<store, lock, req, armed, answer, committed>>

(* The commit forgets which run id its failure table refused.              *)
Start_ReusesFailedRun(c) ==
  LET r == req[c] IN
  /\ pc[c] = "begun"
  /\ r.outputs \subseteq Registered
  /\ \A q \in ledger : q.run # r.run /\ ~(q.dataset = r.dataset /\ q.identity = r.identity)
  /\ pc' = [pc EXCEPT ![c] = "started"]
  /\ UNCHANGED <<store, lock, req, armed, answer, committed>>

(* The store is given back with the commit, before the call is over.       *)
Commit_Unlocks(c) ==
  LET r == req[c] IN
  /\ pc[c] = "staged"
  /\ ledger' = ledger \cup {r}
  /\ checkpoint' = [d \in Dataset |-> IF d \in r.outputs THEN r ELSE checkpoint[d]]
  /\ committed' = [committed EXCEPT ![c] = TRUE]
  /\ pc' = [pc EXCEPT ![c] = "committed"]
  /\ lock' = Nobody
  /\ UNCHANGED <<failures, req, armed, answer>>

-----------------------------------------------------------------------------
(* WHERE dataset_id=? AND semantic_identity=? AND status='succeeded'       *)
SameWork(q, r) == q.dataset = r.dataset /\ q.identity = r.identity
Published(r) == \E q \in ledger : SameWork(q, r)

(* ingestion_runs_digest_insert: the run id, or the work, already has a row*)
(* (a failed run id is refused before the insert).                         *)
DigestTaken(r) == \E q \in ledger : q.run = r.run \/ SameWork(q, r)

(* ingestion_run_failures_immutable_insert: the run id is spent.           *)
RunSpent(r) == r.run \in failures \/ \E q \in ledger : q.run = r.run

(* execute returns or raises a: the lock goes with the call unless the     *)
(* caller's session owns it, and the caller disarms its alarm.             *)
Finish(c, a) ==
  /\ pc' = [pc EXCEPT ![c] = "idle"]
  /\ answer' = [answer EXCEPT ![c] = a]
  /\ armed' = [armed EXCEPT ![c] = FALSE]
  /\ lock' = IF c \in Runner \/ lock # c THEN lock ELSE Nobody
  /\ UNCHANGED req

Move(c, place) ==
  /\ pc' = [pc EXCEPT ![c] = place]
  /\ UNCHANGED <<req, armed, answer>>

-----------------------------------------------------------------------------
(* A job runner opens and leaves its write session.                        *)
OpenSession(c) ==
  /\ c \in Runner
  /\ pc[c] = "idle"
  /\ lock = Nobody
  /\ lock' = c
  /\ UNCHANGED <<store, pc, req, armed, committed, answer>>

CloseSession(c) ==
  /\ c \in Runner
  /\ pc[c] = "idle"
  /\ lock = c
  /\ lock' = Nobody
  /\ UNCHANGED <<store, pc, req, armed, committed, answer>>

(* execute is called with valid metadata; a runner's capability is checked *)
(* by _require_target.                                                     *)
Call(c, r) ==
  /\ pc[c] = "idle"
  /\ c \in Runner => lock = c
  /\ pc' = [pc EXCEPT ![c] = "called"]
  /\ req' = [req EXCEPT ![c] = r]
  /\ armed' = [armed EXCEPT ![c] = c \in Runner]
  /\ committed' = [committed EXCEPT ![c] = FALSE]
  /\ answer' = [answer EXCEPT ![c] = "none"]
  /\ UNCHANGED <<store, lock>>

(* _existing_run: a read of the last committed state, under no lock.       *)
Gate(c) ==
  /\ pc[c] = "called"
  /\ \/ Published(req[c]) /\ Finish(c, "unchanged")
     \/ ~Published(req[c]) /\ Move(c, "gated") /\ UNCHANGED lock
  /\ UNCHANGED <<store, committed>>

(* The store lock, then BEGIN IMMEDIATE.                                   *)
Enter(c) ==
  /\ pc[c] = "gated"
  /\ lock = IF c \in Runner THEN c ELSE Nobody
  /\ lock' = c
  /\ Move(c, "begun")
  /\ UNCHANGED <<store, committed>>

LockTimeout(c) ==
  /\ pc[c] = "gated"
  /\ lock \notin {c, Nobody}
  /\ Finish(c, "lock_conflict")
  /\ UNCHANGED <<store, committed>>

(* Everything from the second look to the running row and its outputs.     *)
(* What is refused here leaves no trace: run_started is still false.       *)
Start(c) ==
  LET r == req[c]
      unused == ~Published(r) /\ r.run \notin failures
      known == r.outputs \subseteq Registered
  IN
  /\ pc[c] = "begun"
  /\ \/ Published(r) /\ Finish(c, "unchanged")
     \/ ~Published(r) /\ r.run \in failures /\ Finish(c, "identity_used")
     \/ unused /\ ~known /\ Finish(c, "unregistered")
     \/ unused /\ known /\ DigestTaken(r) /\ Finish(c, "storage_error")
     \/ unused /\ known /\ ~DigestTaken(r) /\ Move(c, "started") /\ UNCHANGED lock
  /\ UNCHANGED <<store, committed>>

(* The writer callback, the validation of its result, the control-plane    *)
(* rows, the update to 'succeeded' and the checkpoints: all inside the     *)
(* transaction.  The result may be partial, rejected or invalid, or SQLite *)
(* may refuse a row: the exception rolls everything back.                  *)
Write(c) ==
  /\ pc[c] = "started"
  /\ Move(c, "staged") \/ Move(c, "failing")
  /\ UNCHANGED <<store, lock, committed>>

Commit(c) ==
  LET r == req[c] IN
  /\ pc[c] = "staged"
  /\ \/ /\ ledger' = ledger \cup {r}
        /\ checkpoint' =
             [d \in Dataset |-> IF d \in r.outputs THEN r ELSE checkpoint[d]]
        /\ committed' = [committed EXCEPT ![c] = TRUE]
        /\ Move(c, "committed")
     \/ Move(c, "failing") /\ UNCHANGED <<ledger, checkpoint, committed>>
  /\ UNCHANGED <<failures, lock>>

Return(c) ==
  /\ pc[c] = "committed"
  /\ Finish(c, "succeeded")
  /\ UNCHANGED <<store, committed>>

(* _record_failed_run, or its own failure.                                 *)
Record(c) ==
  LET r == req[c] IN
  /\ pc[c] = "failing"
  /\ \/ ~RunSpent(r) /\ failures' = failures \cup {r.run} /\ Finish(c, "failed")
     \/ Finish(c, "unrecorded") /\ UNCHANGED failures
  /\ UNCHANGED <<ledger, checkpoint, committed>>

(* SIGALRM: _ActiveStepTimeout surfaces wherever the call is.  Before the  *)
(* running row, or while the failure is being recorded, it simply          *)
(* propagates; from the running row to the return, execute takes it for a  *)
(* failure of the run.                                                     *)
Alarm(c) ==
  /\ armed[c]
  /\ pc[c] # "idle"
  /\ \/ pc[c] \in {"called", "gated", "begun", "failing"} /\ Finish(c, "timeout")
     \/ /\ pc[c] \in {"started", "staged", "committed"}
        /\ pc' = [pc EXCEPT ![c] = "failing"]
        /\ armed' = [armed EXCEPT ![c] = FALSE]
        /\ UNCHANGED <<lock, req, answer>>
  /\ UNCHANGED <<store, committed>>

(* The process dies: its transaction is forgotten and its lock is free.    *)
Crash(c) ==
  /\ pc[c] # "idle" \/ lock = c
  /\ pc' = [pc EXCEPT ![c] = "idle"]
  /\ lock' = IF lock = c THEN Nobody ELSE lock
  /\ armed' = [armed EXCEPT ![c] = FALSE]
  /\ committed' = [committed EXCEPT ![c] = FALSE]
  /\ answer' = [answer EXCEPT ![c] = "none"]
  /\ UNCHANGED <<store, req>>

Execute(c) ==
  \/ Gate(c)
  \/ Enter(c)
  \/ LockTimeout(c)
  \/ Start(c)
  \/ Write(c)
  \/ Commit(c)
  \/ Return(c)
  \/ Record(c)

Next ==
  \E c \in Caller :
    \/ OpenSession(c)
    \/ CloseSession(c)
    \/ \E r \in Request : Call(c, r)
    \/ Execute(c)
    \/ Alarm(c)
    \/ Crash(c)

Spec == Init /\ [][Next]_vars

(* A call that is running keeps running: the writer is bounded work on a   *)
(* local file and the lock wait has a deadline.                            *)
Fairness == \A c \in Caller : WF_vars(Execute(c))
FairSpec == Spec /\ Fairness

-----------------------------------------------------------------------------
(* Properties.                                                             *)

(* At most one caller is between BEGIN and the end of its call.            *)
OneTransaction ==
  \A b, c \in Caller : pc[b] \in Inside /\ pc[c] \in Inside => b = c

(* However many callers pass the unlocked gate with the same work, it is   *)
(* published once, and no run id is used for two publications.             *)
OnePerIdentity ==
  \A q, r \in ledger : q.run = r.run \/ SameWork(q, r) => q = r

(* A writer never runs for work that is already published: the second look *)
(* is made where nobody can publish any more, so an exact replay cannot end*)
(* in a failure record either.                                             *)
FreshWhileWriting ==
  \A c \in Caller : pc[c] \in {"started", "staged"} => ~DigestTaken(req[c])

(* A run id is spent once, on a success or on a failure: an alarm that goes*)
(* off just after the commit does not leave a failure record that          *)
(* contradicts the published run.                                          *)
SuccessOrFailure ==
  \A r \in ledger : r.run \notin failures

(* The checkpoint of a dataset names a published run that has the dataset  *)
(* among its outputs, and exists as soon as there is one.                  *)
CheckpointSound ==
  \A d \in Dataset :
    /\ checkpoint[d] = NoRun <=> \A r \in ledger : d \notin r.outputs
    /\ checkpoint[d] # NoRun => checkpoint[d] \in ledger /\ d \in checkpoint[d].outputs

(* What the caller was told is so.  A success or a replay is in the ledger;*)
(* a recorded failure is in the failure table and not in the ledger; and a *)
(* caller under no alarm that is told of an error has committed nothing.   *)
AnswerTrue ==
  \A c \in Caller :
    /\ answer[c] \in {"succeeded", "unchanged"} => Published(req[c])
    /\ answer[c] = "failed" =>
         req[c].run \in failures /\ \A r \in ledger : r.run # req[c].run
    /\ c \notin Runner /\ committed[c] /\ pc[c] = "idle" => answer[c] = "succeeded"

(* Every call of execute comes to an answer.                               *)
CallAnswered == \A c \in Caller : pc[c] = "called" ~> pc[c] = "idle"

(* The coordinator is a RunLedger.                                         *)
Ledger == INSTANCE RunLedger
LedgerSpec == Ledger!Spec

(* Where the call has rows in a transaction that is not over: those of its *)
(* run, or the record of its failure.                                      *)
Written == {"started", "staged", "failing"}

(* The coordinator keeps to the sessions of its store: it writes only while*)
(* the lock is its own or its runner's, until the last row of the call is  *)
(* committed or rolled back, whatever errors, alarms and deaths there are. *)
Sessions == INSTANCE StoreSessions WITH
  Process <- Caller, Store <- {"store"},
  session <- [c \in Caller |-> IF lock = c THEN {"store"} ELSE {}],
  writing <- [c \in Caller |-> IF pc[c] \in Written THEN {"store"} ELSE {}]
SessionsSpec == Sessions!Spec

=============================================================================
