--------------------------- MODULE IngestionProofs ---------------------------
(***************************************************************************)
(* Proofs about Ingestion, for any callers and any requests.                *)
(*                                                                         *)
(* The argument has one idea.  Whoever is inside a transaction holds the    *)
(* store lock, so there is one such caller, and what it saw when it looked  *)
(* the second time is still so when it commits (Fresh).  Everything about   *)
(* the ledger follows from that; what callers were told (Told) follows from *)
(* the ledger.                                                              *)
(***************************************************************************)
EXTENDS Ingestion, TLAPS

Owner ==
  \A c \in Caller :
    /\ pc[c] \in Inside => lock = c
    /\ c \in Runner /\ pc[c] # "idle" => lock = c
    /\ lock = c /\ c \notin Runner => pc[c] \in Inside

Fresh ==
  \A c \in Caller :
    pc[c] \in {"started", "staged"} =>
      /\ ~DigestTaken(req[c])
      /\ req[c].run \notin failures
      /\ req[c].outputs \subseteq Registered

Told ==
  \A c \in Caller :
    /\ pc[c] = "committed" => req[c] \in ledger
    /\ pc[c] # "idle" => answer[c] = "none"
    /\ armed[c] => c \in Runner
    /\ answer[c] # "none" => req[c] \in Request
    /\ answer[c] \in {"succeeded", "unchanged"} => Published(req[c])
    /\ answer[c] = "failed" => req[c].run \in failures
    /\ committed[c] /\ c \notin Runner =>
         pc[c] = "committed" \/ (pc[c] = "idle" /\ answer[c] = "succeeded")

IInv ==
  /\ TypeOK
  /\ Owner
  /\ Fresh
  /\ OnePerIdentity
  /\ SuccessOrFailure
  /\ CheckpointSound
  /\ Told

-----------------------------------------------------------------------------
LEMMA TypeInit == Init => TypeOK
  BY DEF Init, TypeOK, Answers

LEMMA TypeStep == TypeOK /\ [Next]_vars => TypeOK'
<1> SUFFICES ASSUME TypeOK, [Next]_vars PROVE TypeOK'
  OBVIOUS
<1> USE RunnerAssumption DEF TypeOK, Answers, Inside, InTransaction
<1>1. CASE UNCHANGED vars
  BY <1>1 DEF vars
<1>2. ASSUME NEW c \in Caller, OpenSession(c) \/ CloseSession(c)
      PROVE  TypeOK'
  BY <1>2 DEF OpenSession, CloseSession, store
<1>3. ASSUME NEW c \in Caller, NEW r \in Request, Call(c, r)
      PROVE  TypeOK'
  BY <1>3 DEF Call, store
<1>4. ASSUME NEW c \in Caller, Gate(c)
      PROVE  TypeOK'
  BY <1>4 DEF Gate, Finish, Move, store
<1>5. ASSUME NEW c \in Caller, Enter(c)
      PROVE  TypeOK'
  BY <1>5 DEF Enter, Move, store
<1>6. ASSUME NEW c \in Caller, LockTimeout(c)
      PROVE  TypeOK'
  BY <1>6 DEF LockTimeout, Finish, store
<1>7. ASSUME NEW c \in Caller, Start(c)
      PROVE  TypeOK'
  BY <1>7 DEF Start, Finish, Move, store
<1>8. ASSUME NEW c \in Caller, Write(c)
      PROVE  TypeOK'
  BY <1>8 DEF Write, Move, store
<1>9. ASSUME NEW c \in Caller, Commit(c)
      PROVE  TypeOK'
  BY <1>9 DEF Commit, Move
<1>10. ASSUME NEW c \in Caller, Return(c)
       PROVE  TypeOK'
  BY <1>10 DEF Return, Finish, store
<1>11. ASSUME NEW c \in Caller, Record(c)
       PROVE  TypeOK'
  <2>1. req[c] \in Request
    BY <1>11 DEF Record
  <2>2. failures' \in SUBSET {r.run : r \in Request}
    BY <1>11, <2>1 DEF Record
  <2> QED
    BY <1>11, <2>2 DEF Record, Finish
<1>12. ASSUME NEW c \in Caller, Alarm(c)
       PROVE  TypeOK'
  BY <1>12 DEF Alarm, Finish, store
<1>13. ASSUME NEW c \in Caller, Crash(c)
       PROVE  TypeOK'
  BY <1>13 DEF Crash, store
<1> QED
  BY <1>1, <1>2, <1>3, <1>4, <1>5, <1>6, <1>7, <1>8, <1>9, <1>10, <1>11,
     <1>12, <1>13
  DEF Next, Execute

(* Every variable of the coordinator keeps its type, whatever the callers  *)
(* and the requests.                                                       *)
THEOREM TypeCorrect == Spec => []TypeOK
  BY TypeInit, TypeStep, PTL DEF Spec

-----------------------------------------------------------------------------
LEMMA IInvInit == Init => IInv
<1> SUFFICES ASSUME Init PROVE IInv
  OBVIOUS
<1>1. TypeOK
  BY TypeInit
<1>2. Owner /\ Fresh /\ Told
  BY NobodyAssumption DEF Init, Owner, Fresh, Told, Inside, InTransaction
<1>3. OnePerIdentity /\ SuccessOrFailure /\ CheckpointSound
  BY DEF Init, OnePerIdentity, SuccessOrFailure, CheckpointSound
<1> QED
  BY <1>1, <1>2, <1>3 DEF IInv

(* The lock stays with the only caller inside.                             *)
LEMMA OwnerStep == TypeOK /\ Owner /\ Told /\ [Next]_vars => Owner'
<1> SUFFICES ASSUME TypeOK, Owner, Told, [Next]_vars PROVE Owner'
  OBVIOUS
<1> USE RunnerAssumption, NobodyAssumption
    DEF TypeOK, Owner, Inside, InTransaction
<1>1. CASE UNCHANGED vars
  BY <1>1 DEF vars
<1>2. ASSUME NEW c \in Caller, OpenSession(c) \/ CloseSession(c)
      PROVE  Owner'
  BY <1>2 DEF OpenSession, CloseSession
<1>3. ASSUME NEW c \in Caller, NEW r \in Request, Call(c, r)
      PROVE  Owner'
  BY <1>3 DEF Call
<1>4. ASSUME NEW c \in Caller, Gate(c) \/ LockTimeout(c)
      PROVE  Owner'
  BY <1>4 DEF Gate, LockTimeout, Finish, Move
<1>5. ASSUME NEW c \in Caller, Enter(c)
      PROVE  Owner'
  BY <1>5 DEF Enter, Move
<1>6. ASSUME NEW c \in Caller, Start(c)
      PROVE  Owner'
  BY <1>6 DEF Start, Finish, Move
<1>7. ASSUME NEW c \in Caller, Write(c) \/ Commit(c) \/ Return(c) \/ Record(c)
      PROVE  Owner'
  BY <1>7 DEF Write, Commit, Return, Record, Finish, Move
<1>8. ASSUME NEW c \in Caller, Alarm(c)
      PROVE  Owner'
  BY <1>8 DEF Alarm, Finish, Told
<1>9. ASSUME NEW c \in Caller, Crash(c)
      PROVE  Owner'
  BY <1>9 DEF Crash
<1> QED
  BY <1>1, <1>2, <1>3, <1>4, <1>5, <1>6, <1>7, <1>8, <1>9 DEF Next, Execute

(* The tables of the store change in two actions only.                     *)
LEMMA StoreChanges ==
  [Next]_vars => \/ UNCHANGED store
                 \/ \E c \in Caller : Commit(c) \/ Record(c)
  BY DEF Next, Execute, vars, store, OpenSession, CloseSession, Call, Gate,
         Enter, LockTimeout, Start, Write, Return, Alarm, Crash

(* Two callers are never inside together.                                  *)
LEMMA Alone == Owner => OneTransaction
  BY DEF Owner, OneTransaction

(* What the only caller inside has checked stays so until it leaves.       *)
LEMMA FreshStep == TypeOK /\ Owner /\ Fresh /\ [Next]_vars => Fresh'
<1> SUFFICES ASSUME TypeOK, Owner, Fresh, [Next]_vars,
                    NEW b \in Caller, pc'[b] \in {"started", "staged"}
             PROVE  /\ ~DigestTaken(req[b])'
                    /\ req'[b].run \notin failures'
                    /\ req'[b].outputs \subseteq Registered
  BY DEF Fresh
<1>1. CASE UNCHANGED store /\ req'[b] = req[b] /\ pc[b] \in {"started", "staged"}
  BY <1>1 DEF Fresh, store, DigestTaken, SameWork
<1>2. CASE Start(b)
  BY <1>2 DEF Start, store, TypeOK, DigestTaken, SameWork, Move, Finish
<1>3. UNCHANGED vars => UNCHANGED store /\ req' = req /\ pc' = pc
  BY DEF vars, store
<1>4. ASSUME NEW c \in Caller, c # b,
             \/ OpenSession(c) \/ CloseSession(c) \/ (\E r \in Request : Call(c, r))
             \/ Execute(c) \/ Alarm(c) \/ Crash(c)
      PROVE  UNCHANGED store /\ req'[b] = req[b] /\ pc[b] \in {"started", "staged"}
  <2>1. pc'[b] = pc[b] /\ req'[b] = req[b]
    BY <1>4 DEF TypeOK, OpenSession, CloseSession, Call, Execute, Gate, Enter,
                LockTimeout, Start, Write, Commit, Return, Record, Alarm, Crash,
                Finish, Move
  <2>2. ~Commit(c) /\ ~Record(c)
    BY <2>1, <1>4 DEF Owner, Inside, InTransaction, Commit, Record
  <2>3. UNCHANGED store
    BY <1>4, <2>2 DEF OpenSession, CloseSession, Call, Execute, Gate, Enter,
                LockTimeout, Start, Write, Return, Alarm, Crash, store
  <2> QED
    BY <2>1, <2>3
<1>5. CASE \/ OpenSession(b) \/ CloseSession(b) \/ (\E r \in Request : Call(b, r))
           \/ Gate(b) \/ Enter(b) \/ LockTimeout(b) \/ Return(b) \/ Record(b)
           \/ Alarm(b) \/ Crash(b)
  <2>1. pc[b] \in {"started", "staged"} /\ UNCHANGED <<store, req>>
    BY <1>5 DEF TypeOK, OpenSession, CloseSession, Call, Gate, Enter,
                LockTimeout, Return, Record, Alarm, Crash, Finish, Move, store,
                Inside, InTransaction
  <2> QED
    BY <1>1, <2>1
<1>6. CASE Write(b)
  BY <1>1, <1>6 DEF Write, Move
<1>7. CASE Commit(b)
  BY <1>7 DEF Commit, Move, TypeOK
<1> QED
  BY <1>1, <1>2, <1>3, <1>4, <1>5, <1>6, <1>7 DEF Next, Execute

(* A commit adds fresh work under a fresh run id; a failure record takes a *)
(* fresh run id.                                                           *)
LEMMA LedgerStep ==
  IInv /\ [Next]_vars => OnePerIdentity' /\ SuccessOrFailure' /\ CheckpointSound'
<1> SUFFICES ASSUME IInv, [Next]_vars
             PROVE  OnePerIdentity' /\ SuccessOrFailure' /\ CheckpointSound'
  OBVIOUS
<1> USE DEF IInv
<1>1. CASE UNCHANGED store
  BY <1>1 DEF store, OnePerIdentity, SuccessOrFailure, CheckpointSound, SameWork
<1>2. ASSUME NEW c \in Caller, Commit(c)
      PROVE  OnePerIdentity' /\ SuccessOrFailure' /\ CheckpointSound'
  <2>1. CASE UNCHANGED store
    BY <1>1, <2>1
  <2> DEFINE r == req[c]
  <2>2. CASE /\ ledger' = ledger \cup {r} /\ failures' = failures
             /\ checkpoint' =
                  [d \in Dataset |-> IF d \in r.outputs THEN r ELSE checkpoint[d]]
    <3>1. ~DigestTaken(r) /\ r.run \notin failures /\ r \in Request
      BY <1>2 DEF Commit, Fresh, TypeOK
    <3> HIDE DEF r
    <3>2. OnePerIdentity'
      BY <2>2, <3>1 DEF OnePerIdentity, DigestTaken, SameWork
    <3>3. SuccessOrFailure'
      BY <2>2, <3>1 DEF SuccessOrFailure
    <3>4. CheckpointSound'
      <4> SUFFICES ASSUME NEW d \in Dataset
                   PROVE  /\ checkpoint'[d] = NoRun <=> \A q \in ledger' : d \notin q.outputs
                          /\ checkpoint'[d] # NoRun =>
                               checkpoint'[d] \in ledger' /\ d \in checkpoint'[d].outputs
        BY DEF CheckpointSound
      <4>1. CASE d \in r.outputs
        BY <2>2, <3>1, <4>1, NoRunAssumption
      <4>2. CASE d \notin r.outputs
        BY <2>2, <4>2 DEF CheckpointSound
      <4> QED
        BY <4>1, <4>2
    <3> QED
      BY <3>2, <3>3, <3>4
  <2> QED
    BY <1>2, <2>1, <2>2 DEF Commit, store
<1>3. ASSUME NEW c \in Caller, Record(c)
      PROVE  OnePerIdentity' /\ SuccessOrFailure' /\ CheckpointSound'
  <2>1. OnePerIdentity' /\ CheckpointSound'
    BY <1>3 DEF Record, OnePerIdentity, CheckpointSound, SameWork
  <2>2. SuccessOrFailure'
    BY <1>3 DEF Record, SuccessOrFailure, RunSpent
  <2> QED
    BY <2>1, <2>2
<1> QED
  BY <1>1, <1>2, <1>3, StoreChanges

(* What has been published, or recorded as failed, remains.                *)
LEMMA Grows ==
  TypeOK /\ [Next]_vars => ledger \subseteq ledger' /\ failures \subseteq failures'
<1> SUFFICES ASSUME [Next]_vars
             PROVE  ledger \subseteq ledger' /\ failures \subseteq failures'
  OBVIOUS
<1> QED
  BY StoreChanges DEF store, Commit, Record

LEMMA ToldStep == IInv /\ [Next]_vars => Told'
<1> SUFFICES ASSUME IInv, [Next]_vars PROVE Told'
  OBVIOUS
<1>g. ledger \subseteq ledger' /\ failures \subseteq failures'
  BY Grows DEF IInv
<1>p. \A r : Published(r) => Published(r)'
  BY <1>g DEF Published
<1> USE DEF IInv, TypeOK, Told, Inside, InTransaction
<1>1. CASE UNCHANGED vars
  BY <1>1, <1>p DEF vars
<1>2. ASSUME NEW c \in Caller, OpenSession(c) \/ CloseSession(c)
      PROVE  Told'
  BY <1>2, <1>p DEF OpenSession, CloseSession, store
<1>3. ASSUME NEW c \in Caller, NEW r \in Request, Call(c, r)
      PROVE  Told'
  BY <1>3, <1>p DEF Call, store
<1>4. ASSUME NEW c \in Caller, Gate(c)
      PROVE  Told'
  BY <1>4, <1>p DEF Gate, Finish, Move, store
<1>5. ASSUME NEW c \in Caller, Enter(c) \/ LockTimeout(c) \/ Write(c)
      PROVE  Told'
  BY <1>5, <1>p DEF Enter, LockTimeout, Write, Finish, Move, store
<1>6. ASSUME NEW c \in Caller, Start(c)
      PROVE  Told'
  BY <1>6, <1>p DEF Start, Finish, Move, store
<1>7. ASSUME NEW c \in Caller, Commit(c)
      PROVE  Told'
  <2>1. /\ req' = req /\ answer' = answer /\ armed' = armed
        /\ failures' = failures /\ pc[c] = "staged"
    BY <1>7 DEF Commit, Move
  <2>2. CASE /\ pc' = [pc EXCEPT ![c] = "committed"]
             /\ committed' = [committed EXCEPT ![c] = TRUE]
             /\ ledger' = ledger \cup {req[c]}
    BY <1>p, <1>g, <2>1, <2>2
  <2>3. CASE pc' = [pc EXCEPT ![c] = "failing"] /\ UNCHANGED <<ledger, committed>>
    BY <1>p, <2>1, <2>3
  <2> QED
    BY <1>7, <2>2, <2>3 DEF Commit, Move
<1>8. ASSUME NEW c \in Caller, Return(c)
      PROVE  Told'
  <2>1. Published(req[c])
    BY <1>8 DEF Return, Published, SameWork
  <2> QED
    BY <1>8, <1>p, <2>1 DEF Return, Finish, store
<1>9. ASSUME NEW c \in Caller, Record(c)
      PROVE  Told'
  <2>1. /\ ledger' = ledger /\ req' = req /\ committed' = committed
        /\ pc' = [pc EXCEPT ![c] = "idle"] /\ armed' = [armed EXCEPT ![c] = FALSE]
        /\ pc[c] = "failing"
    BY <1>9 DEF Record, Finish
  <2>2. \/ answer' = [answer EXCEPT ![c] = "failed"] /\ req[c].run \in failures'
        \/ answer' = [answer EXCEPT ![c] = "unrecorded"]
    BY <1>9 DEF Record, Finish
  <2>3. answer'[c] \in {"failed", "unrecorded"}
        /\ \A b \in Caller : b # c => answer'[b] = answer[b] /\ pc'[b] = pc[b]
    BY <2>1, <2>2
  <2>4. \A b \in Caller : answer'[b] = "failed" => req'[b].run \in failures'
    BY <1>g, <2>1, <2>2, <2>3
  <2> QED
    BY <1>p, <2>1, <2>3, <2>4
<1>10. ASSUME NEW c \in Caller, Alarm(c)
       PROVE  Told'
  BY <1>10, <1>p DEF Alarm, Finish, store
<1>11. ASSUME NEW c \in Caller, Crash(c)
       PROVE  Told'
  BY <1>11, <1>p DEF Crash, store
<1> QED
  BY <1>1, <1>2, <1>3, <1>4, <1>5, <1>6, <1>7, <1>8, <1>9, <1>10, <1>11
  DEF Next, Execute

LEMMA IInvStep == IInv /\ [Next]_vars => IInv'
  BY TypeStep, OwnerStep, FreshStep, LedgerStep, ToldStep DEF IInv

LEMMA Inductive == Spec => []IInv
  BY IInvInit, IInvStep, PTL DEF Spec

-----------------------------------------------------------------------------
(* However the unlocked gate is raced, work is published once and no run id*)
(* serves two publications.                                                *)
THEOREM OnePerIdentityHolds == Spec => []OnePerIdentity
<1>1. IInv => OnePerIdentity
  BY DEF IInv
<1> QED
  BY <1>1, Inductive, PTL

(* No run id is both a success and a failure, even when an alarm goes off  *)
(* between the commit and the return.                                      *)
THEOREM SuccessOrFailureHolds == Spec => []SuccessOrFailure
<1>1. IInv => SuccessOrFailure
  BY DEF IInv
<1> QED
  BY <1>1, Inductive, PTL

(* The writer only ever runs for work that nobody has published.           *)
THEOREM FreshWhileWritingHolds == Spec => []FreshWhileWriting
<1>1. IInv => FreshWhileWriting
  BY DEF IInv, Fresh, FreshWhileWriting
<1> QED
  BY <1>1, Inductive, PTL

(* Writers of one store are never inside a transaction together.           *)
THEOREM OneTransactionHolds == Spec => []OneTransaction
<1>1. IInv => OneTransaction
  BY Alone DEF IInv
<1> QED
  BY <1>1, Inductive, PTL

(* The checkpoint of a dataset follows its published runs.                 *)
THEOREM CheckpointSoundHolds == Spec => []CheckpointSound
<1>1. IInv => CheckpointSound
  BY DEF IInv
<1> QED
  BY <1>1, Inductive, PTL

(* A caller is never told something the store contradicts.                 *)
THEOREM AnswerTrueHolds == Spec => []AnswerTrue
<1>1. IInv => AnswerTrue
  BY DEF IInv, Told, AnswerTrue, SuccessOrFailure
<1> QED
  BY <1>1, Inductive, PTL

-----------------------------------------------------------------------------
(* The coordinator implements RunLedger: Commit publishes, Record fails a  *)
(* run, and every other step stutters.                                     *)
LEMMA RefineStep == IInv /\ [Next]_vars => [Ledger!Next]_(Ledger!vars)
<1> SUFFICES ASSUME IInv, [Next]_vars
             PROVE  Ledger!Next \/ UNCHANGED <<ledger, failures, checkpoint>>
  BY DEF Ledger!vars
<1>1. ASSUME NEW c \in Caller, Commit(c)
      PROVE  Ledger!Next \/ UNCHANGED <<ledger, failures, checkpoint>>
  <2>1. CASE ledger' = ledger \cup {req[c]}
             /\ checkpoint' = [d \in Dataset |->
                   IF d \in req[c].outputs THEN req[c] ELSE checkpoint[d]]
    <3>1. req[c] \in Request /\ ~DigestTaken(req[c]) /\ req[c].run \notin failures
          /\ req[c].outputs \subseteq Registered
      BY <1>1 DEF Commit, IInv, Fresh, TypeOK
    <3>2. Ledger!Publish(req[c])
      BY <1>1, <2>1, <3>1
      DEF Commit, DigestTaken, SameWork, Ledger!Publish, Ledger!Spent
    <3> QED
      BY <3>1, <3>2 DEF Ledger!Next
  <2> QED
    BY <1>1, <2>1 DEF Commit
<1>2. ASSUME NEW c \in Caller, Record(c)
      PROVE  Ledger!Next \/ UNCHANGED <<ledger, failures, checkpoint>>
  <2>1. CASE ~RunSpent(req[c]) /\ failures' = failures \cup {req[c].run}
    <3>1. req[c] \in Request
      BY <1>2 DEF Record, IInv, TypeOK
    <3>2. Ledger!Fail(req[c])
      BY <1>2, <2>1 DEF Record, RunSpent, Ledger!Fail, Ledger!Spent
    <3> QED
      BY <3>1, <3>2 DEF Ledger!Next
  <2> QED
    BY <1>2, <2>1 DEF Record
<1> QED
  BY <1>1, <1>2, StoreChanges DEF store

(* Every behaviour of the coordinator is one of the abstract ledger.       *)
THEOREM ImplementsLedger == Spec => LedgerSpec
<1>1. Init => Ledger!Init
  BY DEF Init, Ledger!Init
<1> QED
  BY <1>1, RefineStep, Inductive, PTL DEF Spec, LedgerSpec, Ledger!Spec

-----------------------------------------------------------------------------
(* The coordinator implements StoreSessions: taking the lock is Begin,     *)
(* giving it back is End, the first row of a transaction is Open, and its  *)
(* commit or roll-back Close, unless the lock goes with it.                *)
Held == [c \in Caller |-> IF lock = c THEN {"store"} ELSE {}]
Open == [c \in Caller |-> IF pc[c] \in Written THEN {"store"} ELSE {}]

LEMMA SessionInit == Init => Sessions!Init
  BY NobodyAssumption DEF Init, Sessions!Init, Written

LEMMA Begins ==
  ASSUME NEW c \in Caller, lock = Nobody, lock' = c, Open' = Open
  PROVE  Sessions!Next
<1>1. /\ Held[c] = {} /\ \A q \in Caller : Held[q] \cap {"store"} = {}
      /\ Held' = [Held EXCEPT ![c] = {"store"}]
  BY NobodyAssumption DEF Held
<1>2. Sessions!Begin(c)
  BY <1>1 DEF Sessions!Begin, Held, Open
<1> QED
  BY <1>2 DEF Sessions!Next

(* What the lock's holder does to its session and its transaction.         *)
LEMMA Ends ==
  ASSUME NEW c \in Caller, lock = c, lock' = Nobody, Open' = [Open EXCEPT ![c] = {}]
  PROVE  Sessions!Next
<1>1. Held' = [Held EXCEPT ![c] = {}]
  BY NobodyAssumption DEF Held
<1>2. Sessions!End(c)
  BY <1>1 DEF Sessions!End, Held, Open
<1> QED
  BY <1>2 DEF Sessions!Next

LEMMA Opens ==
  ASSUME NEW c \in Caller, lock = c, lock' = lock, Open' = [Open EXCEPT ![c] = {"store"}]
  PROVE  Sessions!Next
<1>1. "store" \in Held[c] /\ Held' = Held /\ Open[c] \cup {"store"} = {"store"}
  BY DEF Held, Open
<1>2. Sessions!Open(c)
  BY <1>1 DEF Sessions!Open, Held, Open
<1> QED
  BY <1>2 DEF Sessions!Next

LEMMA Closes ==
  ASSUME NEW c \in Caller, pc[c] \in Written, lock' = lock, Open' = [Open EXCEPT ![c] = {}]
  PROVE  Sessions!Next
<1>1. "store" \in Open[c] /\ Held' = Held /\ Open[c] \ {"store"} = {}
  BY DEF Held, Open
<1>2. Sessions!Close(c)
  BY <1>1 DEF Sessions!Close, Held, Open
<1> QED
  BY <1>2 DEF Sessions!Next

(* A call that is over has nothing open, and keeps the lock only if it is  *)
(* its runner's.                                                           *)
LEMMA FinishSession ==
  ASSUME IInv, NEW c \in Caller, NEW a, Finish(c, a)
  PROVE  Sessions!Next \/ (lock' = lock /\ Open' = Open)
<1>1. pc' = [pc EXCEPT ![c] = "idle"] /\ pc \in [Caller -> {"idle", "called", "gated"} \cup Inside]
  BY DEF Finish, IInv, TypeOK
<1>2. Open' = [Open EXCEPT ![c] = {}]
  BY <1>1 DEF Open, Written
<1>3. CASE c \in Runner \/ lock # c
  <2>1. lock' = lock
    BY <1>3 DEF Finish
  <2>2. CASE pc[c] \in Written
    BY <1>2, <2>1, <2>2, Closes
  <2>3. CASE pc[c] \notin Written
    BY <1>2, <2>1, <2>3 DEF Open
  <2> QED
    BY <2>2, <2>3
<1>4. CASE ~(c \in Runner \/ lock # c)
  <2>1. lock = c /\ lock' = Nobody
    BY <1>4 DEF Finish
  <2> QED
    BY <1>2, <2>1, Ends
<1> QED
  BY <1>3, <1>4

LEMMA SessionStep == IInv /\ [Next]_vars => [Sessions!Next]_(Sessions!vars)
<1> SUFFICES ASSUME IInv, [Next]_vars
             PROVE  Sessions!Next \/ (lock' = lock /\ Open' = Open)
  BY DEF Sessions!vars, Open
<1>t. pc \in [Caller -> {"idle", "called", "gated"} \cup Inside] /\ Owner
  BY DEF IInv, TypeOK
<1>1. CASE UNCHANGED vars
  BY <1>1 DEF vars, Open
<1>2. ASSUME NEW c \in Caller, OpenSession(c)
      PROVE  Sessions!Next
  BY <1>2, Begins DEF OpenSession, Open
<1>3. ASSUME NEW c \in Caller, CloseSession(c)
      PROVE  Sessions!Next
  <2>1. Open' = [Open EXCEPT ![c] = {}]
    BY <1>3 DEF CloseSession, Open, Written
  <2> QED
    BY <1>3, <2>1, Ends DEF CloseSession
<1>4. ASSUME NEW c \in Caller, NEW r \in Request, Call(c, r)
      PROVE  lock' = lock /\ Open' = Open
  BY <1>t, <1>4 DEF Call, Open, Written
<1>5. ASSUME NEW c \in Caller, Gate(c) \/ LockTimeout(c)
      PROVE  Sessions!Next \/ (lock' = lock /\ Open' = Open)
  <2>1. CASE \E a : Finish(c, a)
    BY <2>1, FinishSession
  <2>2. CASE Gate(c) /\ Move(c, "gated") /\ UNCHANGED lock
    BY <1>t, <2>2 DEF Gate, Move, Open, Written
  <2> QED
    BY <1>5, <2>1, <2>2 DEF Gate, LockTimeout
<1>6. ASSUME NEW c \in Caller, Enter(c)
      PROVE  Sessions!Next \/ (lock' = lock /\ Open' = Open)
  <2>1. Open' = Open
    BY <1>t, <1>6 DEF Enter, Move, Open, Written
  <2> QED
    BY <1>6, <2>1, Begins DEF Enter
<1>7. ASSUME NEW c \in Caller, Start(c)
      PROVE  Sessions!Next \/ (lock' = lock /\ Open' = Open)
  <2>1. CASE \E a : Finish(c, a)
    BY <2>1, FinishSession
  <2>2. CASE Move(c, "started") /\ UNCHANGED lock
    <3>1. lock = c
      BY <1>t, <1>7 DEF Start, Owner, Inside, InTransaction
    <3>2. Open' = [Open EXCEPT ![c] = {"store"}]
      BY <1>t, <2>2 DEF Move, Open, Written
    <3> QED
      BY <2>2, <3>1, <3>2, Opens
  <2> QED
    BY <1>7, <2>1, <2>2 DEF Start
<1>8. ASSUME NEW c \in Caller, Write(c)
      PROVE  lock' = lock /\ Open' = Open
  BY <1>t, <1>8 DEF Write, Move, Open, Written
<1>9. ASSUME NEW c \in Caller, Commit(c)
      PROVE  Sessions!Next \/ (lock' = lock /\ Open' = Open)
  <2>1. pc[c] \in Written /\ lock' = lock
    BY <1>9 DEF Commit, Written
  <2>2. CASE Move(c, "committed")
    <3>1. Open' = [Open EXCEPT ![c] = {}]
      BY <1>t, <2>2 DEF Move, Open, Written
    <3> QED
      BY <2>1, <3>1, Closes
  <2>3. CASE Move(c, "failing")
    BY <1>t, <2>1, <2>3 DEF Move, Open, Written
  <2> QED
    BY <1>9, <2>2, <2>3 DEF Commit
<1>10. ASSUME NEW c \in Caller, Return(c) \/ Record(c)
       PROVE  Sessions!Next \/ (lock' = lock /\ Open' = Open)
  <2>1. \E a : Finish(c, a)
    BY <1>10 DEF Return, Record
  <2> QED
    BY <2>1, FinishSession
<1>11. ASSUME NEW c \in Caller, Alarm(c)
       PROVE  Sessions!Next \/ (lock' = lock /\ Open' = Open)
  <2>1. CASE \E a : Finish(c, a)
    BY <2>1, FinishSession
  <2>2. CASE /\ pc[c] \in {"started", "staged", "committed"}
             /\ pc' = [pc EXCEPT ![c] = "failing"] /\ lock' = lock
    <3>1. lock = c
      BY <1>t, <2>2 DEF Owner, Inside, InTransaction
    <3>2. Open' = [Open EXCEPT ![c] = {"store"}]
      BY <1>t, <2>2 DEF Open, Written
    <3> QED
      BY <2>2, <3>1, <3>2, Opens
  <2> QED
    BY <1>11, <2>1, <2>2 DEF Alarm
<1>12. ASSUME NEW c \in Caller, Crash(c)
       PROVE  Sessions!Next \/ (lock' = lock /\ Open' = Open)
  <2>1. Open' = [Open EXCEPT ![c] = {}]
    BY <1>t, <1>12 DEF Crash, Open, Written
  <2>2. CASE lock = c
    BY <1>12, <2>1, <2>2, Ends DEF Crash
  <2>3. CASE lock # c
    <3>1. pc[c] \notin Written
      BY <1>t, <2>3 DEF Owner, Inside, InTransaction, Written
    <3> QED
      BY <1>12, <2>1, <2>3, <3>1 DEF Crash, Open
  <2> QED
    BY <2>2, <2>3
<1> QED
  BY <1>1, <1>2, <1>3, <1>4, <1>5, <1>6, <1>7, <1>8, <1>9, <1>10, <1>11, <1>12
  DEF Next, Execute

(* Every behaviour of the coordinator is one of the abstract sessions: no  *)
(* row of a run, nor of its failure, is written outside one.               *)
THEOREM ImplementsSessions == Spec => SessionsSpec
<1> QED
  BY SessionInit, SessionStep, Inductive, PTL DEF Spec, SessionsSpec, Sessions!Spec
=============================================================================
