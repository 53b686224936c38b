-------------------------- MODULE OperationsProofs --------------------------
(***************************************************************************)
(* Proofs about Operations: about backups, restores and exports for any     *)
(* number of calls, roots and roles and ledgers of any length, and about    *)
(* the reviewed backfill for any attempts, dates and answers.               *)
(*                                                                         *)
(* What a call has copied stays as it was only because no other call can    *)
(* copy into the same root after it, and because no writer reaches that     *)
(* root before the call returns a cohort.  The inductive invariant says     *)
(* both, with what a call has read and which locks it holds at each of its  *)
(* points.  On it rests that copies made one by one are copies of one       *)
(* instant, as AtomicCopies has them.                                       *)
(***************************************************************************)
EXTENDS Operations, FiniteSetTheorems, SequenceTheorems, WellFoundedInduction, TLAPS

Pc == {"idle", "target", "waiting", "locked", "copying", "copied", "comparing",
       "done", "failed"}

(* The points of a call that holds the locks of its source, and those after *)
(* it has read the evidence.                                               *)
Locking == {"locked", "copying", "copied"}
Informed == {"copying", "copied", "comparing", "done"}

Cell == File \cup {Absent, Torn}

Call(given) ==
  [pc : Pc, kind : {"none", "backup", "restore", "export"}, src : Root, dst : Root,
   next : Nat, seen : [Role -> Cell] \cup {Absent}, cohort : given \cup {Absent},
   why : {"none", "target", "evidence", "exists", "interrupted", "differs"}]

Typed ==
  /\ disk \in [Root -> [Role -> Cell]]
  /\ lock \in [Root -> Op \cup {Nobody}]
  /\ op \in [Op -> Call(cohorts)]

(* The stores of the operational root and of every returned backup are     *)
(* there, whatever has become of what is in them.                          *)
WritableHeld == \A root \in Writable, r \in Role : disk[root][r] \in File

(* A returned cohort was made by a call that copied all of it.             *)
Maker(c, o) ==
  op[o].pc = "done" /\ op[o].kind = "backup" /\ op[o].dst = c.root

CohortsMade == \A c \in cohorts : c.root \in Root \ {Live} /\ \E o \in Op : Maker(c, o)

(* How far each call has come when it is at a point.                       *)
Counted(o) ==
  /\ op[o].pc \in {"idle", "target", "waiting", "locked"} => op[o].next = 0
  /\ op[o].pc = "copying" => op[o].next \in DOMAIN RoleSeq
  /\ op[o].pc \in {"copied", "comparing", "done"} => op[o].next = Len(RoleSeq) + 1
  /\ op[o].next <= Len(RoleSeq) + 1

Placed(o) ==
  /\ op[o].pc # "idle" => op[o].dst # Live
  /\ op[o].src \in Writable
  /\ op[o].kind # "restore" => op[o].src = Live
  /\ op[o].pc \in Locking => lock[op[o].src] = o

Checkpointed(l) ==
  l.runs # << >> /\ Unbroken(l) /\ \A f \in l.failures : f < Selected(l).at

(* What the call read under the locks.                                     *)
Read(o) ==
  /\ op[o].pc \in {"copying", "copied"} /\ op[o].src = Live => op[o].seen = disk[Live]
  /\ op[o].pc \in Informed /\ op[o].kind = "restore" =>
       Logical(op[o].seen) = op[o].cohort.logical
  /\ op[o].pc \in Informed /\ op[o].kind = "export" =>
       \A r \in Role : Checkpointed(op[o].seen[r].ledger)

(* Every store copied so far is there, and in an export it is the one that *)
(* was read.                                                               *)
Copied(o) ==
  \A i \in DOMAIN RoleSeq : i < op[o].next =>
    LET r == RoleSeq[i] IN
    /\ disk[op[o].dst][r] # Absent
    /\ op[o].kind = "export" => disk[op[o].dst][r] = op[o].seen[r]

(* Of the calls into one root only one has copied anything.                *)
Sole ==
  \A o, p \in Op : op[o].next > 1 /\ op[p].next > 1 /\ op[o].dst = op[p].dst => o = p

CallsOK == \A o \in Op : Counted(o) /\ Placed(o) /\ Read(o) /\ Copied(o)

CopiesInv ==
  Typed /\ WritableHeld /\ CohortsMade /\ CallsOK /\ Sole /\ LiveHoldsStill

-----------------------------------------------------------------------------
(* What a writer adds to a ledger leaves a ledger.                         *)
LEMMA LedgerGrows ==
  ASSUME NEW l \in Ledger
  PROVE  /\ \A r \in Runs : Published(l, r) \in Ledger
         /\ \A t \in Failures : Failed(l, t) \in Ledger
<1>1. \A r \in Runs : Append(l.runs, r) \in Seq(RunRow)
  BY LedgerAssumption DEF Ledger
<1> QED
  BY <1>1, LedgerAssumption DEF Ledger, Published, Failed

(* Where a step of the world outside the calls writes, and what.           *)
Outside(root, role) ==
  /\ root \in Writable
  /\ disk'[root][role] \in File
  /\ disk' = [disk EXCEPT ![root][role] = disk'[root][role]]
  /\ root = Live => lock[root] = Nobody
  /\ UNCHANGED <<lock, op, cohorts>>

LEMMA OutsideSteps ==
  ASSUME Typed, WritableHeld, CohortsMade, Write \/ Damage
  PROVE  \E root \in Root, role \in Role : Outside(root, role)
<1>1. ASSUME NEW root \in Writable, NEW role \in Role, NEW l \in Ledger, Ingest(root, role, l)
      PROVE  root \in Root /\ Outside(root, role)
  <2>1. root \in Root /\ disk[root][role] \in File
    BY LiveAssumption DEF Writable, CohortsMade, WritableHeld
  <2>2. [disk[root][role] EXCEPT !.ledger = l] \in File
    BY <2>1 DEF File
  <2>3. disk'[root][role] = [disk[root][role] EXCEPT !.ledger = l]
    BY <1>1, <2>1 DEF Ingest, Typed
  <2>4. disk' = [disk EXCEPT ![root][role] = disk'[root][role]]
    BY <1>1, <2>1, <2>3 DEF Ingest, Typed
  <2> QED
    BY <1>1, <2>1, <2>2, <2>3, <2>4 DEF Ingest, Outside
<1>2. CASE Write
  <2>1. PICK root \in Writable, role \in Role :
          LET l == disk[root][role].ledger IN
          \/ \E r \in Runs : Ingest(root, role, Published(l, r))
          \/ \E t \in Failures : Ingest(root, role, Failed(l, t))
    BY <1>2 DEF Write
  <2>2. disk[root][role].ledger \in Ledger
    BY DEF WritableHeld, File
  <2>3. \E l \in Ledger : Ingest(root, role, l)
    BY <2>1, <2>2, LedgerGrows
  <2> QED
    BY <1>1, <2>3
<1>3. CASE Damage
  <2>0. PICK c \in cohorts, role \in Role :
          \E s \in {[disk[c.root][role] EXCEPT !.intact = FALSE],
                   [disk[c.root][role] EXCEPT !.anchor = Nobody]} :
            disk' = [disk EXCEPT ![c.root][role] = s] /\ UNCHANGED <<lock, op, cohorts>>
    BY <1>3 DEF Damage
  <2>1. PICK s \in {[disk[c.root][role] EXCEPT !.intact = FALSE],
                   [disk[c.root][role] EXCEPT !.anchor = Nobody]} :
          disk' = [disk EXCEPT ![c.root][role] = s] /\ UNCHANGED <<lock, op, cohorts>>
    BY <2>0
  <2>2. c.root \in Root \ {Live} /\ c.root \in Writable /\ disk[c.root][role] \in File
    BY DEF CohortsMade, WritableHeld, Writable
  <2>3. s \in File
    BY <2>2 DEF File
  <2>4. disk'[c.root][role] = s
    BY <2>1, <2>2 DEF Typed
  <2> QED
    BY <2>1, <2>2, <2>3, <2>4 DEF Outside
<1> QED
  BY <1>2, <1>3

(* What a step of a call does to the files.                                *)
Fills(o, role) ==
  /\ op[o].pc = "copying" /\ role = RoleSeq[op[o].next] /\ role \in Role
  /\ disk[op[o].dst][role] = Absent
  /\ disk' = [disk EXCEPT ![op[o].dst][role] = disk'[op[o].dst][role]]

Quiet(o) ==
  \/ BeginBackup(o) \/ BeginRestore(o) \/ PrepareTarget(o) \/ TargetUsed(o)
  \/ Lock(o) \/ Evidence(o) \/ EvidenceRefused(o) \/ CopyRefused(o)
  \/ Release(o) \/ Finish(o) \/ Differs(o) \/ Interrupted(o)

LEMMA QuietSteps ==
  ASSUME NEW o \in Op, Quiet(o)
  PROVE  disk' = disk
  BY DEF Quiet, BeginBackup, BeginRestore, Begin, PrepareTarget, TargetUsed, Lock, Evidence,
         EvidenceRefused, CopyRefused, Release, Finish, Differs, Interrupted, Stop

LEMMA FillSteps ==
  ASSUME Typed, CallsOK, NEW o \in Op, Copy(o) \/ CopyBreaks(o)
  PROVE  \E role \in Role : Fills(o, role)
<1> DEFINE role == RoleSeq[op[o].next]
<1>1. op[o].pc = "copying" /\ role \in Role /\ op[o].dst \in Root
  BY DEF Copy, CopyBreaks, CallsOK, Counted, Role, Typed, Call
<1>2. disk[op[o].dst][role] = Absent
  BY DEF Copy, CopyBreaks, Free
<1>3. PICK cell : disk' = [disk EXCEPT ![op[o].dst][role] = cell]
  BY DEF Copy, CopyBreaks
<1>4. disk' = [disk EXCEPT ![op[o].dst][role] = disk'[op[o].dst][role]]
  BY <1>1, <1>3 DEF Typed
<1> QED
  BY <1>1, <1>2, <1>4 DEF Fills

-----------------------------------------------------------------------------
(* A step of a call changes no other call, and leaves it a call; it takes   *)
(* or gives back no locks but its own.                                     *)
LEMMA CallSteps ==
  ASSUME Typed, CohortsMade, NEW o \in Op, Step(o)
  PROVE  /\ op' \in [Op -> Call(cohorts)]
         /\ \A p \in Op \ {o} : op'[p] = op[p]
         /\ lock' \in [Root -> Op \cup {Nobody}]
         /\ cohorts \subseteq cohorts'
<1> USE DEF Typed
<1>1. op[o] \in Call(cohorts) /\ Idle \in Call(cohorts)
  BY LiveAssumption DEF Call, Idle, Pc
<1>2. ASSUME NEW kind \in {"backup", "export", "restore"}, NEW src \in Root, NEW dst \in Root,
             NEW c \in cohorts \cup {Absent}, Begin(o, kind, src, dst, c)
      PROVE  op' \in [Op -> Call(cohorts)] /\ \A p \in Op \ {o} : op'[p] = op[p]
  <2>1. [Idle EXCEPT !.pc = "target", !.kind = kind, !.src = src, !.dst = dst, !.cohort = c]
          \in Call(cohorts)
    BY LiveAssumption DEF Call, Idle, Pc
  <2> QED
    BY <1>2, <2>1 DEF Begin
<1>3. CASE BeginBackup(o)
  <2>1. op' \in [Op -> Call(cohorts)] /\ \A p \in Op \ {o} : op'[p] = op[p]
    BY <1>2, <1>3, LiveAssumption DEF BeginBackup
  <2> QED
    BY <1>3, <2>1 DEF BeginBackup, Begin
<1>4. CASE BeginRestore(o)
  <2>1. \A c \in cohorts : c.root \in Root
    BY DEF CohortsMade
  <2>2. op' \in [Op -> Call(cohorts)] /\ \A p \in Op \ {o} : op'[p] = op[p]
    BY <1>2, <1>4, <2>1 DEF BeginRestore
  <2> QED
    BY <1>4, <2>2 DEF BeginRestore, Begin
<1>5. ASSUME NEW why \in {"target", "evidence", "exists", "interrupted", "differs"}, Stop(o, why)
      PROVE  /\ op' \in [Op -> Call(cohorts)]
             /\ \A p \in Op \ {o} : op'[p] = op[p]
             /\ lock' \in [Root -> Op \cup {Nobody}]
             /\ cohorts' = cohorts
  <2>1. [op[o] EXCEPT !.pc = "failed", !.why = why] \in Call(cohorts)
    BY <1>1 DEF Call, Pc
  <2> QED
    BY <1>5, <2>1 DEF Stop
<1>6. CASE TargetUsed(o) \/ EvidenceRefused(o) \/ CopyRefused(o) \/ Differs(o) \/ Interrupted(o)
  BY <1>5, <1>6 DEF TargetUsed, EvidenceRefused, CopyRefused, Differs, Interrupted
<1>7. ASSUME NEW pc \in Pc, Move(o, pc)
      PROVE  op' \in [Op -> Call(cohorts)] /\ \A p \in Op \ {o} : op'[p] = op[p]
  <2>1. [op[o] EXCEPT !.pc = pc] \in Call(cohorts)
    BY <1>1 DEF Call
  <2> QED
    BY <1>7, <2>1 DEF Move
<1>8. CASE PrepareTarget(o) \/ Lock(o) \/ Release(o) \/ Finish(o)
  <2>1. op' \in [Op -> Call(cohorts)] /\ \A p \in Op \ {o} : op'[p] = op[p]
    BY <1>7, <1>8 DEF PrepareTarget, Lock, Release, Finish, Pc
  <2>2. lock' \in [Root -> Op \cup {Nobody}]
    BY <1>8 DEF PrepareTarget, Lock, Release, Finish
  <2>3. cohorts \subseteq cohorts'
    BY <1>8 DEF PrepareTarget, Lock, Release, Finish
  <2> QED
    BY <2>1, <2>2, <2>3
<1>9. CASE Evidence(o)
  <2>1. [op[o] EXCEPT !.pc = "copying", !.next = 1, !.seen = disk[op[o].src]] \in Call(cohorts)
    BY <1>1 DEF Call, Pc
  <2> QED
    BY <1>9, <2>1 DEF Evidence
<1>10. CASE Copy(o)
  <2>1. ASSUME NEW pc \in Pc
        PROVE  [op[o] EXCEPT !.next = @ + 1, !.pc = pc] \in Call(cohorts)
    <3>1. op[o].next + 1 \in Nat
      BY <1>1 DEF Call
    <3> QED
      BY <1>1, <3>1 DEF Call
  <2>2. (IF op[o].next = Len(RoleSeq) THEN "copied" ELSE op[o].pc) \in Pc
    BY <1>1 DEF Call, Pc
  <2> QED
    BY <1>10, <2>1, <2>2 DEF Copy
<1>11. CASE CopyBreaks(o)
  <2>1. [op[o] EXCEPT !.pc = "failed", !.why = "interrupted"] \in Call(cohorts)
    BY <1>1 DEF Call, Pc
  <2> QED
    BY <1>11, <2>1 DEF CopyBreaks
<1> QED
  BY <1>3, <1>4, <1>6, <1>8, <1>9, <1>10, <1>11 DEF Step

LEMMA MoreGiven ==
  ASSUME NEW C, NEW D, C \subseteq D
  PROVE  [Op -> Call(C)] \subseteq [Op -> Call(D)]
<1>1. Call(C) \subseteq Call(D)
  BY DEF Call
<1> QED
  BY <1>1

(* The calls that have come to an end take no step.                        *)
LEMMA EndedRest ==
  ASSUME NEW o \in Op, Step(o)
  PROVE  op[o].pc \notin {"done", "failed"}
  BY DEF Step, BeginBackup, BeginRestore, Begin, PrepareTarget, TargetUsed, Lock, Evidence,
         EvidenceRefused, Copy, CopyRefused, CopyBreaks, Release, Finish, Differs, Interrupted

LEMMA Steps ==
  ASSUME NEW o \in Op, Step(o)
  PROVE  Quiet(o) \/ Copy(o) \/ CopyBreaks(o)
  BY DEF Step, Quiet

LEMMA TypedStep ==
  ASSUME CopiesInv, [Next]_vars
  PROVE  Typed'
<1> USE DEF CopiesInv
<1>1. CASE UNCHANGED vars
  BY <1>1 DEF vars, Typed
<1>2. CASE Write \/ Damage
  <2>1. PICK root \in Root, role \in Role : Outside(root, role)
    BY <1>2, OutsideSteps
  <2>2. disk' \in [Root -> [Role -> Cell]]
    BY <2>1 DEF Typed, Outside, Cell
  <2> QED
    BY <2>1, <2>2 DEF Typed, Outside
<1>3. ASSUME NEW o \in Op, Step(o)
      PROVE  Typed'
  <2>1. disk' \in [Root -> [Role -> Cell]]
    <3>1. CASE Quiet(o)
      BY <3>1, QuietSteps DEF Typed
    <3>2. CASE Copy(o) \/ CopyBreaks(o)
      <4>1. PICK role \in Role : Fills(o, role)
        BY <3>2, FillSteps
      <4>2. op[o].src \in Root /\ op[o].dst \in Root
        BY DEF Typed, Call
      <4>3. disk'[op[o].dst][role] \in Cell
        BY <3>2, <4>1, <4>2 DEF Typed, Copy, CopyBreaks, Fills, Cell
      <4>4. \A x \in Cell :
              [disk EXCEPT ![op[o].dst][role] = x] \in [Root -> [Role -> Cell]]
        BY <4>2 DEF Typed
      <4> QED
        BY <4>1, <4>3, <4>4 DEF Fills
    <3> QED
      BY <1>3, <3>1, <3>2, Steps
  <2> QED
    BY <1>3, <2>1, CallSteps, MoreGiven DEF Typed
<1> QED
  BY <1>1, <1>2, <1>3 DEF Next

(* The files of writable roots stay, and a finished backup adds its own.   *)
LEMMA WritableStep ==
  ASSUME CopiesInv, [Next]_vars
  PROVE  WritableHeld'
<1> USE DEF CopiesInv
<1>0. \A root \in Writable : root \in Root
  BY LiveAssumption DEF Writable, CohortsMade
<1>1. CASE UNCHANGED vars
  BY <1>1 DEF vars, WritableHeld, Writable
<1>2. CASE Write \/ Damage
  <2>1. PICK root \in Root, role \in Role : Outside(root, role)
    BY <1>2, OutsideSteps
  <2> QED
    BY <1>0, <2>1 DEF Typed, Outside, WritableHeld, Writable
<1>3. ASSUME NEW o \in Op, Quiet(o), cohorts' = cohorts
      PROVE  WritableHeld'
  BY <1>3, QuietSteps DEF WritableHeld, Writable
<1>4. ASSUME NEW o \in Op, Copy(o) \/ CopyBreaks(o)
      PROVE  WritableHeld'
  <2>1. PICK role \in Role : Fills(o, role)
    BY <1>4, FillSteps
  <2>2. op[o].dst \in Root
    BY DEF Typed, Call
  <2>3. op[o].dst \notin Writable
    BY <2>1, AbsentAssumption DEF Fills, WritableHeld
  <2>4. cohorts' = cohorts
    BY <1>4 DEF Copy, CopyBreaks
  <2> QED
    BY <1>0, <2>1, <2>2, <2>3, <2>4 DEF Typed, Fills, WritableHeld, Writable
<1>5. ASSUME NEW o \in Op, Finish(o)
      PROVE  WritableHeld'
  <2>1. op[o].dst \in Root /\ disk' = disk
    BY <1>5 DEF Typed, Call, Finish
  <2>2. \A r \in Role : disk[op[o].dst][r] \in File
    BY <1>5, <2>1 DEF Finish, Compared, Healthy, HealthyStore, Typed, Cell
  <2>3. Writable' \subseteq Writable \cup {op[o].dst}
    BY <1>5 DEF Finish, Writable
  <2> QED
    BY <2>1, <2>2, <2>3 DEF WritableHeld
<1>6. ASSUME NEW o \in Op, Quiet(o), ~ Finish(o)
      PROVE  cohorts' = cohorts
  BY <1>6 DEF Quiet, BeginBackup, BeginRestore, Begin, PrepareTarget, TargetUsed, Lock,
              Evidence, EvidenceRefused, CopyRefused, Release, Differs, Interrupted, Stop
<1> QED
  BY <1>1, <1>2, <1>3, <1>4, <1>5, <1>6, Steps DEF Next

LEMMA CohortsStep ==
  ASSUME CopiesInv, [Next]_vars
  PROVE  CohortsMade'
<1> USE DEF CopiesInv
<1>1. CASE cohorts' = cohorts /\ op' = op
  BY <1>1 DEF CohortsMade, Maker
<1>2. ASSUME NEW o \in Op, Step(o), NEW c \in cohorts
      PROVE  c.root \in Root \ {Live} /\ \E p \in Op : Maker(c, p)'
  <2>1. PICK p \in Op : Maker(c, p)
    BY DEF CohortsMade
  <2>2. p # o
    BY <1>2, <2>1, EndedRest DEF Maker
  <2>3. op'[p] = op[p]
    BY <1>2, <2>2, CallSteps
  <2> QED
    BY <2>1, <2>3 DEF Maker, CohortsMade
<1>3. ASSUME NEW o \in Op, Finish(o), NEW c \in cohorts' \ cohorts
      PROVE  c.root \in Root \ {Live} /\ \E p \in Op : Maker(c, p)'
  <2>1. op[o].kind = "backup" /\ c.root = op[o].dst
    BY <1>3 DEF Finish
  <2>2. op[o] \in Call(cohorts) /\ op[o].pc = "comparing" /\ op[o].dst # Live
    BY <1>3 DEF Typed, Finish, CallsOK, Placed
  <2>3. op'[o] = [op[o] EXCEPT !.pc = "done"]
    BY <1>3 DEF Finish, Move, Typed
  <2>4. op'[o].pc = "done" /\ op'[o].kind = op[o].kind /\ op'[o].dst = op[o].dst
    BY <2>2, <2>3 DEF Call
  <2> QED
    BY <2>1, <2>2, <2>4 DEF Maker, Call
<1>4. ASSUME NEW o \in Op, Step(o), ~ Finish(o)
      PROVE  cohorts' = cohorts
  BY <1>4 DEF Step, BeginBackup, BeginRestore, Begin, PrepareTarget, TargetUsed, Lock, Copy,
              CopyBreaks, Evidence, EvidenceRefused, CopyRefused, Release, Differs,
              Interrupted, Stop
<1>5. ASSUME NEW o \in Op, Step(o)
      PROVE  CohortsMade'
  <2>1. Finish(o) \/ cohorts' = cohorts
    BY <1>5, <1>4
  <2>2. ASSUME NEW c \in cohorts' PROVE c.root \in Root \ {Live} /\ \E p \in Op : Maker(c, p)'
    BY <1>2, <1>3, <1>5, <2>1
  <2> QED
    BY <2>2 DEF CohortsMade
<1>6. CASE Write \/ Damage
  BY <1>1, <1>6, OutsideSteps DEF Outside
<1> QED
  BY <1>1, <1>5, <1>6 DEF Next, vars

-----------------------------------------------------------------------------
(* What a step makes of the call that takes it, apart from its beginning:   *)
(* what it was called with stays.                                          *)
Becomes(o, pc, next, seen, why) ==
  /\ op'[o].pc = pc /\ op'[o].next = next /\ op'[o].seen = seen /\ op'[o].why = why
  /\ op'[o].kind = op[o].kind /\ op'[o].src = op[o].src /\ op'[o].dst = op[o].dst
  /\ op'[o].cohort = op[o].cohort

LEMMA StopBecomes ==
  ASSUME Typed, NEW o \in Op, NEW why, Stop(o, why)
  PROVE  Becomes(o, "failed", op[o].next, op[o].seen, why)
<1>1. op[o] \in Call(cohorts)
  BY DEF Typed
<1>2. op'[o] = [op[o] EXCEPT !.pc = "failed", !.why = why]
  BY DEF Stop, Typed
<1> QED
  BY <1>1, <1>2 DEF Becomes, Call

LEMMA MoveBecomes ==
  ASSUME Typed, NEW o \in Op, NEW pc, Move(o, pc)
  PROVE  Becomes(o, pc, op[o].next, op[o].seen, op[o].why)
<1>1. op[o] \in Call(cohorts)
  BY DEF Typed
<1>2. op'[o] = [op[o] EXCEPT !.pc = pc]
  BY DEF Move, Typed
<1> QED
  BY <1>1, <1>2 DEF Becomes, Call

LEMMA EvidenceBecomes ==
  ASSUME Typed, NEW o \in Op, Evidence(o)
  PROVE  Becomes(o, "copying", 1, disk[op[o].src], op[o].why)
<1>1. op[o] \in Call(cohorts)
  BY DEF Typed
<1>2. op'[o] = [op[o] EXCEPT !.pc = "copying", !.next = 1, !.seen = disk[op[o].src]]
  BY DEF Evidence, Typed
<1> QED
  BY <1>1, <1>2 DEF Becomes, Call

LEMMA CopyBecomes ==
  ASSUME Typed, NEW o \in Op, Copy(o)
  PROVE  Becomes(o, IF op[o].next = Len(RoleSeq) THEN "copied" ELSE "copying",
                 op[o].next + 1, op[o].seen, op[o].why)
<1> DEFINE pc == IF op[o].next = Len(RoleSeq) THEN "copied" ELSE "copying"
<1>1. op[o] \in Call(cohorts) /\ op[o].next + 1 \in Nat
  BY DEF Typed, Call
<1>2. op'[o] = [op[o] EXCEPT !.next = op[o].next + 1, !.pc = pc]
  BY DEF Copy, Typed
<1> HIDE DEF pc
<1>3. Becomes(o, pc, op[o].next + 1, op[o].seen, op[o].why)
  BY <1>1, <1>2 DEF Becomes, Call
<1> QED
  BY <1>3 DEF pc

LEMMA BreakBecomes ==
  ASSUME Typed, NEW o \in Op, CopyBreaks(o)
  PROVE  Becomes(o, "failed", op[o].next, op[o].seen, "interrupted")
<1>1. op[o] \in Call(cohorts)
  BY DEF Typed
<1>2. op'[o] = [op[o] EXCEPT !.pc = "failed", !.why = "interrupted"]
  BY DEF CopyBreaks, Typed
<1> QED
  BY <1>1, <1>2 DEF Becomes, Call

(* A call that begins, from a writable root into another one.              *)
Begins(o) ==
  /\ op'[o].pc = "target" /\ op'[o].next = 0 /\ op'[o].why = "none"
  /\ op'[o].dst # Live /\ op'[o].src \in Writable
  /\ op'[o].kind # "restore" => op'[o].src = Live

LEMMA BeginBegins ==
  ASSUME Typed, NEW o \in Op, BeginBackup(o) \/ BeginRestore(o)
  PROVE  Begins(o) /\ UNCHANGED <<disk, lock, cohorts>>
<1>1. ASSUME NEW kind, NEW src, NEW dst, NEW c, Begin(o, kind, src, dst, c),
             dst # Live, src \in Writable, kind # "restore" => src = Live
      PROVE  Begins(o) /\ UNCHANGED <<disk, lock, cohorts>>
  <2>1. op'[o] = [Idle EXCEPT !.pc = "target", !.kind = kind, !.src = src, !.dst = dst,
                              !.cohort = c]
    BY <1>1 DEF Begin, Typed
  <2>2. op'[o] = [pc |-> "target", kind |-> kind, src |-> src, dst |-> dst, next |-> 0,
                  seen |-> Absent, cohort |-> c, why |-> "none"]
    BY <2>1 DEF Idle
  <2>3. Begins(o)
    BY <1>1, <2>2 DEF Begins
  <2> QED
    BY <1>1, <2>3 DEF Begin
<1>2. CASE BeginBackup(o)
  BY <1>1, <1>2 DEF BeginBackup, OneSource, Writable
<1>3. CASE BeginRestore(o)
  BY <1>1, <1>3 DEF BeginRestore, OneSource, Writable
<1> QED
  BY <1>2, <1>3

(* A call keeps its locks whatever the others do.                          *)
LEMMA LocksKept ==
  ASSUME CopiesInv, NEW o \in Op, Step(o), NEW p \in Op \ {o}, NEW root \in Root, lock[root] = p
  PROVE  lock'[root] = p
<1> USE DEF CopiesInv, Typed
<1>1. op[o].src \in Root
  BY DEF Call
<1>2. CASE CopyBreaks(o) \/ Release(o)
  <2>1. lock[op[o].src] = o
    BY <1>2 DEF CopyBreaks, Release, CallsOK, Placed, Locking
  <2> QED
    BY <1>1, <1>2, <2>1 DEF CopyBreaks, Release
<1>3. CASE Lock(o)
  BY <1>1, <1>3, NobodyAssumption DEF Lock, TakesLock
<1>4. ASSUME NEW why, Stop(o, why)
      PROVE  lock'[root] = p
  BY <1>4 DEF Stop
<1>5. CASE BeginBackup(o) \/ BeginRestore(o)
  BY <1>5, BeginBegins
<1>6. CASE PrepareTarget(o) \/ Evidence(o) \/ Copy(o) \/ Finish(o)
  BY <1>6 DEF PrepareTarget, Evidence, Copy, Finish
<1> QED
  BY <1>2, <1>3, <1>4, <1>5, <1>6
     DEF Step, TargetUsed, EvidenceRefused, CopyRefused, Differs, Interrupted

(* The operational stores hold still while a call reads them.              *)
LEMMA LiveKept ==
  ASSUME CopiesInv, [Next]_vars, NEW p \in Op,
         op[p].pc \in {"copying", "copied"}, op[p].src = Live
  PROVE  disk'[Live] = disk[Live]
<1> USE DEF CopiesInv
<1>1. lock[Live] # Nobody
  BY NobodyAssumption DEF CallsOK, Placed, Locking
<1>2. CASE Write \/ Damage
  <2>1. PICK root \in Root, role \in Role : Outside(root, role)
    BY <1>2, OutsideSteps
  <2> QED
    BY <1>1, <2>1, LiveAssumption DEF Outside, Typed
<1>3. ASSUME NEW o \in Op, Copy(o) \/ CopyBreaks(o)
      PROVE  disk'[Live] = disk[Live]
  <2>1. PICK role \in Role : Fills(o, role)
    BY <1>3, FillSteps
  <2>2. op[o].dst # Live
    BY <2>1 DEF Fills, CallsOK, Placed
  <2> QED
    BY <2>1, <2>2, LiveAssumption DEF Fills, Typed
<1> QED
  BY <1>2, <1>3, Steps, QuietSteps DEF Next, vars

(* No writer reaches the target of an export that has copied anything.     *)
LEMMA ExportApart ==
  ASSUME CopiesInv, NEW p \in Op, op[p].kind = "export", op[p].next > 1
  PROVE  op[p].dst \notin Writable
<1> USE DEF CopiesInv
<1>1. op[p].dst # Live
  BY DEF CallsOK, Placed, Counted
<1>2. ASSUME NEW c \in cohorts, op[p].dst = c.root
      PROVE  FALSE
  <2>1. PICK o \in Op : Maker(c, o)
    BY DEF CohortsMade
  <2>2. op[o].next = Len(RoleSeq) + 1 /\ Len(RoleSeq) \in Nat /\ Len(RoleSeq) # 0
    BY <2>1, RoleAssumption DEF Maker, CallsOK, Counted
  <2> QED
    BY <1>2, <2>1, <2>2 DEF Sole, Maker
<1> QED
  BY <1>1, <1>2 DEF Writable

LEMMA CopiesKept ==
  ASSUME CopiesInv, [Next]_vars, NEW p \in Op, NEW i \in DOMAIN RoleSeq, i < op[p].next
  PROVE  /\ disk'[op[p].dst][RoleSeq[i]] # Absent
         /\ op[p].kind = "export" =>
              disk'[op[p].dst][RoleSeq[i]] = disk[op[p].dst][RoleSeq[i]]
<1> USE DEF CopiesInv
<1> DEFINE d == op[p].dst
           r == RoleSeq[i]
<1>1. d \in Root /\ r \in Role /\ disk[d][r] # Absent /\ op[p].next \in Nat
  BY DEF Typed, Call, CallsOK, Copied, Role
<1>2. CASE Write \/ Damage
  <2>1. PICK root \in Root, role \in Role : Outside(root, role)
    BY <1>2, OutsideSteps
  <2>2. op[p].kind = "export" => d # root
    <3>1. op[p].next > 1
      BY <1>1, RoleAssumption
    <3> QED
      BY <2>1, <3>1, ExportApart DEF Outside
  <2>3. disk'[root][role] # Absent
    BY <2>1, AbsentAssumption DEF Outside
  <2> QED
    BY <1>1, <2>1, <2>2, <2>3 DEF Outside, Typed
<1>3. ASSUME NEW o \in Op, Copy(o) \/ CopyBreaks(o)
      PROVE  disk'[d][r] = disk[d][r]
  <2>1. PICK role \in Role : Fills(o, role)
    BY <1>3, FillSteps
  <2> QED
    BY <1>1, <2>1 DEF Fills, Typed
<1> QED
  BY <1>1, <1>2, <1>3, Steps, QuietSteps DEF Next, vars

-----------------------------------------------------------------------------
(* The audit of a ledger.  A set of times that has members and a bound has *)
(* a last one, so that a partial checkpoint has a latest baseline.         *)
LEMMA HasLatest ==
  ASSUME NEW S \in SUBSET Nat, S # {}, NEW n \in Nat, \A t \in S : t <= n
  PROVE  \E t \in S : \A u \in S : u <= t
<1> DEFINE T == {n - t : t \in S}
<1>0. \A t \in S : t \in Nat /\ t <= n /\ n - t \in Nat
  OBVIOUS
<1>1. T \subseteq Nat /\ T # {}
  BY <1>0
<1>2. PICK x \in T : \A y \in T : ~ (<<y, x>> \in OpToRel(<, Nat))
  BY <1>1, NatLessThanWellFounded, WFMin
<1>3. \A y \in T : ~ (y < x)
  BY <1>1, <1>2 DEF OpToRel
<1>4. PICK t \in S : x = n - t
  OBVIOUS
<1>5. ASSUME NEW u \in S PROVE u <= t
  <2>1. n - u \in T
    OBVIOUS
  <2>2. ~ (n - u < n - t)
    BY <1>3, <1>4, <2>1
  <2> QED
    BY <1>0, <2>2
<1> QED
  BY <1>5

LEMMA Newest ==
  ASSUME NEW l \in Ledger, l.runs # << >>
  PROVE  Rows(l) \subseteq RunRow /\ Selected(l) \in Rows(l) /\ Others(l) \subseteq Rows(l)
<1>1. l.runs \in Seq(RunRow)
  BY DEF Ledger
<1>2. Len(l.runs) \in DOMAIN l.runs /\ 1 .. Len(l.runs) - 1 \subseteq DOMAIN l.runs
  BY <1>1
<1> QED
  BY <1>1, <1>2 DEF Rows, Selected, Others

(* A ledger that passes the audit is a checkpoint an export may rest on.   *)
LEMMA AcceptedIsCheckpointed ==
  ASSUME NEW l \in Ledger, Accepted(l)
  PROVE  Checkpointed(l)
<1> DEFINE s == Selected(l)
           base == BaselineTime(l)
<1>1. Rows(l) \subseteq RunRow /\ s \in Rows(l) /\ Others(l) \subseteq Rows(l)
  BY Newest DEF Accepted
<1>2. ASSUME NEW f \in l.failures
      PROVE  f < s.at
  BY <1>1, <1>2 DEF Accepted, FailuresSince, Ledger, RunRow
<1>3. CASE s.completeness = "complete"
  BY <1>1, <1>2, <1>3 DEF Checkpointed, Accepted, Unbroken
<1>4. CASE s.completeness # "complete"
  <2>1. Baselines(l) # {} /\ Validated(Chain(l))
    BY <1>4 DEF Accepted, ChainReconciled
  <2>2. Baselines(l) \subseteq RunRow
    BY <1>1 DEF Baselines
  <2>3. \E t \in {b.at : b \in Baselines(l)} : \A u \in {b.at : b \in Baselines(l)} : u <= t
    <3>1. {b.at : b \in Baselines(l)} \in SUBSET Nat /\ {b.at : b \in Baselines(l)} # {}
      BY <2>1, <2>2 DEF RunRow
    <3>2. s.at \in Nat /\ \A t \in {b.at : b \in Baselines(l)} : t <= s.at
      BY <1>1 DEF RunRow, Baselines
    <3> QED
      BY <3>1, <3>2, HasLatest
  <2>4. base \in {b.at : b \in Baselines(l)}
    BY <2>3 DEF BaselineTime
  <2>5. PICK b \in Baselines(l) : b.at = base
    BY <2>4
  <2>6. ASSUME NEW r \in Since(l, base)
        PROVE  r.whole
    <3>1. r \in RunRow /\ s \in RunRow
      BY <1>1 DEF Since
    <3>2. CASE r.at <= s.at
      BY <1>4, <2>1, <2>6, <3>2 DEF Chain, Validated
    <3>3. CASE ~ (r.at <= s.at)
      BY <2>6, <3>1, <3>3 DEF Accepted, Since, Validated, RunRow
    <3> QED
      BY <3>2, <3>3
  <2>7. b \in Rows(l) /\ b.completeness = "complete"
    BY <1>1 DEF Baselines
  <2> QED
    BY <1>2, <2>5, <2>6, <2>7 DEF Checkpointed, Accepted, Unbroken, Validated
<1> QED
  BY <1>3, <1>4

(* One complete publication later than everything recorded is accepted.    *)
LEMMA LatestIsAccepted ==
  ASSUME NEW l \in Ledger, NEW t \in Nat,
         \A x \in {q.at : q \in Rows(l)} \cup l.failures : x < t
  PROVE  Accepted(Published(l, [at |-> t, completeness |-> "complete", whole |-> TRUE]))
<1> DEFINE new == [at |-> t, completeness |-> "complete", whole |-> TRUE]
           m == Published(l, new)
<1>1. new \in RunRow
  BY DEF RunRow
<1> HIDE DEF new
<1>2. m.runs = Append(l.runs, new) /\ m.failures = l.failures /\ l.runs \in Seq(RunRow)
  BY DEF Published, Ledger
<1>3. Selected(m) = new
  BY <1>1, <1>2 DEF Selected
<1>4. Rows(m) = Rows(l) \cup {new}
  <2>1. ASSUME NEW r \in Rows(m) PROVE r \in Rows(l) \cup {new}
    BY <1>1, <1>2, <2>1 DEF Rows
  <2>2. ASSUME NEW r \in Rows(l) PROVE r \in Rows(m)
    <3>1. PICK i \in DOMAIN l.runs : r = l.runs[i]
      BY DEF Rows
    <3>2. i \in DOMAIN m.runs /\ m.runs[i] = r
      BY <1>1, <1>2, <3>1
    <3> QED
      BY <3>2 DEF Rows
  <2>3. new \in Rows(m)
    <3>1. Len(l.runs) + 1 \in DOMAIN m.runs /\ m.runs[Len(l.runs) + 1] = new
      BY <1>1, <1>2
    <3> QED
      BY <3>1 DEF Rows
  <2> QED
    BY <2>1, <2>2, <2>3
<1>5. new.at = t /\ new.whole /\ new.completeness = "complete"
  BY DEF new
<1>6. Since(m, t) \subseteq {new}
  <2>1. ASSUME NEW r \in Rows(l) PROVE ~ (r.at >= t)
    <3>1. r.at < t /\ r \in RunRow
      BY <1>2 DEF Rows
    <3> QED
      BY <3>1 DEF RunRow
  <2> QED
    BY <1>4, <2>1 DEF Since
<1>7. FailuresSince(m, t) = {}
  BY <1>2 DEF FailuresSince, Ledger
<1>8. m.runs # << >>
  BY <1>1, <1>2
<1> HIDE DEF m
<1>9. Accepted(m)
  BY <1>3, <1>5, <1>6, <1>7, <1>8 DEF Accepted, ChainReconciled, Validated
<1> QED
  BY <1>9 DEF m, new

-----------------------------------------------------------------------------
LEMMA MoreWritable ==
  ASSUME CopiesInv, [Next]_vars
  PROVE  Writable \subseteq Writable'
<1> USE DEF CopiesInv
<1>1. cohorts \subseteq cohorts'
  BY CallSteps, OutsideSteps DEF Next, vars, Outside
<1> QED
  BY <1>1 DEF Writable

(* What is known of a call that takes no step stays.                       *)
LEMMA Bystander ==
  ASSUME CopiesInv, [Next]_vars, NEW p \in Op, op'[p] = op[p],
         lock[op[p].src] = p => lock'[op[p].src] = p
  PROVE  Counted(p)' /\ Placed(p)' /\ Read(p)' /\ Copied(p)'
<1>1. Counted(p) /\ Placed(p) /\ Read(p) /\ Copied(p)
  BY DEF CopiesInv, CallsOK
<1>2. Counted(p)'
  BY <1>1 DEF Counted
<1>3. Placed(p)'
  BY <1>1, MoreWritable DEF Placed
<1>4. Read(p)'
  BY <1>1, LiveKept DEF Read
<1>5. Copied(p)'
  BY <1>1, CopiesKept DEF Copied
<1> QED
  BY <1>2, <1>3, <1>4, <1>5

(* The call that takes the step: where it stands afterwards.               *)
LEMMA ActorPlaced ==
  ASSUME CopiesInv, [Next]_vars, NEW o \in Op, Step(o)
  PROVE  Counted(o)' /\ Placed(o)'
<1> USE DEF CopiesInv
<1>1. Counted(o) /\ Placed(o) /\ op[o].next \in Nat /\ op[o].src \in Root
  BY DEF CallsOK, Typed, Call
<1>2. Len(RoleSeq) \in Nat \ {0} /\ DOMAIN RoleSeq = 1 .. Len(RoleSeq)
  BY RoleAssumption
<1>3. Writable \subseteq Writable'
  BY MoreWritable
<1>4. CASE BeginBackup(o) \/ BeginRestore(o)
  BY <1>2, <1>3, <1>4, BeginBegins DEF Begins, Counted, Placed, Locking
<1>5. ASSUME NEW why, Stop(o, why), op[o].pc # "idle"
      PROVE  Counted(o)' /\ Placed(o)'
  BY <1>1, <1>3, <1>5, StopBecomes DEF Becomes, Counted, Placed, Locking
<1>6. CASE TargetUsed(o) \/ EvidenceRefused(o) \/ CopyRefused(o) \/ Differs(o) \/ Interrupted(o)
  BY <1>5, <1>6 DEF TargetUsed, EvidenceRefused, CopyRefused, Differs, Interrupted
<1>7. CASE PrepareTarget(o)
  <2>1. Becomes(o, "waiting", op[o].next, op[o].seen, op[o].why)
    BY <1>7, MoveBecomes DEF PrepareTarget
  <2> QED
    BY <1>1, <1>3, <1>7, <2>1 DEF PrepareTarget, Becomes, Counted, Placed, Locking
<1>8. CASE Lock(o)
  <2>1. Becomes(o, "locked", op[o].next, op[o].seen, op[o].why)
    BY <1>8, MoveBecomes DEF Lock
  <2>2. lock'[op[o].src] = o
    BY <1>1, <1>8 DEF Lock, Typed
  <2> QED
    BY <1>1, <1>3, <1>8, <2>1, <2>2 DEF Lock, Becomes, Counted, Placed, Locking
<1>9. CASE Evidence(o)
  <2>1. op[o].pc = "locked" /\ lock' = lock
    BY <1>9 DEF Evidence
  <2>2. Becomes(o, "copying", 1, disk[op[o].src], op[o].why)
    BY <1>9, EvidenceBecomes
  <2>3. 1 \in DOMAIN RoleSeq /\ 1 <= Len(RoleSeq) + 1
    BY <1>2
  <2> QED
    BY <1>1, <1>3, <2>1, <2>2, <2>3 DEF Becomes, Counted, Placed, Locking
<1>10. CASE Copy(o)
  <2>1. op[o].pc = "copying" /\ lock' = lock
    BY <1>10 DEF Copy
  <2>2. CASE op[o].next = Len(RoleSeq)
    <3>1. Becomes(o, "copied", op[o].next + 1, op[o].seen, op[o].why)
      BY <1>10, <2>2, CopyBecomes
    <3> QED
      BY <1>1, <1>2, <1>3, <2>1, <2>2, <3>1 DEF Becomes, Counted, Placed, Locking
  <2>3. CASE op[o].next # Len(RoleSeq)
    <3>1. Becomes(o, "copying", op[o].next + 1, op[o].seen, op[o].why)
      BY <1>10, <2>3, CopyBecomes
    <3> QED
      BY <1>1, <1>2, <1>3, <2>1, <2>3, <3>1 DEF Becomes, Counted, Placed, Locking
  <2> QED
    BY <2>2, <2>3
<1>11. CASE CopyBreaks(o)
  <2>1. op[o].pc = "copying"
    BY <1>11 DEF CopyBreaks
  <2> QED
    BY <1>1, <1>3, <1>11, <2>1, BreakBecomes DEF Becomes, Counted, Placed, Locking
<1>12. CASE Release(o) \/ Finish(o)
  <2>1. \/ op[o].pc = "copied" /\ Becomes(o, "comparing", op[o].next, op[o].seen, op[o].why)
        \/ op[o].pc = "comparing" /\ Becomes(o, "done", op[o].next, op[o].seen, op[o].why)
    BY <1>12, MoveBecomes DEF Release, Finish
  <2> QED
    BY <1>1, <1>3, <2>1 DEF Becomes, Counted, Placed, Locking
<1> QED
  BY <1>4, <1>6, <1>7, <1>8, <1>9, <1>10, <1>11, <1>12 DEF Step

(* And what it has read and copied.                                        *)
LEMMA ActorRead ==
  ASSUME CopiesInv, [Next]_vars, NEW o \in Op, Step(o)
  PROVE  Read(o)'
<1> USE DEF CopiesInv
<1>1. Read(o) /\ Placed(o) /\ op[o] \in Call(cohorts)
  BY DEF CallsOK, Typed
<1>2. CASE BeginBackup(o) \/ BeginRestore(o)
  BY <1>2, BeginBegins DEF Begins, Read, Informed
<1>3. ASSUME NEW why, Stop(o, why)
      PROVE  Read(o)'
  BY <1>1, <1>3, StopBecomes DEF Becomes, Read, Informed
<1>4. CASE TargetUsed(o) \/ EvidenceRefused(o) \/ CopyRefused(o) \/ Differs(o) \/ Interrupted(o)
  BY <1>3, <1>4 DEF TargetUsed, EvidenceRefused, CopyRefused, Differs, Interrupted
<1>5. CASE PrepareTarget(o) \/ Lock(o)
  <2>1. \/ Becomes(o, "waiting", op[o].next, op[o].seen, op[o].why)
        \/ Becomes(o, "locked", op[o].next, op[o].seen, op[o].why)
    BY <1>5, MoveBecomes DEF PrepareTarget, Lock
  <2> QED
    BY <2>1 DEF Becomes, Read, Informed
<1>6. CASE Evidence(o)
  <2>1. Becomes(o, "copying", 1, disk[op[o].src], op[o].why) /\ disk' = disk
    BY <1>6, EvidenceBecomes DEF Evidence
  <2>2. op[o].kind = "restore" => Logical(disk[op[o].src]) = op[o].cohort.logical
    BY <1>6 DEF Evidence, CohortUnchanged
  <2>3. ASSUME op[o].kind = "export", NEW r \in Role
        PROVE  Checkpointed(disk[op[o].src][r].ledger)
    <3>1. Accepted(disk[op[o].src][r].ledger)
      BY <1>6, <2>3 DEF Evidence, ReceiptsAccepted
    <3>2. disk[op[o].src][r].ledger \in Ledger
      BY <1>1 DEF Placed, WritableHeld, File
    <3> QED
      BY <3>1, <3>2, AcceptedIsCheckpointed
  <2> QED
    BY <2>1, <2>2, <2>3 DEF Becomes, Read, Informed
<1>7. CASE Copy(o)
  <2>1. op[o].pc = "copying"
    BY <1>7 DEF Copy
  <2>2. op[o].src = Live => disk'[Live] = disk[Live]
    BY <2>1, LiveKept
  <2>3. \E pc \in {"copying", "copied"} :
          Becomes(o, pc, op[o].next + 1, op[o].seen, op[o].why)
    BY <1>7, CopyBecomes
  <2> QED
    BY <1>1, <2>1, <2>2, <2>3 DEF Becomes, Read, Informed
<1>8. CASE CopyBreaks(o)
  BY <1>1, <1>8, BreakBecomes DEF Becomes, Read, Informed
<1>9. CASE Release(o) \/ Finish(o)
  <2>1. \/ op[o].pc = "copied" /\ Becomes(o, "comparing", op[o].next, op[o].seen, op[o].why)
        \/ op[o].pc = "comparing" /\ Becomes(o, "done", op[o].next, op[o].seen, op[o].why)
    BY <1>9, MoveBecomes DEF Release, Finish
  <2> QED
    BY <1>1, <2>1 DEF Becomes, Read, Informed
<1> QED
  BY <1>2, <1>4, <1>5, <1>6, <1>7, <1>8, <1>9 DEF Step

(* Apart from a copy, a call that counts a store has counted it before.    *)
LEMMA CountGrows ==
  ASSUME CopiesInv, NEW o \in Op, Step(o)
  PROVE  \/ Copy(o) /\ op'[o].next = op[o].next + 1
                    /\ op'[o].dst = op[o].dst /\ op'[o].kind = op[o].kind
                    /\ op'[o].seen = op[o].seen
         \/ op'[o].next <= 1
         \/ /\ op'[o].next = op[o].next /\ op'[o].dst = op[o].dst
            /\ op'[o].kind = op[o].kind /\ op'[o].seen = op[o].seen
<1> USE DEF CopiesInv
<1>1. CASE Copy(o)
  BY <1>1, CopyBecomes DEF Becomes
<1>2. CASE BeginBackup(o) \/ BeginRestore(o)
  BY <1>2, BeginBegins DEF Begins
<1>3. CASE Evidence(o)
  BY <1>3, EvidenceBecomes DEF Becomes
<1>4. CASE CopyBreaks(o)
  BY <1>4, BreakBecomes DEF Becomes
<1>5. ASSUME NEW why, Stop(o, why)
      PROVE  op'[o].next = op[o].next /\ op'[o].dst = op[o].dst
             /\ op'[o].kind = op[o].kind /\ op'[o].seen = op[o].seen
  BY <1>5, StopBecomes DEF Becomes
<1>6. ASSUME NEW pc, Move(o, pc)
      PROVE  op'[o].next = op[o].next /\ op'[o].dst = op[o].dst
             /\ op'[o].kind = op[o].kind /\ op'[o].seen = op[o].seen
  BY <1>6, MoveBecomes DEF Becomes
<1> QED
  BY <1>1, <1>2, <1>3, <1>4, <1>5, <1>6
     DEF Step, TargetUsed, EvidenceRefused, CopyRefused, Differs, Interrupted,
         PrepareTarget, Lock, Release, Finish

LEMMA ActorCopied ==
  ASSUME CopiesInv, [Next]_vars, NEW o \in Op, Step(o)
  PROVE  Copied(o)'
<1> USE DEF CopiesInv
<1>0. Copied(o) /\ Placed(o) /\ Read(o) /\ op[o] \in Call(cohorts)
  BY DEF CallsOK, Typed
<1> SUFFICES ASSUME NEW i \in DOMAIN RoleSeq, i < op'[o].next
             PROVE  /\ disk'[op'[o].dst][RoleSeq[i]] # Absent
                    /\ op'[o].kind = "export" =>
                         disk'[op'[o].dst][RoleSeq[i]] = op'[o].seen[RoleSeq[i]]
  BY DEF Copied
<1>1. op[o].next \in Nat /\ op'[o].next \in Nat /\ i \in Nat \ {0}
  BY <1>0, CallSteps, RoleAssumption DEF Call
<1>2. CASE Copy(o) /\ i = op[o].next
  <2>1. op[o].pc = "copying" /\ RoleSeq[i] \in Role
    BY <1>2 DEF Copy, Role
  <2>2. disk'[op[o].dst][RoleSeq[i]] = disk[op[o].src][RoleSeq[i]]
    BY <1>0, <1>2, <2>1 DEF Copy, Typed, Call
  <2>3. disk[op[o].src][RoleSeq[i]] # Absent
    BY <1>0, <2>1, AbsentAssumption DEF Placed, WritableHeld
  <2>4. op[o].kind = "export" => op[o].seen = disk[op[o].src]
    BY <1>0, <2>1 DEF Placed, Read
  <2>5. op'[o].dst = op[o].dst /\ op'[o].kind = op[o].kind /\ op'[o].seen = op[o].seen
    BY <1>2, CopyBecomes DEF Becomes
  <2> QED
    BY <2>2, <2>3, <2>4, <2>5
<1>3. CASE ~ (Copy(o) /\ i = op[o].next)
  <2>1. i < op[o].next /\ op'[o].dst = op[o].dst /\ op'[o].kind = op[o].kind
        /\ op'[o].seen = op[o].seen
    BY <1>1, <1>3, CountGrows
  <2>2. op[o].kind = "export" => disk[op[o].dst][RoleSeq[i]] = op[o].seen[RoleSeq[i]]
    BY <1>0, <2>1 DEF Copied
  <2> QED
    BY <2>1, <2>2, CopiesKept
<1> QED
  BY <1>2, <1>3

LEMMA CallsStep ==
  ASSUME CopiesInv, [Next]_vars
  PROVE  CallsOK'
<1> SUFFICES ASSUME NEW p \in Op
             PROVE  Counted(p)' /\ Placed(p)' /\ Read(p)' /\ Copied(p)'
  BY DEF CallsOK
<1>1. CASE UNCHANGED <<lock, op>>
  BY <1>1, Bystander
<1>2. CASE Step(p)
  BY <1>2, ActorPlaced, ActorRead, ActorCopied
<1>3. ASSUME NEW o \in Op \ {p}, Step(o)
      PROVE  Counted(p)' /\ Placed(p)' /\ Read(p)' /\ Copied(p)'
  <2>1. op'[p] = op[p] /\ op[p].src \in Root
    BY <1>3, CallSteps DEF CopiesInv, Typed, Call
  <2>2. lock[op[p].src] = p => lock'[op[p].src] = p
    BY <1>3, <2>1, LocksKept
  <2> QED
    BY <2>1, <2>2, Bystander
<1> QED
  BY <1>1, <1>2, <1>3, OutsideSteps DEF Next, vars, Outside, CopiesInv

(* A call that copies its first store finds the target untouched.          *)
LEMMA SoleStep ==
  ASSUME CopiesInv, [Next]_vars
  PROVE  Sole'
<1> USE DEF CopiesInv
<1>0. \A p \in Op : op[p].next \in Nat
  BY DEF Typed, Call
<1>1. CASE UNCHANGED op
  BY <1>1 DEF Sole
<1>2. ASSUME NEW o \in Op, Step(o), op'[o].next > 1, NEW p \in Op \ {o}, op[p].next > 1
      PROVE  op'[o].dst # op[p].dst
  <2>1. CASE Copy(o) /\ op[o].next = 1
    <3>1. disk[op[o].dst][RoleSeq[1]] = Absent
      BY <2>1 DEF Copy, Free
    <3>2. disk[op[p].dst][RoleSeq[1]] # Absent
      BY <1>0, <1>2, RoleAssumption DEF CallsOK, Copied
    <3> QED
      BY <2>1, <3>1, <3>2, CopyBecomes DEF Becomes
  <2>2. CASE ~ (Copy(o) /\ op[o].next = 1)
    <3>1. op[o].next > 1 /\ op'[o].dst = op[o].dst
      <4>1. Copy(o) => op[o].next \in DOMAIN RoleSeq
        BY DEF Copy, CallsOK, Counted
      <4>2. DOMAIN RoleSeq = 1 .. Len(RoleSeq)
        BY RoleAssumption
      <4>3. op'[o].next \in Nat
        BY <1>2, CallSteps DEF Call
      <4> QED
        BY <1>0, <1>2, <2>2, <4>1, <4>2, <4>3, CountGrows
    <3> QED
      BY <1>2, <3>1 DEF Sole
  <2> QED
    BY <2>1, <2>2
<1>3. ASSUME NEW o \in Op, Step(o)
      PROVE  Sole'
  <2>1. \A p \in Op \ {o} : op'[p] = op[p]
    BY <1>3, CallSteps
  <2> QED
    BY <1>2, <1>3, <2>1 DEF Sole
<1> QED
  BY <1>1, <1>3, OutsideSteps DEF Next, vars, Outside

(* A call finds that its source has changed only if it is not the          *)
(* operational root.                                                       *)
LEMMA HoldsStillStep ==
  ASSUME CopiesInv, [Next]_vars
  PROVE  LiveHoldsStill'
<1> USE DEF CopiesInv
<1>1. CASE UNCHANGED op
  BY <1>1 DEF LiveHoldsStill
<1>2. ASSUME NEW o \in Op, Step(o), op'[o].why = "differs"
      PROVE  op'[o].src # Live
  <2>1. CASE Differs(o)
    <3>1. Becomes(o, "failed", op[o].next, op[o].seen, "differs")
      BY <2>1, StopBecomes DEF Differs
    <3>2. op[o].src = Live => op[o].seen = disk[Live]
      BY <2>1 DEF Differs, CallsOK, Read
    <3> QED
      BY <2>1, <3>1, <3>2 DEF Differs, Becomes
  <2>2. ASSUME NEW why \in {"target", "evidence", "exists", "interrupted"}, Stop(o, why)
        PROVE  FALSE
    BY <1>2, <2>2, StopBecomes DEF Becomes
  <2>3. ASSUME NEW pc, Move(o, pc)
        PROVE  op'[o].src # Live
    BY <1>2, <2>3, MoveBecomes DEF Becomes, LiveHoldsStill
  <2>4. CASE BeginBackup(o) \/ BeginRestore(o)
    BY <1>2, <2>4, BeginBegins DEF Begins
  <2>5. CASE Evidence(o)
    BY <1>2, <2>5, EvidenceBecomes DEF Becomes, LiveHoldsStill
  <2>6. CASE Copy(o) \/ CopyBreaks(o)
    BY <1>2, <2>6, CopyBecomes, BreakBecomes DEF Becomes, LiveHoldsStill
  <2> QED
    BY <1>2, <2>1, <2>2, <2>3, <2>4, <2>5, <2>6
       DEF Step, TargetUsed, EvidenceRefused, CopyRefused, Interrupted, PrepareTarget, Lock,
           Release, Finish
<1>3. ASSUME NEW o \in Op, Step(o)
      PROVE  LiveHoldsStill'
  <2>1. \A p \in Op \ {o} : op'[p] = op[p]
    BY <1>3, CallSteps
  <2> QED
    BY <1>2, <1>3, <2>1 DEF LiveHoldsStill
<1> QED
  BY <1>1, <1>3, OutsideSteps DEF Next, vars, Outside

LEMMA CopiesInit == Init => CopiesInv
<1> SUFFICES ASSUME Init PROVE CopiesInv
  OBVIOUS
<1>1. PICK past \in Past :
        disk = [root \in Root |-> [r \in Role |->
                  IF root = Live THEN Store(r, past[r]) ELSE Absent]]
  BY DEF Init
<1>2. \A r \in Role : Store(r, past[r]) \in File
  BY LedgerAssumption DEF Store, File
<1>3. op = [o \in Op |-> Idle] /\ cohorts = {} /\ lock = [root \in Root |-> Nobody]
  BY DEF Init
<1>4. Idle \in Call(cohorts)
  BY LiveAssumption DEF Idle, Call, Pc
<1>5. Typed
  BY <1>1, <1>2, <1>3, <1>4 DEF Typed, Cell
<1>6. WritableHeld /\ CohortsMade
  BY <1>1, <1>2, <1>3, LiveAssumption DEF WritableHeld, Writable, CohortsMade
<1>7. CallsOK
  <2>1. \A o \in Op : op[o] = Idle
    BY <1>3
  <2>2. 0 <= Len(RoleSeq) + 1 /\ \A i \in DOMAIN RoleSeq : ~ (i < 0)
    BY RoleAssumption
  <2> QED
    BY <2>1, <2>2 DEF CallsOK, Counted, Placed, Read, Copied, Idle, Writable, Locking, Informed
<1>8. Sole /\ LiveHoldsStill
  BY <1>3 DEF Sole, LiveHoldsStill, Idle
<1> QED
  BY <1>5, <1>6, <1>7, <1>8 DEF CopiesInv

LEMMA CopiesStepKeeps == CopiesInv /\ [Next]_vars => CopiesInv'
  BY TypedStep, WritableStep, CohortsStep, CallsStep, SoleStep, HoldsStillStep DEF CopiesInv

-----------------------------------------------------------------------------
(* The backfill.  The points of an attempt that owns the target root, and   *)
(* among them those where each of its stores is made.                      *)
Rehearsed == {"corrected"}
Scratched == {"scratch"} \cup Rehearsed
Restored == {"restored"} \cup Scratched
BackedUp == {"backed up"} \cup Restored
Filled == {"published", "reconciled", "replayed"} \cup BackedUp
Owning == {"laid", "ready"} \cup Filled

First(r) == Backfill!Written(Backfill!EmptyMarket, Backfill!Candidate(r, 1))

Correction(r, p) == Backfill!Candidate(Backfill!CorrectedResponse(r, p), 2)

Rehearsal(r, p) == Backfill!Written(First(r), Correction(r, p))

AttemptsTyped ==
  /\ at \in [Attempt -> [pc : {"start", "checked", "fetched", "done", "stopped", "conflict"}
                              \cup Owning,
                         response : Response \cup {None}]]
  /\ target = [by |-> target.by, receipt |-> target.receipt,
               in |-> [stores |-> target.in.stores, backup |-> target.in.backup,
                       restored |-> target.in.restored, rehearsal |-> target.in.rehearsal]]

(* One attempt at most owns the root, and it has not published a receipt.  *)
Owned(a) ==
  /\ at[a].pc \in Owning => target.by = a /\ target.receipt = None
  /\ at[a].pc \in {"fetched"} \cup Owning =>
       at[a].response \in Response /\ Backfill!Usable(at[a].response)

(* What the owner has put into the root at each of its points.             *)
Contents(a) ==
  LET r == at[a].response
      in == target.in
  IN
  /\ at[a].pc = "ready" => in.stores = Backfill!EmptyMarket
  /\ at[a].pc \in Filled => in.stores = First(r)
  /\ at[a].pc \in BackedUp => in.backup = First(r)
  /\ at[a].pc \in Restored => in.restored = First(r)
  /\ at[a].pc = "scratch" => in.rehearsal = First(r)
  /\ at[a].pc = "corrected" =>
       \E p \in Price : /\ Correction(r, p).prices # Backfill!Prices(r)
                        /\ in.rehearsal = Rehearsal(r, p)

BackfillInv ==
  /\ AttemptsTyped
  /\ target.by = None => target.receipt = None
  /\ \A a \in Attempt : Owned(a) /\ Contents(a)
  /\ Backfill!ReceiptStands

-----------------------------------------------------------------------------
LEMMA SameCardinality ==
  ASSUME NEW S
  PROVE  Backfill!Cardinality(S) = Cardinality(S)
  BY DEF Backfill!Cardinality, Cardinality, Backfill!IsFiniteSet, IsFiniteSet

(* The rows of a usable answer are one for each date.                      *)
LEMMA RowsOfDates ==
  ASSUME NEW r \in Answer, Backfill!Usable(r)
  PROVE  /\ \A d \in Date : /\ Backfill!SourceRow(r, d) \in DOMAIN r.rows
                            /\ r.rows[Backfill!SourceRow(r, d)].date = d
         /\ \A i, j \in DOMAIN r.rows : r.rows[i].date = r.rows[j].date => i = j
<1> DEFINE n == Len(r.rows)
           f == [i \in 1 .. n |-> r.rows[i].date]
<1>1. n \in Nat /\ DOMAIN r.rows = 1 .. n
  BY DEF Answer
<1>2. n = Cardinality(Date) /\ {r.rows[i].date : i \in 1 .. n} = Date
  BY <1>1, SameCardinality DEF Backfill!Usable, Backfill!RowsComplete
<1>3. \A d \in Date : \E i \in 1 .. n : r.rows[i].date = d
  BY <1>2
<1>4. \A d \in Date : /\ Backfill!SourceRow(r, d) \in DOMAIN r.rows
                      /\ r.rows[Backfill!SourceRow(r, d)].date = d
  BY <1>1, <1>3 DEF Backfill!SourceRow
<1>5. f \in Surjection(1 .. n, Date)
  BY <1>2, <1>3 DEF Surjection
<1>6. IsFiniteSet(1 .. n) /\ Cardinality(1 .. n) = n
  BY <1>1, FS_Interval
<1>7. f \in Injection(1 .. n, Date)
  BY <1>2, <1>5, <1>6, FS_SurjSameCardinalityImpliesInj
<1>8. \A i, j \in 1 .. n : r.rows[i].date = r.rows[j].date => i = j
  BY <1>7 DEF Injection, IsInjective
<1> QED
  BY <1>1, <1>4, <1>8

(* A candidate, and the market after the first and after the second.       *)
Named(P, t, R) == [prices |-> P, at |-> t, row |-> R]

V1(P, R, d) == [price |-> P[d], available |-> 1, capture |-> P, row |-> R[d],
                sequence |-> 1, supersedes |-> 0]

M1(P, R) == [identity |-> [at |-> 1, run |-> P], captures |-> {[prices |-> P, at |-> 1]},
             failed |-> {}, versions |-> [d \in Date |-> <<V1(P, R, d)>>],
             current |-> [d \in Date |-> 1]]

V2(Q, S, d) == [price |-> Q[d], available |-> 2, capture |-> Q, row |-> S[d],
                sequence |-> 2, supersedes |-> 1]

M2(P, R, Q, S) ==
  [identity |-> [at |-> 1, run |-> P],
   captures |-> {[prices |-> P, at |-> 1], [prices |-> Q, at |-> 2]}, failed |-> {},
   versions |-> [d \in Date |-> IF P[d] = Q[d] THEN <<V1(P, R, d)>>
                                ELSE <<V1(P, R, d), V2(Q, S, d)>>],
   current |-> [d \in Date |-> IF P[d] = Q[d] THEN 1 ELSE 2]]

LEMMA WrittenFirst ==
  ASSUME NEW P, NEW R
  PROVE  Backfill!Written(Backfill!EmptyMarket, Named(P, 1, R)) = M1(P, R)
<1> DEFINE E == Backfill!EmptyMarket
           h == Named(P, 1, R)
<1>1. \A d \in Date : ~ Backfill!SameValues(E, h, d)
  BY DEF Backfill!SameValues, Backfill!EmptyMarket
<1>2. \A d \in Date : /\ E.versions[d] = << >>
                      /\ Append(E.versions[d], Backfill!Version(E, h, d)) = <<V1(P, R, d)>>
                      /\ Len(E.versions[d]) + 1 = 1
  BY DEF Backfill!EmptyMarket, Backfill!Version, Named, V1
<1>3. /\ (IF E.identity = None THEN [at |-> h.at, run |-> h.prices] ELSE E.identity)
           = [at |-> 1, run |-> P]
      /\ E.captures \cup {[prices |-> h.prices, at |-> h.at]} = {[prices |-> P, at |-> 1]}
  BY DEF Backfill!EmptyMarket, Named
<1>4. [d \in Date |-> IF Backfill!SameValues(E, h, d) THEN E.versions[d]
                      ELSE Append(E.versions[d], Backfill!Version(E, h, d))]
        = [d \in Date |-> <<V1(P, R, d)>>]
  BY <1>1, <1>2
<1>5. [d \in Date |-> IF Backfill!SameValues(E, h, d) THEN E.current[d]
                      ELSE Len(E.versions[d]) + 1] = [d \in Date |-> 1]
  BY <1>1, <1>2
<1>6. Backfill!Written(E, h) =
        [E EXCEPT !.identity = [at |-> 1, run |-> P], !.captures = {[prices |-> P, at |-> 1]},
                  !.versions = [d \in Date |-> <<V1(P, R, d)>>], !.current = [d \in Date |-> 1]]
  BY <1>3, <1>4, <1>5 DEF Backfill!Written
<1> QED
  BY <1>6 DEF Backfill!EmptyMarket, M1

LEMMA TwoEntries ==
  ASSUME NEW x, NEW y
  PROVE  /\ Len(<<x, y>>) = 2 /\ DOMAIN <<x, y>> = {1, 2}
         /\ <<x, y>>[1] = x /\ <<x, y>>[2] = y
         /\ Append(<<x>>, y) = <<x, y>>
<1> DEFINE s == Append(<<x>>, y)
<1>1. <<x>> \in Seq({x, y}) /\ y \in {x, y}
  OBVIOUS
<1>2. s \in Seq({x, y}) /\ Len(s) = 2 /\ s[1] = x /\ s[2] = y
  BY <1>1, AppendProperties
<1>3. DOMAIN s = {1, 2}
  BY <1>2
<1> HIDE DEF s
<1>4. s = <<x, y>>
  BY <1>2, <1>3
<1> QED
  BY <1>4 DEF s

LEMMA WrittenSecond ==
  ASSUME NEW P \in [Date -> Price], NEW R, NEW Q, NEW S
  PROVE  Backfill!Written(M1(P, R), Named(Q, 2, S)) = M2(P, R, Q, S)
<1> DEFINE M == M1(P, R)
           c == Named(Q, 2, S)
<1>1. \A d \in Date : M.versions[d] = <<V1(P, R, d)>> /\ M.current[d] = 1
  BY DEF M1
<1>0. ASSUME NEW d \in Date
      PROVE  /\ Len(M.versions[d]) = 1 /\ Len(M.versions[d]) + 1 = 2
             /\ M.versions[d][1] = V1(P, R, d)
  <2>1. M.versions[d] = <<V1(P, R, d)>>
    BY <1>1
  <2> HIDE DEF M
  <2> QED
    BY <2>1
<1>2. \A d \in Date : Backfill!SameValues(M, c, d) <=> P[d] = Q[d]
  <2>1. \A d \in Date : Backfill!Bar(M, d) = V1(P, R, d) /\ M.current[d] # 0
    BY <1>0, <1>1 DEF Backfill!Bar
  <2> QED
    BY <2>1 DEF Backfill!SameValues, Named, V1
<1>3. \A d \in Date : Append(M.versions[d], Backfill!Version(M, c, d))
                        = <<V1(P, R, d), V2(Q, S, d)>>
  <2>1. \A d \in Date : Backfill!Version(M, c, d) = V2(Q, S, d)
    BY <1>1 DEF Backfill!Version, Named, V2
  <2>2. \A x, y : Append(<<x>>, y) = <<x, y>>
    BY TwoEntries
  <2> QED
    BY <1>1, <2>1, <2>2
<1>4. \A d \in Date : Len(M.versions[d]) + 1 = 2
  BY <1>0
<1>5. M.identity # None
  BY NoneAssumption DEF M1
<1>6. (IF M.identity = None THEN [at |-> c.at, run |-> c.prices] ELSE M.identity)
        = [at |-> 1, run |-> P]
  BY <1>5 DEF M1
<1>7. M.captures \cup {[prices |-> c.prices, at |-> c.at]}
        = {[prices |-> P, at |-> 1], [prices |-> Q, at |-> 2]}
  BY DEF M1, Named
<1>8. [d \in Date |-> IF Backfill!SameValues(M, c, d) THEN M.versions[d]
                      ELSE Append(M.versions[d], Backfill!Version(M, c, d))]
        = [d \in Date |-> IF P[d] = Q[d] THEN <<V1(P, R, d)>>
                          ELSE <<V1(P, R, d), V2(Q, S, d)>>]
  BY <1>1, <1>2, <1>3
<1>9. [d \in Date |-> IF Backfill!SameValues(M, c, d) THEN M.current[d]
                      ELSE Len(M.versions[d]) + 1]
        = [d \in Date |-> IF P[d] = Q[d] THEN 1 ELSE 2]
  BY <1>1, <1>2, <1>4
<1> DEFINE vs == [d \in Date |-> IF P[d] = Q[d] THEN <<V1(P, R, d)>>
                                 ELSE <<V1(P, R, d), V2(Q, S, d)>>]
           cs == [d \in Date |-> IF P[d] = Q[d] THEN 1 ELSE 2]
<1>10. Backfill!Written(M, c) =
         [M EXCEPT !.identity = [at |-> 1, run |-> P],
                   !.captures = {[prices |-> P, at |-> 1], [prices |-> Q, at |-> 2]},
                   !.versions = vs, !.current = cs]
  BY <1>6, <1>7, <1>8, <1>9 DEF Backfill!Written
<1> HIDE DEF vs, cs
<1>11. Backfill!Written(M, c) =
         [identity |-> [at |-> 1, run |-> P],
          captures |-> {[prices |-> P, at |-> 1], [prices |-> Q, at |-> 2]}, failed |-> {},
          versions |-> vs, current |-> cs]
  BY <1>10 DEF M1
<1> QED
  BY <1>11 DEF M2, vs, cs

(* The first market reads back, if each date has a row of its own.         *)
LEMMA FirstReconciles ==
  ASSUME NEW P \in [Date -> Price], NEW R, \A d, e \in Date : R[d] = R[e] => d = e
  PROVE  /\ Backfill!Reconciles(M1(P, R))
         /\ Backfill!CapturedPrices(M1(P, R)) = P
<1> DEFINE M == M1(P, R)
           k == [prices |-> P, at |-> 1]
<1>1. M.captures = {k} /\ M.identity = [at |-> 1, run |-> P]
  BY DEF M1
<1>2. \A d \in Date : M.versions[d] = <<V1(P, R, d)>> /\ M.current[d] = 1
  BY DEF M1
<1>0. ASSUME NEW d \in Date
      PROVE  /\ Len(M.versions[d]) = 1 /\ Len(M.versions[d]) + 1 = 2
             /\ M.versions[d][1] = V1(P, R, d)
  <2>1. M.versions[d] = <<V1(P, R, d)>>
    BY <1>2
  <2> HIDE DEF M
  <2> QED
    BY <2>1
<1>3. \A d \in Date : Backfill!Bar(M, d) = V1(P, R, d)
  BY <1>0, <1>2 DEF Backfill!Bar
<1>4. Backfill!BoundIdentity(M, k)
  BY <1>1, NoneAssumption DEF Backfill!BoundIdentity
<1>5. Backfill!PointsAtNewest(M)
  <2>1. ASSUME NEW d \in Date PROVE M.current[d] = Len(M.versions[d]) /\ M.current[d] # 0
    BY <1>0, <1>2
  <2> HIDE DEF M
  <2> QED
    BY <2>1 DEF Backfill!PointsAtNewest
<1>6. \A d \in Date : Backfill!Bound(M, V1(P, R, d))
  BY <1>1 DEF Backfill!Bound, V1
<1>7. ASSUME NEW d \in Date
      PROVE  /\ Backfill!Lineage(M.versions[d])
             /\ \A i \in DOMAIN M.versions[d] : Backfill!Bound(M, M.versions[d][i])
             /\ Backfill!Bar(M, d).price = k.prices[d]
  <2>1. DOMAIN <<V1(P, R, d)>> = {1} /\ <<V1(P, R, d)>>[1] = V1(P, R, d)
    OBVIOUS
  <2> QED
    BY <1>2, <1>3, <1>6, <2>1 DEF Backfill!Lineage, V1
<1>8. Backfill!Cardinality({Backfill!Bar(M, d).row : d \in Date}) = Backfill!Cardinality(Date)
  <2> DEFINE rows == {Backfill!Bar(M, d).row : d \in Date}
             f == [d \in Date |-> R[d]]
  <2>1. \A d \in Date : Backfill!Bar(M, d).row = R[d]
    BY <1>3 DEF V1
  <2>2. f \in Bijection(Date, rows)
    BY <2>1 DEF Bijection, Injection, IsInjective, Surjection
  <2>3. Cardinality(rows) = Cardinality(Date)
    BY <2>2, DateAssumption, FS_Bijection DEF ExistsBijection
  <2> QED
    BY <2>3, SameCardinality
<1>9. Backfill!CapturedPrices(M) = P
  <2> HIDE DEF M
  <2> DEFINE x == CHOOSE y \in M.captures : TRUE
  <2>1. Backfill!CapturedPrices(M) = x.prices
    BY DEF Backfill!CapturedPrices
  <2>2. x = k
    BY <1>1
  <2> HIDE DEF x
  <2> QED
    BY <2>1, <2>2
<1> HIDE DEF M
<1>10. Backfill!Reconciles(M)
  BY <1>1, <1>4, <1>5, <1>7, <1>8 DEF Backfill!Reconciles
<1> QED
  BY <1>9, <1>10 DEF M

(* The second market shows a correction, if it changes one date.           *)
LEMMA SecondCorrects ==
  ASSUME NEW P \in [Date -> Price], NEW R, NEW Q \in [Date -> Price], NEW S, NEW day \in Date,
         \A d \in Date : P[d] = Q[d] <=> d # day
  PROVE  Backfill!Corrects(M2(P, R, Q, S), P)
<1> DEFINE M == M2(P, R, Q, S)
           k == [prices |-> P, at |-> 1]
           n == [prices |-> Q, at |-> 2]
<1>1. M.captures = {k, n} /\ M.identity = [at |-> 1, run |-> P]
  BY DEF M2
<1>2. Q # P
  OBVIOUS
<1>3. \A d \in Date : /\ d # day => M.versions[d] = <<V1(P, R, d)>> /\ M.current[d] = 1
                      /\ d = day => /\ M.versions[d] = <<V1(P, R, d), V2(Q, S, d)>>
                                    /\ M.current[d] = 2
  BY DEF M2
<1>4. Backfill!BoundIdentity(M, k)
  BY <1>1, NoneAssumption DEF Backfill!BoundIdentity
<1>0. ASSUME NEW d \in Date
      PROVE  LET h == M.versions[d] IN
             /\ d # day => DOMAIN h = {1} /\ Len(h) = 1 /\ h[1] = V1(P, R, d)
             /\ d = day => /\ DOMAIN h = {1, 2} /\ Len(h) = 2
                           /\ h[1] = V1(P, R, d) /\ h[2] = V2(Q, S, d)
  <2>1. \/ d # day /\ M.versions[d] = <<V1(P, R, d)>>
        \/ d = day /\ M.versions[d] = <<V1(P, R, d), V2(Q, S, d)>>
    BY <1>3
  <2> HIDE DEF M
  <2> QED
    BY <2>1
<1>5. Backfill!PointsAtNewest(M)
  <2>1. ASSUME NEW d \in Date PROVE M.current[d] = Len(M.versions[d]) /\ M.current[d] # 0
    <3> HIDE DEF M
    <3>1. CASE d = day
      <4>1. M.current[d] = 2
        BY <1>3, <3>1
      <4>2. Len(M.versions[d]) = 2
        BY <1>0, <3>1
      <4> QED
        BY <4>1, <4>2
    <3>2. CASE d # day
      BY <1>0, <1>3, <3>2
    <3> QED
      BY <3>1, <3>2
  <2> HIDE DEF M
  <2> QED
    BY <2>1 DEF Backfill!PointsAtNewest
<1>6. \A d \in Date : Backfill!Bound(M, V1(P, R, d)) /\ Backfill!Bound(M, V2(Q, S, d))
  BY <1>1 DEF Backfill!Bound, V1, V2
<1>7. ASSUME NEW d \in Date
      PROVE  LET h == M.versions[d] IN
             /\ Backfill!Lineage(h)
             /\ \A i \in DOMAIN h : Backfill!Bound(M, h[i]) /\ h[i].price = h[i].capture[d]
             /\ Len(h) = IF d = day THEN 2 ELSE 1
             /\ h[1].capture = k.prices
             /\ d = day => h[2].capture = n.prices
  <2>1. CASE d # day
    <3>1. DOMAIN M.versions[d] = {1} /\ Len(M.versions[d]) = 1
          /\ M.versions[d][1] = V1(P, R, d)
      BY <1>0, <2>1
    <3> HIDE DEF M
    <3> QED
      BY <1>6, <2>1, <3>1 DEF Backfill!Lineage, V1
  <2>2. CASE d = day
    <3>1. DOMAIN M.versions[d] = {1, 2} /\ Len(M.versions[d]) = 2
          /\ M.versions[d][1] = V1(P, R, d) /\ M.versions[d][2] = V2(Q, S, d)
      BY <1>0, <2>2
    <3> HIDE DEF M
    <3> QED
      BY <1>6, <2>2, <3>1 DEF Backfill!Lineage, V1, V2
  <2> QED
    BY <2>1, <2>2
<1> HIDE DEF M
<1>8. k.prices = P /\ n.prices = Q /\ \A d \in Date : k.prices[d] = n.prices[d] <=> d # day
  OBVIOUS
<1>9. k \in M.captures /\ n \in M.captures
  BY <1>1
<1> HIDE DEF k, n
<1>10. Backfill!Corrects(M, P)
  BY <1>1, <1>2, <1>4, <1>5, <1>7, <1>8, <1>9 DEF Backfill!Corrects
<1> QED
  BY <1>10 DEF M

(* What a usable answer is made into.                                      *)
RowOf(r) == [d \in Date |-> Backfill!SourceRow(r, d)]

LEMMA CandidateIs ==
  ASSUME NEW r \in Answer, Backfill!Usable(r), NEW t
  PROVE  /\ Backfill!Candidate(r, t) = Named(Backfill!Prices(r), t, RowOf(r))
         /\ Backfill!Prices(r) \in [Date -> Price]
         /\ \A d, e \in Date : RowOf(r)[d] = RowOf(r)[e] => d = e
<1>1. ASSUME NEW d \in Date
      PROVE  r.rows[Backfill!SourceRow(r, d)].price \in Price
  <2> DEFINE D == [date : Date \cup {None}, price : Price, consistent : BOOLEAN]
             i == Backfill!SourceRow(r, d)
  <2>1. r.rows \in Seq(D) /\ i \in DOMAIN r.rows
    BY RowsOfDates DEF Answer
  <2> HIDE DEF D, i
  <2>2. r.rows[i] \in D
    BY <2>1, ElementOfSeq
  <2>3. r.rows[i].price \in Price
    BY <2>2 DEF D
  <2> QED
    BY <2>3 DEF i
<1>2. Backfill!Prices(r) \in [Date -> Price]
  BY <1>1 DEF Backfill!Prices
<1>3. ASSUME NEW d \in Date, NEW e \in Date, RowOf(r)[d] = RowOf(r)[e]
      PROVE  d = e
  BY <1>3, RowsOfDates DEF RowOf
<1>4. Backfill!Candidate(r, t) = Named(Backfill!Prices(r), t, RowOf(r))
  BY DEF Backfill!Candidate, Named, RowOf
<1> QED
  BY <1>2, <1>3, <1>4

(* A corrected answer is usable, and if its prices differ they differ in   *)
(* the date of its first row only.                                         *)
LEMMA CorrectedAnswer ==
  ASSUME NEW r \in Answer, Backfill!Usable(r), NEW p \in Price
  PROVE  LET q == Backfill!CorrectedResponse(r, p) IN
         /\ q \in Answer /\ Backfill!Usable(q)
         /\ Backfill!Prices(q) # Backfill!Prices(r) =>
              \E day \in Date : \A d \in Date :
                Backfill!Prices(r)[d] = Backfill!Prices(q)[d] <=> d # day
<1> DEFINE q == Backfill!CorrectedResponse(r, p)
           n == Len(r.rows)
           row == [r.rows[1] EXCEPT !.price = p]
           D == [date : Date \cup {None}, price : Price, consistent : BOOLEAN]
<1>1. n \in Nat /\ DOMAIN r.rows = 1 .. n /\ r.rows \in Seq(D)
  BY DEF Answer
<1>2. 1 \in 1 .. n
  <2>1. PICK d \in Date : TRUE
    BY DateAssumption
  <2>2. Backfill!SourceRow(r, d) \in 1 .. n
    BY <1>1, RowsOfDates
  <2> QED
    BY <1>1, <2>2
<1>3. row \in D /\ row.date = r.rows[1].date /\ row.price = p
      /\ row.consistent = r.rows[1].consistent
  <2> HIDE DEF D
  <2>1. r.rows[1] \in D
    BY <1>1, <1>2, ElementOfSeq
  <2> QED
    BY <2>1 DEF D
<1>4. q = [r EXCEPT !.rows = [r.rows EXCEPT ![1] = row]]
  BY DEF Backfill!CorrectedResponse
<1> HIDE DEF row, D
<1>5. q.rows = [r.rows EXCEPT ![1] = row] /\ q.status = r.status
      /\ q = [status |-> q.status, rows |-> q.rows]
  BY <1>4 DEF Answer
<1> HIDE DEF q
<1>6. q.rows \in Seq(D) /\ DOMAIN q.rows = 1 .. n /\ Len(q.rows) = n
  BY <1>1, <1>2, <1>3, <1>5, ExceptSeq
<1>7. q.rows[1] = row /\ \A i \in 1 .. n : i # 1 => q.rows[i] = r.rows[i]
  BY <1>1, <1>2, <1>5
<1>8. q \in Answer
  <2>1. q.status \in Nat
    BY <1>5 DEF Answer
  <2> QED
    BY <1>5, <1>6, <2>1 DEF Answer, D
<1>9. \A i \in 1 .. n : /\ q.rows[i].date = r.rows[i].date
                        /\ q.rows[i].consistent = r.rows[i].consistent
  BY <1>3, <1>7
<1>10. Backfill!Usable(q)
  <2>1. {q.rows[i].date : i \in 1 .. n} = {r.rows[i].date : i \in 1 .. n}
    BY <1>9
  <2> QED
    BY <1>1, <1>5, <1>6, <1>9, <2>1 DEF Backfill!Usable, Backfill!RowsComplete
<1>11. \A d \in Date : Backfill!SourceRow(q, d) = Backfill!SourceRow(r, d)
  <2> SUFFICES ASSUME NEW d \in Date
               PROVE  Backfill!SourceRow(q, d) = Backfill!SourceRow(r, d)
    OBVIOUS
  <2>1. /\ Backfill!SourceRow(q, d) \in 1 .. n
        /\ q.rows[Backfill!SourceRow(q, d)].date = d
    BY <1>6, <1>8, <1>10, RowsOfDates
  <2>2. /\ Backfill!SourceRow(r, d) \in 1 .. n
        /\ r.rows[Backfill!SourceRow(r, d)].date = d
    BY <1>1, RowsOfDates
  <2>3. r.rows[Backfill!SourceRow(q, d)].date = d
    BY <1>9, <2>1
  <2> QED
    BY <1>1, <2>1, <2>2, <2>3, RowsOfDates
<1>12. ASSUME Backfill!Prices(q) # Backfill!Prices(r)
       PROVE  \E day \in Date : \A d \in Date :
                Backfill!Prices(r)[d] = Backfill!Prices(q)[d] <=> d # day
  <2> DEFINE sr(d) == Backfill!SourceRow(r, d)
  <2>1. \A d \in Date : sr(d) \in 1 .. n
    BY <1>1, RowsOfDates
  <2>2. \A d \in Date : /\ Backfill!Prices(r)[d] = r.rows[sr(d)].price
                        /\ Backfill!Prices(q)[d] = q.rows[sr(d)].price
    BY <1>11 DEF Backfill!Prices
  <2>3. \A d \in Date : sr(d) # 1 => Backfill!Prices(q)[d] = Backfill!Prices(r)[d]
    BY <1>7, <2>1, <2>2
  <2>4. PICK day \in Date : Backfill!Prices(q)[day] # Backfill!Prices(r)[day]
    BY <1>12 DEF Backfill!Prices
  <2>5. sr(day) = 1
    BY <2>3, <2>4
  <2>6. \A d \in Date : d # day => sr(d) # 1
    BY <2>5, RowsOfDates
  <2> QED
    BY <2>3, <2>4, <2>6
<1> QED
  BY <1>8, <1>10, <1>12 DEF q

(* The steps of an attempt agree with what it has done.                    *)
LEMMA Agrees ==
  ASSUME BackfillInv
  PROVE  Backfill!StepsAgree
<1> SUFFICES ASSUME NEW a \in Attempt
             PROVE  /\ at[a].pc = "published" => Backfill!ReadsBack(a)
                    /\ at[a].pc = "reconciled" =>
                         Backfill!Replayed(target.in.stores, Backfill!Held(a))
                    /\ at[a].pc = "corrected" => Backfill!EvidenceAgrees(a)
                                                 /\ target.receipt = None
  BY DEF Backfill!StepsAgree, Backfill!In
<1>1. Owned(a) /\ Contents(a)
  BY DEF BackfillInv
<1> SUFFICES ASSUME at[a].pc \in Filled
             PROVE  /\ Backfill!ReadsBack(a)
                    /\ Backfill!Replayed(target.in.stores, Backfill!Held(a))
                    /\ at[a].pc = "corrected" => Backfill!EvidenceAgrees(a)
                                                 /\ target.receipt = None
  BY DEF Filled, BackedUp, Restored, Scratched, Rehearsed
<1> DEFINE r == at[a].response
           P == Backfill!Prices(r)
           R == RowOf(r)
<1>2. r \in Answer /\ Backfill!Usable(r)
  BY <1>1, ResponseAssumption DEF Owned, Owning
<1>3. /\ Backfill!Held(a) = Named(P, 1, R)
      /\ P \in [Date -> Price]
      /\ \A d, e \in Date : R[d] = R[e] => d = e
  BY <1>2, CandidateIs DEF Backfill!Held
<1>4. target.in.stores = M1(P, R) /\ First(r) = M1(P, R)
  BY <1>1, <1>3, WrittenFirst DEF Contents, First, Backfill!Held
<1>5. Backfill!Held(a).prices = P
  BY <1>3 DEF Named
<1> HIDE DEF P, R
<1>6. Backfill!CapturedPrices(M1(P, R)) = P /\ Backfill!Reconciles(M1(P, R))
  BY <1>3, FirstReconciles
<1>7. Backfill!ReadsBack(a)
  BY <1>4, <1>5, <1>6 DEF Backfill!ReadsBack
<1>8. Backfill!Replayed(target.in.stores, Backfill!Held(a))
  <2>1. [prices |-> P, at |-> 1] \in target.in.stores.captures
    BY <1>4 DEF M1
  <2> QED
    BY <1>5, <2>1 DEF Backfill!Replayed
<1>9. ASSUME at[a].pc = "corrected"
      PROVE  Backfill!EvidenceAgrees(a) /\ target.receipt = None
  <2>1. target.receipt = None /\ target.in.restored = target.in.stores
    BY <1>1, <1>4, <1>9
       DEF Owned, Contents, Owning, Filled, BackedUp, Restored, Scratched, Rehearsed
  <2>2. PICK p \in Price :
          Correction(r, p).prices # P /\ target.in.rehearsal = Rehearsal(r, p)
    BY <1>1, <1>9 DEF Contents, P
  <2> DEFINE q == Backfill!CorrectedResponse(r, p)
             Q == Backfill!Prices(q)
             S == RowOf(q)
  <2>3. q \in Answer /\ Backfill!Usable(q)
    BY <1>2, CorrectedAnswer
  <2>4. Correction(r, p) = Named(Q, 2, S) /\ Q \in [Date -> Price]
    BY <2>3, CandidateIs DEF Correction
  <2>5. Q # P
    BY <2>2, <2>4 DEF Named
  <2>6. PICK day \in Date : \A d \in Date : P[d] = Q[d] <=> d # day
    BY <1>2, <2>5, CorrectedAnswer DEF P
  <2> HIDE DEF q, Q, S
  <2>7. target.in.rehearsal = M2(P, R, Q, S)
    BY <1>3, <1>4, <2>2, <2>4, WrittenSecond DEF Rehearsal
  <2>8. Backfill!Corrects(target.in.rehearsal, P)
    BY <1>3, <2>4, <2>6, <2>7, SecondCorrects
  <2> QED
    BY <1>4, <1>6, <1>7, <2>1, <2>8 DEF Backfill!EvidenceAgrees
<1> QED
  BY <1>7, <1>8, <1>9

AttemptPc == {"start", "checked", "fetched", "done", "stopped", "conflict"} \cup Owning

LEMMA Goes ==
  ASSUME AttemptsTyped, NEW b \in Attempt, NEW pc \in AttemptPc, Backfill!Go(b, pc)
  PROVE  /\ at' \in [Attempt -> [pc : AttemptPc, response : Response \cup {None}]]
         /\ at'[b].pc = pc /\ at'[b].response = at[b].response
         /\ \A a \in Attempt \ {b} : at'[a] = at[a]
<1>1. at \in [Attempt -> [pc : AttemptPc, response : Response \cup {None}]]
  BY DEF AttemptsTyped, AttemptPc
<1> HIDE DEF AttemptPc
<1>2. at' = [at EXCEPT ![b] = [at[b] EXCEPT !.pc = pc]]
  BY <1>1 DEF Backfill!Go
<1>3. [at[b] EXCEPT !.pc = pc] \in [pc : AttemptPc, response : Response \cup {None}]
  BY <1>1
<1>4. at'[b] = [at[b] EXCEPT !.pc = pc]
  BY <1>1, <1>2
<1>5. at' \in [Attempt -> [pc : AttemptPc, response : Response \cup {None}]]
  BY <1>1, <1>2, <1>3
<1>6. at'[b].pc = pc /\ at'[b].response = at[b].response
  BY <1>1, <1>4
<1> QED
  BY <1>1, <1>2, <1>5, <1>6

LEMMA BackfillInit == Backfill!Init => BackfillInv
<1> SUFFICES ASSUME Backfill!Init PROVE BackfillInv
  OBVIOUS
<1>1. /\ target = [by |-> None, receipt |-> None, in |-> Backfill!NoStores]
      /\ at = [a \in Attempt |-> [pc |-> "start", response |-> None]]
  BY DEF Backfill!Init
<1>2. AttemptsTyped
  BY <1>1 DEF AttemptsTyped, Backfill!NoStores
<1>3. ASSUME NEW a \in Attempt PROVE Owned(a) /\ Contents(a)
  <2>1. at[a].pc = "start"
    BY <1>1
  <2> QED
    BY <2>1
       DEF Owned, Contents, Owning, Filled, BackedUp, Restored, Scratched, Rehearsed
<1>4. target.receipt = None
  BY <1>1
<1> QED
  BY <1>2, <1>3, <1>4 DEF BackfillInv, Backfill!ReceiptStands

(* What a step that fills one of the stores of the root does.              *)
StoreName == {"stores", "backup", "restored", "rehearsal"}

FillsOne(b, from, to, name, m) ==
  /\ at[b].pc = from /\ Backfill!Go(b, to)
  /\ target'.in.stores = IF name = "stores" THEN m ELSE target.in.stores
  /\ target'.in.backup = IF name = "backup" THEN m ELSE target.in.backup
  /\ target'.in.restored = IF name = "restored" THEN m ELSE target.in.restored
  /\ target'.in.rehearsal = IF name = "rehearsal" THEN m ELSE target.in.rehearsal
  /\ target'.by = target.by /\ target'.receipt = target.receipt
  /\ target' = [by |-> target'.by, receipt |-> target'.receipt,
                in |-> [stores |-> target'.in.stores, backup |-> target'.in.backup,
                        restored |-> target'.in.restored, rehearsal |-> target'.in.rehearsal]]

LEMMA FillSet ==
  ASSUME AttemptsTyped, NEW b \in Attempt, NEW from, NEW to, NEW m, NEW name \in StoreName,
         Backfill!Fill(b, from, to, name, m)
  PROVE  FillsOne(b, from, to, name, m)
  BY DEF Backfill!Fill, Backfill!In, AttemptsTyped, FillsOne, StoreName

LEMMA FillKeeps ==
  ASSUME BackfillInv, NEW b \in Attempt, NEW from \in Owning, NEW to \in Owning, NEW m,
         NEW name \in StoreName, Backfill!Fill(b, from, to, name, m)
  PROVE  /\ AttemptsTyped' /\ Owned(b)' /\ Backfill!ReceiptStands'
         /\ target'.by = target.by /\ target.by = b
         /\ at'[b].pc = to /\ at'[b].response = at[b].response
         /\ \A a \in Attempt \ {b} : at'[a] = at[a]
         /\ FillsOne(b, from, to, name, m)
<1>1. to \in AttemptPc
  BY DEF AttemptPc
<1>2. AttemptsTyped /\ Owned(b)
  BY DEF BackfillInv
<1>3. /\ at[b].pc = from /\ Backfill!Go(b, to) /\ FillsOne(b, from, to, name, m)
      /\ target'.by = target.by /\ target'.receipt = target.receipt
      /\ target' = [by |-> target'.by, receipt |-> target'.receipt,
                    in |-> [stores |-> target'.in.stores, backup |-> target'.in.backup,
                            restored |-> target'.in.restored,
                            rehearsal |-> target'.in.rehearsal]]
  BY <1>2, FillSet DEF FillsOne
<1>4. /\ at' \in [Attempt -> [pc : AttemptPc, response : Response \cup {None}]]
      /\ at'[b].pc = to /\ at'[b].response = at[b].response
      /\ \A a \in Attempt \ {b} : at'[a] = at[a]
  BY <1>1, <1>2, <1>3, Goes
<1>5. target.by = b /\ target.receipt = None
      /\ at[b].response \in Response /\ Backfill!Usable(at[b].response)
  BY <1>2, <1>3 DEF Owned
<1>6. AttemptsTyped'
  BY <1>3, <1>4 DEF AttemptsTyped, AttemptPc
<1>7. Owned(b)'
  BY <1>3, <1>4, <1>5 DEF Owned
<1>8. Backfill!ReceiptStands'
  BY <1>3, <1>5 DEF Backfill!ReceiptStands
<1> QED
  BY <1>3, <1>4, <1>5, <1>6, <1>7, <1>8

(* The other attempts keep what they have.                                 *)
LEMMA OthersKept ==
  ASSUME BackfillInv, NEW b \in Attempt, NEW a \in Attempt \ {b}, at'[a] = at[a],
         UNCHANGED target \/ at[b].pc \in Owning \/ target.by = None
  PROVE  Owned(a)' /\ Contents(a)'
<1>1. Owned(a) /\ Contents(a) /\ Owned(b)
  BY DEF BackfillInv
<1>2. at[a].pc \in Owning => UNCHANGED target
  BY <1>1, NoneAssumption DEF Owned
<1>3. Owned(a)'
  BY <1>1, <1>2 DEF Owned
<1>6. CASE at[a].pc \in Owning
  BY <1>1, <1>2, <1>3, <1>6 DEF Contents
<1>7. CASE at[a].pc \notin Owning
  BY <1>3, <1>7 DEF Contents, Owning, Filled, BackedUp, Restored, Scratched, Rehearsed
<1> QED
  BY <1>3, <1>6, <1>7

(* A step that leaves the root alone.                                      *)
LEMMA LooksOnly ==
  ASSUME BackfillInv, NEW b \in Attempt, UNCHANGED target,
         NEW pc \in AttemptPc, Backfill!Go(b, pc),
         \/ pc \in {"checked", "done", "stopped", "conflict"}
         \/ at[b].pc = "published" /\ pc = "reconciled"
         \/ at[b].pc = "reconciled" /\ pc = "replayed"
  PROVE  BackfillInv'
<1>1. AttemptsTyped /\ Owned(b) /\ Contents(b)
  BY DEF BackfillInv
<1>2. /\ at' \in [Attempt -> [pc : AttemptPc, response : Response \cup {None}]]
      /\ at'[b].pc = pc /\ at'[b].response = at[b].response
      /\ \A a \in Attempt \ {b} : at'[a] = at[a]
  BY <1>1, Goes
<1>3. AttemptsTyped'
  BY <1>1, <1>2 DEF AttemptsTyped, AttemptPc
<1>4. Owned(b)' /\ Contents(b)'
  <2>1. CASE pc \in {"checked", "done", "stopped", "conflict"}
    BY <1>2, <2>1
       DEF Owned, Contents, Owning, Filled, BackedUp, Restored, Scratched, Rehearsed
  <2>2. CASE at[b].pc \in {"published", "reconciled"} /\ pc \in {"reconciled", "replayed"}
    <3>1. Owned(b)'
      BY <1>1, <1>2, <2>2 DEF Owned, Owning, Filled
    <3>2. Contents(b)'
      BY <1>1, <1>2, <2>2 DEF Contents, Filled, BackedUp, Restored, Scratched, Rehearsed
    <3> QED
      BY <3>1, <3>2
  <2> QED
    BY <2>1, <2>2
<1>5. ASSUME NEW a \in Attempt PROVE Owned(a)' /\ Contents(a)'
  BY <1>2, <1>4, OthersKept
<1> QED
  BY <1>3, <1>5 DEF BackfillInv, Backfill!ReceiptStands

LEMMA FetchKeeps ==
  ASSUME BackfillInv, NEW b \in Attempt, Backfill!Fetch(b)
  PROVE  BackfillInv'
<1>1. at \in [Attempt -> [pc : AttemptPc, response : Response \cup {None}]] /\ AttemptsTyped
  BY DEF BackfillInv, AttemptsTyped, AttemptPc
<1>2. PICK r \in Response :
        at' = [at EXCEPT ![b] = IF Backfill!Usable(r) THEN [pc |-> "fetched", response |-> r]
                                ELSE [pc |-> "stopped", response |-> None]]
  BY DEF Backfill!Fetch
<1>3. /\ at' \in [Attempt -> [pc : AttemptPc, response : Response \cup {None}]]
      /\ \A a \in Attempt \ {b} : at'[a] = at[a]
  BY <1>1, <1>2 DEF AttemptPc
<1>4. UNCHANGED target
  BY DEF Backfill!Fetch
<1>5. Owned(b)' /\ Contents(b)'
  <2>1. \/ Backfill!Usable(r) /\ at'[b].pc = "fetched" /\ at'[b].response = r
        \/ at'[b].pc = "stopped"
    BY <1>1, <1>2
  <2> QED
    BY <2>1 DEF Owned, Contents, Owning, Filled, BackedUp, Restored, Scratched, Rehearsed
<1>6. ASSUME NEW a \in Attempt PROVE Owned(a)' /\ Contents(a)'
  BY <1>3, <1>4, <1>5, OthersKept
<1>7. AttemptsTyped'
  BY <1>1, <1>3, <1>4 DEF AttemptsTyped, AttemptPc
<1> QED
  BY <1>4, <1>6, <1>7 DEF BackfillInv, Backfill!ReceiptStands

LEMMA LayoutKeeps ==
  ASSUME BackfillInv, NEW b \in Attempt, Backfill!Layout(b)
  PROVE  BackfillInv'
<1>1. CASE ~ Backfill!LaysOut(b)
  BY <1>1, LooksOnly DEF Backfill!Layout, AttemptPc
<1>2. CASE Backfill!LaysOut(b)
  <2>1. /\ Backfill!Go(b, "laid") /\ target' = [target EXCEPT !.by = b]
        /\ target.by = None /\ at[b].pc = "fetched"
    BY <1>2 DEF Backfill!Layout, Backfill!LaysOut, Backfill!In
  <2>2. AttemptsTyped /\ Owned(b) /\ target.receipt = None
    BY <2>1 DEF BackfillInv
  <2>3. /\ at' \in [Attempt -> [pc : AttemptPc, response : Response \cup {None}]]
        /\ at'[b].pc = "laid" /\ at'[b].response = at[b].response
        /\ \A a \in Attempt \ {b} : at'[a] = at[a]
    BY <2>1, <2>2, Goes DEF AttemptPc, Owning
  <2>4. target'.by = b /\ target'.receipt = None
        /\ target' = [by |-> target'.by, receipt |-> target'.receipt,
                      in |-> [stores |-> target'.in.stores, backup |-> target'.in.backup,
                              restored |-> target'.in.restored,
                              rehearsal |-> target'.in.rehearsal]]
    BY <2>1, <2>2 DEF AttemptsTyped
  <2>5. AttemptsTyped'
    BY <2>3, <2>4 DEF AttemptsTyped, AttemptPc
  <2>6. Owned(b)' /\ Contents(b)'
    <3>1. Owned(b)'
      BY <2>1, <2>2, <2>3, <2>4 DEF Owned
    <3>2. Contents(b)'
      BY <2>3 DEF Contents, Filled, BackedUp, Restored, Scratched, Rehearsed
    <3> QED
      BY <3>1, <3>2
  <2>7. ASSUME NEW a \in Attempt PROVE Owned(a)' /\ Contents(a)'
    BY <2>1, <2>3, <2>6, OthersKept
  <2> QED
    BY <2>4, <2>5, <2>7 DEF BackfillInv, Backfill!ReceiptStands
<1> QED
  BY <1>1, <1>2

(* A step that fills a store, with what it says of its own contents.       *)
LEMMA FillInv ==
  ASSUME BackfillInv, NEW b \in Attempt, NEW from \in Owning, NEW to \in Owning, NEW m,
         NEW name \in StoreName, Backfill!Fill(b, from, to, name, m), Contents(b)'
  PROVE  BackfillInv'
<1>1. /\ AttemptsTyped' /\ Owned(b)' /\ Backfill!ReceiptStands'
      /\ target'.by = b /\ at[b].pc \in Owning
      /\ \A a \in Attempt \ {b} : at'[a] = at[a]
  BY FillKeeps DEF Backfill!Fill, Backfill!In
<1>2. ASSUME NEW a \in Attempt PROVE Owned(a)' /\ Contents(a)'
  BY <1>1, OthersKept
<1> QED
  BY <1>1, <1>2, NoneAssumption DEF BackfillInv

LEMMA FillsKeep ==
  ASSUME BackfillInv, NEW b \in Attempt,
         \/ Backfill!Initialize(b) \/ Backfill!Publish(b) \/ Backfill!BackUp(b)
         \/ Backfill!Restore(b) \/ Backfill!RestoreScratch(b) \/ Backfill!Correct(b)
  PROVE  BackfillInv'
<1> DEFINE r == at[b].response
           in == target.in
<1>0. Contents(b)
  BY DEF BackfillInv
<1>7. /\ "laid" \in Owning /\ "ready" \in Owning /\ "published" \in Owning
      /\ "replayed" \in Owning /\ "backed up" \in Owning /\ "restored" \in Owning
      /\ "scratch" \in Owning /\ "corrected" \in Owning
      /\ "stores" \in StoreName /\ "backup" \in StoreName
      /\ "restored" \in StoreName /\ "rehearsal" \in StoreName
  BY DEF Owning, Filled, BackedUp, Restored, Scratched, Rehearsed, StoreName
<1>1. CASE Backfill!Initialize(b)
  <2>1. Backfill!Fill(b, "laid", "ready", "stores", Backfill!EmptyMarket)
    BY <1>1 DEF Backfill!Initialize
  <2>0. /\ at'[b].pc = "ready" /\ at'[b].response = r
        /\ FillsOne(b, "laid", "ready", "stores", Backfill!EmptyMarket)
    BY <1>7, <2>1, FillKeeps
  <2>2. at'[b].pc = "ready" /\ target'.in.stores = Backfill!EmptyMarket
    BY <2>0 DEF FillsOne
  <2>3. Contents(b)'
    BY <2>2 DEF Contents, Filled, BackedUp, Restored, Scratched, Rehearsed
  <2> QED
    BY <2>1, <2>3, <1>7, FillInv
<1>2. CASE Backfill!Publish(b)
  <2> DEFINE m == Backfill!Written(in.stores, Backfill!Held(b))
  <2>1. Backfill!Fill(b, "ready", "published", "stores", m)
    BY <1>2 DEF Backfill!Publish
  <2>2. m = First(r)
    BY <1>0, <2>1 DEF Contents, Filled, BackedUp, Restored, Scratched, Rehearsed, First, Backfill!Held, Backfill!Fill, Backfill!In
  <2> HIDE DEF m
  <2>0. /\ at'[b].pc = "published" /\ at'[b].response = r
        /\ FillsOne(b, "ready", "published", "stores", m)
    BY <1>7, <2>1, FillKeeps
  <2>3. /\ at'[b].pc = "published" /\ at'[b].response = r
        /\ target'.in.stores = m
    BY <2>0 DEF FillsOne
  <2>4. Contents(b)'
    BY <2>2, <2>3 DEF Contents, Filled, BackedUp, Restored, Scratched, Rehearsed
  <2> QED
    BY <2>1, <2>4, <1>7, FillInv
<1>3. CASE Backfill!BackUp(b)
  <2>1. Backfill!Fill(b, "replayed", "backed up", "backup", in.stores)
    BY <1>3 DEF Backfill!BackUp
  <2>2. at[b].pc = "replayed"
    BY <2>1 DEF Backfill!Fill, Backfill!In
  <2>0. /\ at'[b].pc = "backed up" /\ at'[b].response = r
        /\ FillsOne(b, "replayed", "backed up", "backup", in.stores)
    BY <1>7, <2>1, FillKeeps
  <2>3. /\ at'[b].pc = "backed up" /\ at'[b].response = r
        /\ target'.in.backup = in.stores /\ target'.in.stores = in.stores
    BY <2>0 DEF FillsOne
  <2>4. Contents(b)'
    BY <1>0, <2>2, <2>3 DEF Contents, Filled, BackedUp, Restored, Scratched, Rehearsed
  <2> QED
    BY <2>1, <2>4, <1>7, FillInv
<1>4. CASE Backfill!Restore(b)
  <2>1. Backfill!Fill(b, "backed up", "restored", "restored", in.backup)
    BY <1>4 DEF Backfill!Restore
  <2>2. at[b].pc = "backed up"
    BY <2>1 DEF Backfill!Fill, Backfill!In
  <2>0. /\ at'[b].pc = "restored" /\ at'[b].response = r
        /\ FillsOne(b, "backed up", "restored", "restored", in.backup)
    BY <1>7, <2>1, FillKeeps
  <2>3. /\ at'[b].pc = "restored" /\ at'[b].response = r
        /\ target'.in.restored = in.backup
        /\ target'.in.backup = in.backup /\ target'.in.stores = in.stores
    BY <2>0 DEF FillsOne
  <2>4. Contents(b)'
    BY <1>0, <2>2, <2>3 DEF Contents, Filled, BackedUp, Restored, Scratched, Rehearsed
  <2> QED
    BY <2>1, <2>4, <1>7, FillInv
<1>5. CASE Backfill!RestoreScratch(b)
  <2>1. Backfill!Fill(b, "restored", "scratch", "rehearsal", in.backup)
    BY <1>5 DEF Backfill!RestoreScratch
  <2>2. at[b].pc = "restored"
    BY <2>1 DEF Backfill!Fill, Backfill!In
  <2>0. /\ at'[b].pc = "scratch" /\ at'[b].response = r
        /\ FillsOne(b, "restored", "scratch", "rehearsal", in.backup)
    BY <1>7, <2>1, FillKeeps
  <2>3. /\ at'[b].pc = "scratch" /\ at'[b].response = r
        /\ target'.in.rehearsal = in.backup /\ target'.in.restored = in.restored
        /\ target'.in.backup = in.backup /\ target'.in.stores = in.stores
    BY <2>0 DEF FillsOne
  <2>4. Contents(b)'
    BY <1>0, <2>2, <2>3 DEF Contents, Filled, BackedUp, Restored, Scratched, Rehearsed
  <2> QED
    BY <2>1, <2>4, <1>7, FillInv
<1>6. CASE Backfill!Correct(b)
  <2>1. PICK p \in Price :
          /\ Correction(r, p).prices # Backfill!Held(b).prices
          /\ Backfill!Fill(b, "scratch", "corrected", "rehearsal",
                           Backfill!Written(in.rehearsal, Correction(r, p)))
    BY <1>6 DEF Backfill!Correct, Backfill!Scratch, Correction
  <2>2. at[b].pc = "scratch"
    BY <2>1 DEF Backfill!Fill, Backfill!In
  <2>3. Backfill!Written(in.rehearsal, Correction(r, p)) = Rehearsal(r, p)
    BY <1>0, <2>2 DEF Contents, Filled, BackedUp, Restored, Scratched, Rehearsed, Rehearsal
  <2>4. Correction(r, p).prices # Backfill!Prices(r)
    BY <2>1 DEF Backfill!Held, Backfill!Candidate
  <2>5. Backfill!Fill(b, "scratch", "corrected", "rehearsal", Rehearsal(r, p))
    BY <2>1, <2>3
  <2>0. /\ at'[b].pc = "corrected" /\ at'[b].response = r
        /\ FillsOne(b, "scratch", "corrected", "rehearsal", Rehearsal(r, p))
    BY <1>7, <2>5, FillKeeps
  <2>6. /\ at'[b].pc = "corrected" /\ at'[b].response = r
        /\ target'.in.rehearsal = Rehearsal(r, p) /\ target'.in.restored = in.restored
        /\ target'.in.backup = in.backup /\ target'.in.stores = in.stores
    BY <2>0 DEF FillsOne
  <2>7. Contents(b)'
    BY <1>0, <2>2, <2>4, <2>6 DEF Contents, Filled, BackedUp, Restored, Scratched, Rehearsed
  <2> QED
    BY <2>5, <2>7, <1>7, FillInv
<1> QED
  BY <1>1, <1>2, <1>3, <1>4, <1>5, <1>6

LEMMA ReceiptKeeps ==
  ASSUME BackfillInv, NEW b \in Attempt, Backfill!PublishReceipt(b)
  PROVE  BackfillInv'
<1>1. /\ at[b].pc = "corrected" /\ Backfill!Go(b, "done")
      /\ target' = [target EXCEPT !.receipt = [by |-> b, in |-> target.in]]
  BY DEF Backfill!PublishReceipt, Backfill!In
<1>2. AttemptsTyped /\ Owned(b)
  BY DEF BackfillInv
<1>3. at[b].pc \in Owning /\ target.by = b
  BY <1>1, <1>2 DEF Owned, Owning, Filled, BackedUp, Restored, Scratched, Rehearsed
<1>4. /\ at' \in [Attempt -> [pc : AttemptPc, response : Response \cup {None}]]
      /\ at'[b].pc = "done" /\ at'[b].response = at[b].response
      /\ \A a \in Attempt \ {b} : at'[a] = at[a]
  BY <1>1, <1>2, Goes DEF AttemptPc
<1>5. /\ target'.by = b /\ target'.in = target.in
      /\ target'.receipt = [by |-> b, in |-> target.in]
      /\ target' = [by |-> target'.by, receipt |-> target'.receipt,
                    in |-> [stores |-> target'.in.stores, backup |-> target'.in.backup,
                            restored |-> target'.in.restored,
                            rehearsal |-> target'.in.rehearsal]]
  BY <1>1, <1>2, <1>3 DEF AttemptsTyped
<1>6. AttemptsTyped'
  BY <1>4, <1>5 DEF AttemptsTyped, AttemptPc
<1>7. Owned(b)' /\ Contents(b)'
  BY <1>4 DEF Owned, Contents, Owning, Filled, BackedUp, Restored, Scratched, Rehearsed
<1>8. ASSUME NEW a \in Attempt PROVE Owned(a)' /\ Contents(a)'
  BY <1>3, <1>4, <1>7, OthersKept
<1>9. Backfill!ReceiptStands'
  BY <1>5 DEF Backfill!ReceiptStands
<1> QED
  BY <1>5, <1>6, <1>8, <1>9, NoneAssumption DEF BackfillInv

LEMMA BackfillStepKeeps ==
  ASSUME BackfillInv, Backfill!Next \/ UNCHANGED <<target, at>>
  PROVE  BackfillInv'
<1>1. CASE UNCHANGED <<target, at>>
  <2>1. ASSUME NEW a \in Attempt PROVE Owned(a)' /\ Contents(a)'
    BY <1>1 DEF BackfillInv, Owned, Contents
  <2> QED
    BY <1>1, <2>1 DEF BackfillInv, AttemptsTyped, Backfill!ReceiptStands
<1>2. ASSUME NEW b \in Attempt, Backfill!Step(b) \/ Backfill!Stop(b)
      PROVE  BackfillInv'
  <2>1. CASE Backfill!Preflight(b)
    BY <2>1, LooksOnly DEF Backfill!Preflight, AttemptPc
  <2>2. CASE Backfill!Reconcile(b)
    BY <2>2, LooksOnly DEF Backfill!Reconcile, Backfill!In, AttemptPc, Owning, Filled
  <2>3. CASE Backfill!Replay(b)
    BY <2>3, LooksOnly DEF Backfill!Replay, Backfill!In, AttemptPc, Owning, Filled
  <2>4. CASE Backfill!Stop(b)
    BY <2>4, LooksOnly DEF Backfill!Stop, AttemptPc
  <2> QED
    BY <1>2, <2>1, <2>2, <2>3, <2>4, FetchKeeps, LayoutKeeps, FillsKeep, ReceiptKeeps
       DEF Backfill!Step
<1> QED
  BY <1>1, <1>2 DEF Backfill!Next

-----------------------------------------------------------------------------
IInv == CopiesInv /\ BackfillInv

THEOREM IInvHolds == OperationsSpec => []IInv
<1>1. OperationsInit => IInv
  BY CopiesInit, BackfillInit DEF OperationsInit, IInv
<1>2. ASSUME IInv, [OperationsNext]_operationVars
      PROVE  IInv'
  <2>1. [Next]_vars
    BY <1>2 DEF OperationsNext, CopiesStep, BackfillStep, operationVars
  <2>2. Backfill!Next \/ UNCHANGED <<target, at>>
    BY <1>2 DEF OperationsNext, CopiesStep, BackfillStep, operationVars
  <2> QED
    BY <1>2, <2>1, <2>2, CopiesStepKeeps, BackfillStepKeeps DEF IInv
<1> QED
  BY <1>1, <1>2, PTL DEF OperationsSpec

(* A call that reads the operational stores never finds at the end that     *)
(* they changed under it: every writer takes the lock the call holds.       *)
THEOREM LiveHoldsStillHolds == OperationsSpec => []LiveHoldsStill
<1>1. IInv => LiveHoldsStill
  BY DEF IInv, CopiesInv
<1> QED
  BY <1>1, IInvHolds, PTL

(* The stores a finished export left behind rest on a checkpoint for good:  *)
(* they are the ones it read under the locks, since no other call can have  *)
(* copied into its target and no writer reaches it.                        *)
THEOREM ExportRestsOnCheckpointHolds == OperationsSpec => []ExportRestsOnCheckpoint
<1>1. ASSUME CopiesInv, NEW o \in Op, op[o].pc = "done", op[o].kind = "export", NEW r \in Role
      PROVE  Checkpointed(disk[op[o].dst][r].ledger)
  <2>1. PICK i \in DOMAIN RoleSeq : r = RoleSeq[i]
    BY DEF Role
  <2>2. i < op[o].next
    BY <1>1, RoleAssumption DEF CopiesInv, CallsOK, Counted
  <2>3. disk[op[o].dst][r] = op[o].seen[r]
    BY <1>1, <2>1, <2>2 DEF CopiesInv, CallsOK, Copied
  <2> QED
    BY <1>1, <2>3 DEF CopiesInv, CallsOK, Read, Informed
<1>2. IInv => ExportRestsOnCheckpoint
  BY <1>1 DEF IInv, ExportRestsOnCheckpoint, Checkpointed
<1> QED
  BY <1>2, IInvHolds, PTL

(* Whatever failures a source's ledger holds, one complete publication      *)
(* later than everything recorded lets an export pass again.                *)
THEOREM SuccessReopensExportHolds == OperationsSpec => []SuccessReopensExport
<1>1. ASSUME CopiesInv, NEW r \in Role
      PROVE  disk[Live][r].ledger \in Ledger
  BY <1>1 DEF CopiesInv, WritableHeld, Writable, File
<1>2. ASSUME NEW l \in Ledger, NEW t \in {1 + x : x \in {q.at : q \in Rows(l)} \cup l.failures}
      PROVE  t \in Nat
  <2>1. Rows(l) \subseteq RunRow
    BY DEF Ledger, Rows
  <2>2. {q.at : q \in Rows(l)} \cup l.failures \subseteq Nat
    BY <2>1 DEF Ledger, RunRow
  <2>3. PICK x \in {q.at : q \in Rows(l)} \cup l.failures : t = 1 + x
    OBVIOUS
  <2> QED
    BY <2>2, <2>3
<1>3. IInv => SuccessReopensExport
  BY <1>1, <1>2, LatestIsAccepted DEF IInv, SuccessReopensExport
<1> QED
  BY <1>3, IInvHolds, PTL

(* No call writes over a file it finds in its target.                      *)
THEOREM NothingOverwrittenHolds == OperationsSpec => NothingOverwritten
<1> DEFINE A == \A o \in Op, r \in Role :
                  op[o] # op'[o] => LET f == disk[op[o].dst][r] IN
                                    f # Absent => disk'[op[o].dst][r] = f
<1>1. ASSUME CopiesInv, [Next]_vars
      PROVE  A \/ UNCHANGED vars
  <2>1. CASE Write \/ Damage
    BY <1>1, <2>1, OutsideSteps DEF Outside, CopiesInv
  <2>2. ASSUME NEW o \in Op, Step(o)
        PROVE  A
    <3>1. CASE Quiet(o)
      BY <3>1, QuietSteps
    <3>2. CASE Copy(o) \/ CopyBreaks(o)
      <4>1. PICK role \in Role : Fills(o, role)
        BY <1>1, <3>2, FillSteps DEF CopiesInv
      <4>2. \A p \in Op : op[p].dst \in Root
        BY <1>1 DEF CopiesInv, Typed, Call
      <4> QED
        BY <1>1, <4>1, <4>2 DEF Fills, CopiesInv, Typed
    <3> QED
      BY <2>2, <3>1, <3>2, Steps
  <2> QED
    BY <1>1, <2>1, <2>2 DEF Next
<1>2. IInv /\ [OperationsNext]_operationVars => [A]_vars
  BY <1>1 DEF IInv, OperationsNext, CopiesStep, BackfillStep, operationVars
<1> QED
  BY <1>2, IInvHolds, PTL DEF OperationsSpec, NothingOverwritten

(* A restore that returns has put in place what the backup held when its    *)
(* cohort was returned.                                                     *)
THEOREM RestoreIsTheBackupHolds == OperationsSpec => RestoreIsTheBackup
<1> DEFINE A == \A o \in Op : Ended(o) /\ op[o].kind = "restore" =>
                  Logical(disk[op[o].dst]) = op[o].cohort.logical
<1>1. ASSUME CopiesInv, Next, NEW o \in Op, Ended(o), op[o].kind = "restore"
      PROVE  Logical(disk[op[o].dst]) = op[o].cohort.logical
  <2>1. Step(o)
    <3>1. op'[o] # op[o]
      BY <1>1 DEF Ended
    <3> QED
      BY <1>1, <3>1, OutsideSteps, CallSteps DEF Next, Outside, CopiesInv
  <2>2. Typed
    BY <1>1 DEF CopiesInv
  <2>3. ASSUME NEW why, Stop(o, why) PROVE FALSE
    BY <1>1, <2>2, <2>3, StopBecomes DEF Becomes, Ended
  <2>4. ASSUME NEW pc, pc # "done", Move(o, pc) PROVE FALSE
    BY <1>1, <2>2, <2>4, MoveBecomes DEF Becomes, Ended
  <2>5. ~ (BeginBackup(o) \/ BeginRestore(o))
    BY <1>1, <2>2, BeginBegins DEF Begins, Ended
  <2>6. ~ (Evidence(o) \/ Copy(o) \/ CopyBreaks(o))
    BY <1>1, <2>2, EvidenceBecomes, CopyBecomes, BreakBecomes DEF Becomes, Ended
  <2>7. Finish(o)
    BY <2>1, <2>3, <2>4, <2>5, <2>6
       DEF Step, TargetUsed, EvidenceRefused, CopyRefused, Differs, Interrupted,
           PrepareTarget, Lock, Release
  <2> QED
    BY <1>1, <2>7 DEF Finish, Compared, CopiesInv, CallsOK, Read, Informed
<1>2. IInv /\ [OperationsNext]_operationVars => [A]_vars
  BY <1>1 DEF IInv, OperationsNext, CopiesStep, BackfillStep, operationVars
<1> QED
  BY <1>2, IInvHolds, PTL DEF OperationsSpec, RestoreIsTheBackup

(* The receipt of a backfill stands for the stores of its own attempt, and  *)
(* what an attempt reads back never contradicts what it has done.           *)
THEOREM BackfillSoundHolds == OperationsSpec => []BackfillSound
<1>1. IInv => BackfillSound
  BY Agrees DEF IInv, BackfillInv, BackfillSound
<1> QED
  BY <1>1, IInvHolds, PTL

(* And the types of the calls' state, with the inductive invariant.         *)
THEOREM TypeCorrect == OperationsSpec => []TypeOK
<1>1. IInv => TypeOK
  BY DEF IInv, CopiesInv, Typed, CohortsMade, TypeOK, Call, Pc
<1> QED
  BY <1>1, IInvHolds, PTL

(* What a finished export has left is not touched again.                   *)
THEOREM ExportsStay ==
  OperationsSpec =>
    [][\A o \in Op : op[o].pc = "done" /\ op[o].kind = "export" =>
         disk'[op[o].dst] = disk[op[o].dst]]_vars
<1> DEFINE A == \A o \in Op : op[o].pc = "done" /\ op[o].kind = "export" =>
                  disk'[op[o].dst] = disk[op[o].dst]
<1>1. ASSUME CopiesInv, [Next]_vars, NEW o \in Op, op[o].pc = "done", op[o].kind = "export"
      PROVE  disk'[op[o].dst] = disk[op[o].dst]
  <2>1. \A i \in DOMAIN RoleSeq : i < op[o].next
    BY <1>1, RoleAssumption DEF CopiesInv, CallsOK, Counted
  <2>2. \A r \in Role : disk'[op[o].dst][r] = disk[op[o].dst][r]
    BY <1>1, <2>1, CopiesKept DEF Role
  <2>3. op[o].dst \in Root /\ Typed /\ Typed'
    BY <1>1, TypedStep DEF CopiesInv, Typed, Call
  <2>4. disk[op[o].dst] \in [Role -> Cell] /\ disk'[op[o].dst] \in [Role -> Cell]
    BY <2>3 DEF Typed
  <2> QED
    BY <2>2, <2>4
<1>2. IInv /\ [OperationsNext]_operationVars => [A]_vars
  BY <1>1 DEF IInv, OperationsNext, CopiesStep, BackfillStep, operationVars
<1> QED
  BY <1>2, IInvHolds, PTL DEF OperationsSpec

-----------------------------------------------------------------------------
(* A call copies what it read: as long as its source is sound, the source is *)
(* what the evidence says, and every store copied so far is the one there.  *)
Exact(o) ==
  /\ op[o].pc \in {"copying", "copied"} /\ Healthy(op[o].src) =>
       /\ disk[op[o].src] = op[o].seen
       /\ \A i \in DOMAIN RoleSeq : i < op[o].next =>
            disk[op[o].dst][RoleSeq[i]] = op[o].seen[RoleSeq[i]]
  /\ op[o].pc \in {"copying", "copied"} => \A r \in Role : HealthyStore(r, op[o].seen[r])
  /\ op[o].pc = "comparing" => disk[op[o].dst] = op[o].seen

AllExact == \A o \in Op : Exact(o)

(* While a call holds the locks of its source, the source can only wear: it *)
(* is as it was, or it is not sound any more.                              *)
LEMMA SourceKept ==
  ASSUME CopiesInv, [Next]_vars, NEW p \in Op, op[p].pc \in {"copying", "copied"}
  PROVE  disk'[op[p].src] = disk[op[p].src] \/ ~ Healthy(op[p].src)'
<1> USE DEF CopiesInv
<1> DEFINE s == op[p].src
<1>1. s \in Root /\ s \in Writable /\ lock[s] = p /\ p # Nobody
  BY NobodyAssumption DEF CallsOK, Placed, Locking, Typed, Call
<1>2. CASE Write
  <2>1. PICK root \in Writable, role \in Role : \E l : Ingest(root, role, l)
    BY <1>2 DEF Write
  <2>2. root # s
    BY <1>1, <2>1 DEF Ingest
  <2> QED
    BY <1>1, <2>1, <2>2 DEF Ingest, Typed
<1>3. CASE Damage
  <2>0. PICK c \in cohorts, role \in Role :
          \E f \in {[disk[c.root][role] EXCEPT !.intact = FALSE],
                   [disk[c.root][role] EXCEPT !.anchor = Nobody]} :
            disk' = [disk EXCEPT ![c.root][role] = f] /\ UNCHANGED <<lock, op, cohorts>>
    BY <1>3 DEF Damage
  <2>1. PICK f \in {[disk[c.root][role] EXCEPT !.intact = FALSE],
                   [disk[c.root][role] EXCEPT !.anchor = Nobody]} :
          disk' = [disk EXCEPT ![c.root][role] = f] /\ UNCHANGED <<lock, op, cohorts>>
    BY <2>0
  <2>2. c.root \in Root /\ disk[c.root][role] \in File
    BY DEF CohortsMade, WritableHeld, Writable
  <2>3. f.intact = FALSE \/ f.anchor = Nobody
    BY <2>1, <2>2 DEF File
  <2>4. CASE c.root = s
    <3>1. disk'[s][role] = f
      BY <1>1, <2>1, <2>4 DEF Typed
    <3>2. ~ HealthyStore(role, disk'[s][role])
      BY <2>3, <3>1, NobodyAssumption DEF HealthyStore
    <3> QED
      BY <2>1, <3>2 DEF Healthy
  <2>5. CASE c.root # s
    BY <1>1, <2>1, <2>5 DEF Typed
  <2> QED
    BY <2>4, <2>5
<1>4. ASSUME NEW o \in Op, Copy(o) \/ CopyBreaks(o)
      PROVE  disk'[s] = disk[s]
  <2>1. PICK role \in Role : Fills(o, role)
    BY <1>4, FillSteps
  <2>2. op[o].dst # s
    BY <1>1, <2>1, AbsentAssumption DEF Fills, WritableHeld
  <2> QED
    BY <1>1, <2>1, <2>2 DEF Fills, Typed
<1> QED
  BY <1>2, <1>3, <1>4, Steps, QuietSteps DEF Next, vars

(* Nobody but its own call reaches a target before the call has returned.  *)
LEMMA TargetApart ==
  ASSUME CopiesInv, NEW p \in Op, op[p].next > 1, op[p].pc # "done"
  PROVE  op[p].dst \notin Writable
<1> USE DEF CopiesInv
<1>1. op[p].dst # Live
  BY DEF CallsOK, Placed, Counted
<1>2. ASSUME NEW c \in cohorts, op[p].dst = c.root
      PROVE  FALSE
  <2>1. PICK o \in Op : Maker(c, o)
    BY DEF CohortsMade
  <2>2. op[o].next = Len(RoleSeq) + 1 /\ Len(RoleSeq) \in Nat /\ Len(RoleSeq) # 0
    BY <2>1, RoleAssumption DEF Maker, CallsOK, Counted
  <2> QED
    BY <1>2, <2>1, <2>2 DEF Sole, Maker
<1> QED
  BY <1>1, <1>2 DEF Writable

LEMMA TargetKept ==
  ASSUME CopiesInv, [Next]_vars, NEW p \in Op, NEW i \in DOMAIN RoleSeq, i < op[p].next,
         op[p].pc # "done"
  PROVE  disk'[op[p].dst][RoleSeq[i]] = disk[op[p].dst][RoleSeq[i]]
<1> USE DEF CopiesInv
<1> DEFINE d == op[p].dst
           r == RoleSeq[i]
<1>1. d \in Root /\ r \in Role /\ disk[d][r] # Absent /\ op[p].next > 1
  <2>1. op[p].next \in Nat /\ i \in Nat \ {0}
    BY RoleAssumption DEF Typed, Call
  <2>2. op[p].next > 1
    BY <2>1
  <2> QED
    BY <2>2 DEF Typed, Call, CallsOK, Copied, Role
<1>2. CASE Write \/ Damage
  <2>1. PICK root \in Root, role \in Role : Outside(root, role)
    BY <1>2, OutsideSteps
  <2>2. d # root
    BY <1>1, <2>1, TargetApart DEF Outside
  <2> QED
    BY <1>1, <2>1, <2>2 DEF Outside, Typed
<1>3. ASSUME NEW o \in Op, Copy(o) \/ CopyBreaks(o)
      PROVE  disk'[d][r] = disk[d][r]
  <2>1. PICK role \in Role : Fills(o, role)
    BY <1>3, FillSteps
  <2> QED
    BY <1>1, <2>1 DEF Fills, Typed
<1> QED
  BY <1>1, <1>2, <1>3, Steps, QuietSteps DEF Next, vars

LEMMA Covered ==
  ASSUME CopiesInv, NEW p \in Op, op[p].pc \in {"copied", "comparing"}
  PROVE  \A r \in Role : \E i \in DOMAIN RoleSeq : i < op[p].next /\ r = RoleSeq[i]
<1>1. op[p].next = Len(RoleSeq) + 1
  BY DEF CopiesInv, CallsOK, Counted
<1> QED
  BY <1>1, RoleAssumption DEF Role

LEMMA ExactStays ==
  ASSUME CopiesInv, [Next]_vars, NEW p \in Op, Exact(p), op'[p] = op[p]
  PROVE  Exact(p)'
<1>1. CASE op[p].pc \in {"copying", "copied"}
  <2>1. ASSUME Healthy(op[p].src)'
        PROVE  /\ disk'[op[p].src] = op[p].seen
               /\ \A i \in DOMAIN RoleSeq : i < op[p].next =>
                    disk'[op[p].dst][RoleSeq[i]] = op[p].seen[RoleSeq[i]]
    <3>1. disk'[op[p].src] = disk[op[p].src]
      BY <1>1, <2>1, SourceKept
    <3>2. Healthy(op[p].src)
      BY <2>1, <3>1 DEF Healthy
    <3> QED
      BY <1>1, <3>1, <3>2, TargetKept DEF Exact
  <2> QED
    BY <1>1, <2>1 DEF Exact
<1>2. CASE op[p].pc = "comparing"
  <2>1. \A r \in Role : disk'[op[p].dst][r] = disk[op[p].dst][r]
    BY <1>2, Covered, TargetKept
  <2>2. op[p].dst \in Root /\ Typed /\ Typed'
    BY TypedStep DEF CopiesInv, Typed, Call
  <2>3. disk[op[p].dst] \in [Role -> Cell] /\ disk'[op[p].dst] \in [Role -> Cell]
    BY <2>2 DEF Typed
  <2>4. disk'[op[p].dst] = disk[op[p].dst]
    BY <2>1, <2>3
  <2> QED
    BY <1>2, <2>4 DEF Exact
<1> QED
  BY <1>1, <1>2 DEF Exact

(* The source is as it was read at the end of the copying only if it was    *)
(* all along.                                                              *)
LEMMA ReleaseExact ==
  ASSUME CopiesInv, NEW o \in Op, Exact(o), op[o].pc = "copied",
         disk[op[o].src] = op[o].seen
  PROVE  disk[op[o].dst] = op[o].seen
<1>1. Healthy(op[o].src)
  BY DEF Exact, Healthy
<1>2. \A r \in Role : disk[op[o].dst][r] = disk[op[o].src][r]
  BY <1>1, Covered DEF Exact
<1>3. op[o].dst \in Root /\ op[o].src \in Root
  BY DEF CopiesInv, Typed, Call
<1>4. disk[op[o].dst] \in [Role -> Cell] /\ disk[op[o].src] \in [Role -> Cell]
  BY <1>3 DEF CopiesInv, Typed
<1> QED
  BY <1>2, <1>4

LEMMA ExactActs ==
  ASSUME CopiesInv, Next, NEW o \in Op, Exact(o), Step(o)
  PROVE  Exact(o)'
<1> USE DEF CopiesInv
<1>0. op[o] \in Call(cohorts) /\ Placed(o) /\ Counted(o)
  BY DEF CallsOK, Typed
<1>1. ASSUME op'[o].pc \notin {"copying", "copied", "comparing"}
      PROVE  Exact(o)'
  BY <1>1 DEF Exact
<1>2. CASE BeginBackup(o) \/ BeginRestore(o)
  BY <1>1, <1>2, BeginBegins DEF Begins
<1>3. ASSUME NEW why, Stop(o, why)
      PROVE  Exact(o)'
  BY <1>1, <1>3, StopBecomes DEF Becomes
<1>4. CASE TargetUsed(o) \/ EvidenceRefused(o) \/ CopyRefused(o) \/ Differs(o) \/ Interrupted(o)
  BY <1>3, <1>4 DEF TargetUsed, EvidenceRefused, CopyRefused, Differs, Interrupted
<1>5. CASE PrepareTarget(o) \/ Lock(o) \/ Finish(o)
  <2>1. op'[o].pc \in {"waiting", "locked", "done"}
    BY <1>5, MoveBecomes DEF PrepareTarget, Lock, Finish, Becomes
  <2> QED
    BY <1>1, <2>1
<1>6. CASE CopyBreaks(o)
  BY <1>1, <1>6, BreakBecomes DEF Becomes
<1>7. CASE Evidence(o)
  <2>1. Becomes(o, "copying", 1, disk[op[o].src], op[o].why) /\ disk' = disk
    BY <1>7, EvidenceBecomes DEF Evidence
  <2>2. \A r \in Role : HealthyStore(r, disk[op[o].src][r])
    BY <1>7 DEF Evidence, Healthy
  <2>3. \A i \in DOMAIN RoleSeq : ~ (i < 1)
    BY RoleAssumption
  <2> QED
    BY <2>1, <2>2, <2>3 DEF Becomes, Exact
<1>8. CASE Copy(o)
  <2>1. op[o].pc = "copying" /\ op[o].next \in DOMAIN RoleSeq /\ op[o].next \in Nat
    BY <1>0, <1>8 DEF Copy, Counted, Call
  <2>2. PICK pc \in {"copying", "copied"} : Becomes(o, pc, op[o].next + 1, op[o].seen, op[o].why)
    BY <1>8, CopyBecomes
  <2>3. disk'[op[o].dst][RoleSeq[op[o].next]] = disk[op[o].src][RoleSeq[op[o].next]]
    <3>1. op[o].dst \in Root /\ RoleSeq[op[o].next] \in Role
      BY <1>0, <2>1 DEF Call, Role
    <3> QED
      BY <1>8, <3>1 DEF Copy, Typed
  <2>4. ASSUME Healthy(op[o].src)'
        PROVE  /\ disk'[op[o].src] = op[o].seen
               /\ \A i \in DOMAIN RoleSeq : i < op[o].next + 1 =>
                    disk'[op[o].dst][RoleSeq[i]] = op[o].seen[RoleSeq[i]]
    <3>0. op'[o].src = op[o].src
      BY <2>2 DEF Becomes
    <3>1. disk'[op[o].src] = disk[op[o].src]
      BY <2>1, <2>4, SourceKept
    <3>2. Healthy(op[o].src)
      BY <2>4, <3>0, <3>1 DEF Healthy
    <3>3. disk[op[o].src] = op[o].seen
      BY <2>1, <3>2 DEF Exact
    <3>4. ASSUME NEW i \in DOMAIN RoleSeq, i < op[o].next
          PROVE  disk'[op[o].dst][RoleSeq[i]] = op[o].seen[RoleSeq[i]]
      BY <2>1, <3>2, <3>4, TargetKept DEF Exact
    <3>5. ASSUME NEW i \in DOMAIN RoleSeq, i < op[o].next + 1
          PROVE  i < op[o].next \/ i = op[o].next
      BY <2>1, <3>5, RoleAssumption
    <3> QED
      BY <2>3, <3>1, <3>3, <3>4, <3>5
  <2>5. op[o].pc \in {"copying", "copied"} /\ \A r \in Role : HealthyStore(r, op[o].seen[r])
    BY <2>1 DEF Exact
  <2> QED
    BY <2>2, <2>4, <2>5 DEF Becomes, Exact
<1>9. CASE Release(o)
  <2>1. Becomes(o, "comparing", op[o].next, op[o].seen, op[o].why) /\ disk' = disk
    BY <1>9, MoveBecomes DEF Release
  <2>2. disk[op[o].dst] = op[o].seen
    BY <1>9, ReleaseExact DEF Release
  <2> QED
    BY <2>1, <2>2 DEF Becomes, Exact
<1> QED
  BY <1>2, <1>4, <1>5, <1>6, <1>7, <1>8, <1>9 DEF Step

LEMMA ExactStep ==
  ASSUME CopiesInv, AllExact, [Next]_vars
  PROVE  AllExact'
<1> SUFFICES ASSUME NEW p \in Op
             PROVE  Exact(p)'
  BY DEF AllExact
<1>1. CASE op'[p] = op[p]
  BY <1>1, ExactStays DEF AllExact
<1>2. CASE op'[p] # op[p]
  <2>1. Next /\ Step(p)
    BY <1>2, OutsideSteps, CallSteps DEF Next, vars, Outside, CopiesInv
  <2> QED
    BY <2>1, ExactActs DEF AllExact
<1> QED
  BY <1>1, <1>2

ExactInv == IInv /\ AllExact

(* A call that has given its locks back without an error has in its target *)
(* what the source was when it gave them back, every store of it            *)
(* (backup_all, restore_all, capture_readonly_copies).                      *)
THEOREM CopiesAreExact == OperationsSpec => []ExactInv
<1>1. OperationsInit => AllExact
  BY DEF OperationsInit, Init, Idle, AllExact, Exact
<1>2. ExactInv /\ [OperationsNext]_operationVars => AllExact'
  <2>1. ASSUME IInv, AllExact, [OperationsNext]_operationVars
        PROVE  AllExact'
    <3>1. [Next]_vars
      BY <2>1 DEF OperationsNext, CopiesStep, BackfillStep, operationVars
    <3> QED
      BY <2>1, <3>1, ExactStep DEF IInv
  <2> QED
    BY <2>1 DEF ExactInv
<1> QED
  BY <1>1, <1>2, IInvHolds, PTL DEF OperationsSpec, ExactInv

-----------------------------------------------------------------------------
(* The calls as AtomicCopies sees them.                                    *)
Calls == [o \in Op |-> CallOf(o)]

LEMMA OneCall ==
  ASSUME Typed, CohortsMade, NEW o \in Op, Step(o)
  PROVE  Calls' = [Calls EXCEPT ![o] = CallOf(o)']
<1>1. \A p \in Op \ {o} : CallOf(p)' = CallOf(p)
  BY CallSteps DEF CallOf
<1> QED
  BY <1>1 DEF Calls

LEMMA SameCalls ==
  ASSUME op' = op
  PROVE  Calls' = Calls
  BY DEF Calls, CallOf

(* The step of a call from one of its points to the next, as AtomicCopies  *)
(* sees it.                                                                *)
LEMMA SameCall ==
  ASSUME Typed, CohortsMade, NEW o \in Op, Step(o), CallOf(o)' = CallOf(o)
  PROVE  Calls' = Calls
<1>1. Calls = [Calls EXCEPT ![o] = CallOf(o)]
  BY DEF Calls
<1> QED
  BY <1>1, OneCall

AsCall(o, pc, stores) ==
  [pc |-> pc, kind |-> op[o].kind, src |-> op[o].src, dst |-> op[o].dst,
   cohort |-> op[o].cohort, stores |-> stores]

LEMMA CallChanges ==
  ASSUME NEW o \in Op, NEW pc, NEW stores
  PROVE  [CallOf(o) EXCEPT !.pc = pc, !.stores = stores] = AsCall(o, pc, stores)
<1>1. CallOf(o) = AsCall(o, CallOf(o).pc, CallOf(o).stores)
  BY DEF CallOf, AsCall
<1>2. PICK p, s : CallOf(o) = AsCall(o, p, s)
  BY <1>1
<1>3. PICK x : x = [AsCall(o, p, s) EXCEPT !.pc = pc, !.stores = stores]
  OBVIOUS
<1>4. x = AsCall(o, pc, stores)
  BY <1>3 DEF AsCall
<1> QED
  BY <1>2, <1>3, <1>4

LEMMA CallFails ==
  ASSUME NEW o \in Op, NEW next, NEW seen, NEW why, Becomes(o, "failed", next, seen, why)
  PROVE  CallOf(o)' = [CallOf(o) EXCEPT !.pc = "failed", !.stores = Absent]
<1>1. CallOf(o)' = AsCall(o, "failed", Absent)
  BY DEF Becomes, CallOf, AsCall
<1> QED
  BY <1>1, CallChanges

LEMMA CallTakes ==
  ASSUME NEW o \in Op, NEW next, NEW seen, NEW why, Becomes(o, "comparing", next, seen, why)
  PROVE  CallOf(o)' = [CallOf(o) EXCEPT !.pc = "taken", !.stores = seen]
<1>1. CallOf(o)' = AsCall(o, "taken", seen)
  BY DEF Becomes, CallOf, AsCall
<1> QED
  BY <1>1, CallChanges

LEMMA CopiesInitial == Init => Copies!Init
<1> SUFFICES ASSUME Init PROVE Copies!Init
  OBVIOUS
<1>1. \A root \in Root \ {Live} : disk[root] = [r \in Role |-> Absent]
  BY DEF Init
<1>2. \A o \in Op : [p \in Op |-> CallOf(p)][o].pc = "idle"
  BY DEF Init, Idle, CallOf
<1> QED
  BY <1>1, <1>2 DEF Copies!Init, Init

LEMMA BeginAsks ==
  ASSUME CopiesInv, NEW o \in Op, Step(o), BeginBackup(o) \/ BeginRestore(o)
  PROVE  Copies!Ask(o)
<1> USE DEF CopiesInv
<1>1. ASSUME NEW kind, NEW src \in Root, NEW dst \in Root, NEW c, Begin(o, kind, src, dst, c)
      PROVE  /\ CallOf(o).pc = "idle"
             /\ CallOf(o)' = [pc |-> "asked", kind |-> kind, src |-> src, dst |-> dst,
                              cohort |-> c, stores |-> Absent]
             /\ UNCHANGED <<disk, cohorts>> /\ src # dst
  <2>1. op'[o] = [Idle EXCEPT !.pc = "target", !.kind = kind, !.src = src, !.dst = dst,
                              !.cohort = c]
    BY <1>1 DEF Begin, Typed
  <2>2. op'[o] = [pc |-> "target", kind |-> kind, src |-> src, dst |-> dst, next |-> 0,
                  seen |-> Absent, cohort |-> c, why |-> "none"]
    BY <2>1 DEF Idle
  <2> QED
    BY <1>1, <2>2 DEF Begin, CallOf
<1>2. Calls[o] = CallOf(o) /\ Calls' = [Calls EXCEPT ![o] = CallOf(o)']
  BY OneCall DEF Calls
<1>3. CASE BeginBackup(o)
  <2>1. PICK dst \in Root, kind \in {"backup", "export"} :
          OneSource(o, Live, dst) /\ Begin(o, kind, Live, dst, Absent)
    BY <1>3 DEF BeginBackup
  <2>2. /\ Calls[o].pc = "idle" /\ dst # Live /\ UNCHANGED <<disk, cohorts>>
        /\ Calls' = [Calls EXCEPT ![o] = [pc |-> "asked", kind |-> kind, src |-> Live,
                       dst |-> dst, cohort |-> Absent, stores |-> Absent]]
    BY <1>1, <1>2, <2>1, LiveAssumption DEF OneSource
  <2> QED
    BY <2>2, LiveAssumption DEF Copies!Ask, Copies!Becomes, Calls
<1>4. CASE BeginRestore(o)
  <2>1. PICK c \in cohorts, dst \in Root :
          OneSource(o, c.root, dst) /\ Begin(o, "restore", c.root, dst, c)
    BY <1>4 DEF BeginRestore
  <2>2. c.root \in Root
    BY DEF CohortsMade
  <2>3. /\ Calls[o].pc = "idle" /\ dst # Live /\ c.root # dst /\ UNCHANGED <<disk, cohorts>>
        /\ Calls' = [Calls EXCEPT ![o] = [pc |-> "asked", kind |-> "restore", src |-> c.root,
                       dst |-> dst, cohort |-> c, stores |-> Absent]]
    BY <1>1, <1>2, <2>1, <2>2 DEF OneSource
  <2> QED
    BY <2>2, <2>3 DEF Copies!Ask, Copies!Becomes, Calls
<1> QED
  BY <1>3, <1>4

LEMMA StopFails ==
  ASSUME CopiesInv, NEW o \in Op, Step(o), NEW why, Stop(o, why), op[o].pc # "idle"
  PROVE  Copies!Fail(o)
<1> USE DEF CopiesInv
<1>1. Becomes(o, "failed", op[o].next, op[o].seen, why)
  BY StopBecomes
<1>2. op[o].pc \notin {"done", "failed"} /\ op[o].pc \in Pc
  BY EndedRest DEF Typed, Call
<1>3. CallOf(o).pc \in {"asked", "taken"}
  BY <1>2 DEF CallOf, Pc
<1>4. CallOf(o)' = [CallOf(o) EXCEPT !.pc = "failed", !.stores = Absent]
  BY <1>1, CallFails
<1>5. Calls[o] = CallOf(o) /\ Calls' = [Calls EXCEPT ![o] = CallOf(o)']
  BY OneCall DEF Calls
<1>6. UNCHANGED <<disk, cohorts>>
  BY DEF Stop
<1> QED
  BY <1>3, <1>4, <1>5, <1>6 DEF Copies!Fail, Copies!Becomes, Copies!Fills, Calls

LEMMA FillsTarget ==
  ASSUME CopiesInv, NEW o \in Op, Copy(o) \/ CopyBreaks(o)
  PROVE  Copies!Fills(op[o].dst)
<1> USE DEF CopiesInv
<1>1. PICK role \in Role : Fills(o, role)
  BY FillSteps
<1>2. op[o].dst \in Root
  BY DEF Typed, Call
<1> QED
  BY <1>1, <1>2 DEF Fills, Copies!Fills, Typed

LEMMA ReleaseTakes ==
  ASSUME CopiesInv, NEW o \in Op, Step(o), Release(o)
  PROVE  Copies!Take(o)
<1> USE DEF CopiesInv
<1>1. Becomes(o, "comparing", op[o].next, op[o].seen, op[o].why)
  BY MoveBecomes DEF Release
<1>2. op[o].pc = "copied" /\ disk[op[o].src] = op[o].seen /\ UNCHANGED <<disk, cohorts>>
  BY DEF Release
<1>3. op[o].kind = "restore" => Logical(disk[op[o].src]) = op[o].cohort.logical
  BY <1>2 DEF CallsOK, Read, Informed
<1>4. /\ CallOf(o).pc = "asked" /\ CallOf(o).kind = op[o].kind
      /\ CallOf(o).src = op[o].src /\ CallOf(o).cohort = op[o].cohort
  BY <1>2 DEF CallOf
<1>5. CallOf(o)' = [CallOf(o) EXCEPT !.pc = "taken", !.stores = disk[op[o].src]]
  BY <1>1, <1>2, CallTakes
<1>6. Calls[o] = CallOf(o) /\ Calls' = [Calls EXCEPT ![o] = CallOf(o)']
  BY OneCall DEF Calls
<1> QED
  BY <1>2, <1>3, <1>4, <1>5, <1>6 DEF Copies!Take, Copies!Becomes, Calls

LEMMA FinishReturns ==
  ASSUME CopiesInv, NEW o \in Op, Exact(o), Step(o), Finish(o)
  PROVE  Copies!Return(o)
<1> USE DEF CopiesInv
<1>1. Becomes(o, "done", op[o].next, op[o].seen, op[o].why)
  BY MoveBecomes DEF Finish
<1>2. op[o].pc = "comparing" /\ disk[op[o].dst] = op[o].seen /\ UNCHANGED disk
  BY DEF Finish, Exact
<1>3. /\ CallOf(o).pc = "taken" /\ CallOf(o).kind = op[o].kind
      /\ CallOf(o).dst = op[o].dst /\ CallOf(o).stores = op[o].seen
  BY <1>2 DEF CallOf
<1>4. CallOf(o)' = [CallOf(o) EXCEPT !.pc = "done"]
  BY <1>1, <1>2 DEF Becomes, CallOf
<1>5. Calls[o] = CallOf(o) /\ Calls' = [Calls EXCEPT ![o] = CallOf(o)']
  BY OneCall DEF Calls
<1>6. cohorts' = IF op[o].kind = "backup"
                   THEN cohorts \cup {[root |-> op[o].dst, logical |-> Logical(op[o].seen)]}
                   ELSE cohorts
  BY DEF Finish
<1> QED
  BY <1>2, <1>3, <1>4, <1>5, <1>6 DEF Copies!Return, Copies!Becomes, Calls

LEMMA CallActs ==
  ASSUME CopiesInv, NEW o \in Op, Exact(o), Step(o)
  PROVE  Copies!Next \/ UNCHANGED Copies!vars
<1> USE DEF CopiesInv
<1>1. CASE BeginBackup(o) \/ BeginRestore(o)
  BY <1>1, BeginAsks DEF Copies!Next
<1>2. ASSUME NEW why, Stop(o, why), op[o].pc # "idle"
      PROVE  Copies!Next
  BY <1>2, StopFails DEF Copies!Next
<1>3. CASE TargetUsed(o) \/ EvidenceRefused(o) \/ CopyRefused(o) \/ Differs(o) \/ Interrupted(o)
  BY <1>2, <1>3 DEF TargetUsed, EvidenceRefused, CopyRefused, Differs, Interrupted
<1>4. ASSUME CallOf(o)' = CallOf(o), UNCHANGED <<disk, cohorts>>
      PROVE  UNCHANGED Copies!vars
  BY <1>4, SameCall DEF Copies!vars, Calls
<1>5. CASE PrepareTarget(o) \/ Lock(o)
  <2>1. \/ op[o].pc = "target" /\ Becomes(o, "waiting", op[o].next, op[o].seen, op[o].why)
        \/ op[o].pc = "waiting" /\ Becomes(o, "locked", op[o].next, op[o].seen, op[o].why)
    BY <1>5, MoveBecomes DEF PrepareTarget, Lock
  <2>2. CallOf(o)' = CallOf(o)
    BY <2>1 DEF Becomes, CallOf
  <2> QED
    BY <1>4, <1>5, <2>2 DEF PrepareTarget, Lock
<1>6. CASE Evidence(o)
  <2>1. op[o].pc = "locked" /\ Becomes(o, "copying", 1, disk[op[o].src], op[o].why)
    BY <1>6, EvidenceBecomes DEF Evidence
  <2>2. CallOf(o)' = CallOf(o)
    BY <2>1 DEF Becomes, CallOf
  <2> QED
    BY <1>4, <1>6, <2>2 DEF Evidence
<1>7. CASE Copy(o)
  <2>1. PICK pc \in {"copying", "copied"} : Becomes(o, pc, op[o].next + 1, op[o].seen, op[o].why)
    BY <1>7, CopyBecomes
  <2>2. op[o].pc = "copying" /\ cohorts' = cohorts
    BY <1>7 DEF Copy
  <2>3. CallOf(o)' = CallOf(o) /\ CallOf(o).pc = "asked" /\ CallOf(o).dst = op[o].dst
    BY <2>1, <2>2 DEF Becomes, CallOf
  <2>4. Calls' = Calls /\ Calls[o] = CallOf(o)
    BY <2>3, SameCall DEF Calls
  <2> QED
    BY <1>7, <2>2, <2>3, <2>4, FillsTarget DEF Copies!Fill, Copies!Next, Calls
<1>8. CASE CopyBreaks(o)
  <2>1. Becomes(o, "failed", op[o].next, op[o].seen, "interrupted")
    BY <1>8, BreakBecomes
  <2>2. op[o].pc = "copying" /\ cohorts' = cohorts
    BY <1>8 DEF CopyBreaks
  <2>3. CallOf(o).pc = "asked" /\ CallOf(o).dst = op[o].dst
    BY <2>2 DEF CallOf
  <2>4. CallOf(o)' = [CallOf(o) EXCEPT !.pc = "failed", !.stores = Absent]
    BY <2>1, CallFails
  <2>5. Calls[o] = CallOf(o) /\ Calls' = [Calls EXCEPT ![o] = CallOf(o)']
    BY OneCall DEF Calls
  <2> QED
    BY <1>8, <2>2, <2>3, <2>4, <2>5, FillsTarget
       DEF Copies!Fail, Copies!Becomes, Copies!Next, Calls
<1>9. CASE Release(o) \/ Finish(o)
  BY <1>9, ReleaseTakes, FinishReturns DEF Copies!Next
<1> QED
  BY <1>1, <1>3, <1>5, <1>6, <1>7, <1>8, <1>9 DEF Step

LEMMA CopiesSteps ==
  ASSUME CopiesInv, AllExact, [Next]_vars
  PROVE  [Copies!Next]_(Copies!vars)
<1> USE DEF CopiesInv
<1>1. CASE UNCHANGED vars
  BY <1>1, SameCalls DEF vars, Copies!vars, Calls
<1>2. CASE Write \/ Damage
  <2>1. PICK root \in Root, role \in Role : Outside(root, role)
    BY <1>2, OutsideSteps
  <2>2. Calls' = Calls /\ cohorts' = cohorts
    BY <2>1, SameCalls DEF Outside
  <2>3. root = Live \/ \E c \in cohorts : c.root = root
    BY <2>1 DEF Outside, Writable
  <2>4. \A other \in Root \ {root} : disk'[other] = disk[other]
    BY <2>1 DEF Outside, Typed
  <2>5. Copies!World
    BY <2>2, <2>3, <2>4 DEF Copies!World, Calls
  <2> QED
    BY <2>5 DEF Copies!Next
<1>3. ASSUME NEW o \in Op, Step(o)
      PROVE  [Copies!Next]_(Copies!vars)
  BY <1>3, CallActs DEF AllExact
<1> QED
  BY <1>1, <1>2, <1>3 DEF Next

(* Backups, restores and exports are atomic copies: the stores a call       *)
(* leaves are all the stores its source held at one instant of the call.    *)
THEOREM ImplementsCopies == OperationsSpec => CopiesSpec
<1>1. OperationsInit => Copies!Init
  BY CopiesInitial DEF OperationsInit
<1>2. ExactInv /\ [OperationsNext]_operationVars => [Copies!Next]_(Copies!vars)
  <2>1. [OperationsNext]_operationVars => [Next]_vars
    BY DEF OperationsNext, CopiesStep, BackfillStep, operationVars
  <2> QED
    BY <2>1, CopiesSteps DEF ExactInv, IInv
<1> QED
  BY <1>1, <1>2, CopiesAreExact, PTL DEF OperationsSpec, CopiesSpec, Copies!Spec
=============================================================================
