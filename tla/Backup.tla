------------------------------- MODULE Backup -------------------------------
(***************************************************************************)
(* Backups, restores and the read-only copies an export reads               *)
(* (operations/backup.py, with operations/health.py and fingerprint.py).    *)
(* Each operation copies the four stores of one root into another that must *)
(* be new or empty.  It inspects its source before it holds any lock, takes *)
(* the locks of all the source's stores, reads the evidence it will compare *)
(* with, copies store by store, and compares.  Nothing is cleaned up after  *)
(* a failure: what was copied stays in the target.  Writers take the lock   *)
(* of a store for the length of a publication, so a publication is one step *)
(* here (StoreLocks has the locks themselves).                              *)
(*                                                                         *)
(* A store is its health facts and the ledger of one dataset.               *)
(***************************************************************************)
EXTENDS SourceReceipts

CONSTANTS Op,         \* the calls of backup_all, restore_all and capture_readonly_copies
          Root,       \* directories that hold the stores, or will
          Live,       \* the operational root
          RoleSeq,    \* STORE_ROLES
          Runs,       \* the runs collectors publish while the calls go on
          Failures,   \* completion times of the failures they record
          Past,       \* the ledgers the operational stores may begin with
          MaxLedger,  \* bound: a ledger longer than this is not written
          Nobody, Absent, Torn

Role == {RoleSeq[i] : i \in DOMAIN RoleSeq}

\* The file of a store.
File == [anchor : Role \cup {Nobody}, intact : BOOLEAN, reviewed : BOOLEAN, ledger : Ledger]

ASSUME LiveAssumption == Live \in Root
ASSUME NobodyAssumption == Nobody \notin Op \cup Role
ASSUME RoleAssumption == RoleSeq \in Seq(Role) /\ RoleSeq # << >>
ASSUME AbsentAssumption == Absent \notin File
ASSUME LedgerAssumption == /\ Past \subseteq [Role -> Ledger]
                           /\ Runs \subseteq RunRow
                           /\ Failures \subseteq Nat

VARIABLES disk,     \* the file of each role in each root, if any
          lock,     \* who holds the write locks of a root's stores
          op,       \* where each call is, and what it has read
          cohorts   \* the backup cohorts returned to callers

vars == <<disk, lock, op, cohorts>>

Idle == [pc |-> "idle", kind |-> "none", src |-> Live, dst |-> Live,
         next |-> 0, seen |-> Absent, cohort |-> Absent, why |-> "none"]

\* What inspect_store reconciles: the file opens, its anchor names the role,
\* it is intact, and its schema, migrations and datasets are the reviewed ones.
Store(role, ledger) == [anchor |-> role, intact |-> TRUE, reviewed |-> TRUE, ledger |-> ledger]

HealthyStore(role, s) ==
  s \notin {Absent, Torn} /\ s.anchor = role /\ s.intact /\ s.reviewed

Healthy(root) == \A r \in Role : HealthyStore(r, disk[root][r])

\* The logical manifest leaves out the columns that hold times.
Untimed(s) ==
  [s EXCEPT !.ledger = [runs |-> [i \in DOMAIN s.ledger.runs |->
                                     [s.ledger.runs[i] EXCEPT !.at = 0]],
                        failures |-> Cardinality(s.ledger.failures)]]

Logical(stores) == [r \in Role |-> Untimed(stores[r])]

Init ==
  /\ \E past \in Past :
       disk = [root \in Root |-> [r \in Role |->
                 IF root = Live THEN Store(r, past[r]) ELSE Absent]]
  /\ lock = [root \in Root |-> Nobody]
  /\ op = [o \in Op |-> Idle]
  /\ cohorts = {}

Used(root) == \E r \in Role : disk[root][r] # Absent

Stop(o, why) ==
  /\ op' = [op EXCEPT ![o].pc = "failed", ![o].why = why]
  /\ lock' = [root \in Root |-> IF lock[root] = o THEN Nobody ELSE lock[root]]
  /\ UNCHANGED <<disk, cohorts>>

Move(o, pc) == op' = [op EXCEPT ![o].pc = pc]

\* _validate_backup_cohort and the unlocked preflight of restore_all.
Preflight(kind, src, cohort) ==
  /\ Healthy(src)
  /\ kind = "restore" => Logical(disk[src]) = cohort.logical

Begin(o, kind, src, dst, cohort) ==
  /\ op[o].pc = "idle"
  /\ src # dst
  /\ Preflight(kind, src, cohort)
  /\ op' = [op EXCEPT ![o] = [Idle EXCEPT !.pc = "target", !.kind = kind, !.src = src,
                                          !.dst = dst, !.cohort = cohort]]
  /\ UNCHANGED <<disk, lock, cohorts>>

\* Calls that share a target copy from one source.  That is an assumption about
\* the operator, which no code enforces: the locks of one source are all that
\* orders two calls, and between _online_copy's look for a file and its copy a
\* call with another source may put a file there.
OneSource(o, src, dst) ==
  /\ dst # Live
  /\ \A p \in Op \ {o} : op[p].dst = dst => op[p].src = src
  /\ \A p \in Op \ {o} : op[p].pc # "idle" => op[p].src # dst
  /\ \A c \in cohorts : c.root # dst

BeginBackup(o) ==
  \E dst \in Root, kind \in {"backup", "export"} :
    OneSource(o, Live, dst) /\ Begin(o, kind, Live, dst, Absent)

BeginRestore(o) ==
  \E c \in cohorts, dst \in Root :
    OneSource(o, c.root, dst) /\ Begin(o, "restore", c.root, dst, c)

\* _prepare_empty_target_root: a root with anything in it is refused.
PrepareTarget(o) ==
  /\ op[o].pc = "target"
  /\ ~Used(op[o].dst)
  /\ Move(o, "waiting")
  /\ UNCHANGED <<disk, lock, cohorts>>

TargetUsed(o) ==
  /\ op[o].pc = "target"
  /\ Used(op[o].dst)
  /\ Stop(o, "target")

TakesLock_Shared(root) == TRUE
TakesLock(root) == lock[root] = Nobody

Lock(o) ==
  /\ op[o].pc = "waiting"
  /\ TakesLock(op[o].src)
  /\ lock' = [lock EXCEPT ![op[o].src] = o]
  /\ Move(o, "locked")
  /\ UNCHANGED <<disk, cohorts>>

ReceiptsAccepted(o) ==
  op[o].kind = "export" => \A r \in Role : Accepted(disk[op[o].src][r].ledger)

CohortUnchanged(o) ==
  op[o].kind = "restore" => Logical(disk[op[o].src]) = op[o].cohort.logical

\* Under the locks: health again, the receipts of an export, the cohort of a
\* restore, then the mutation fingerprint and the logical manifest.
Evidence(o) ==
  /\ op[o].pc = "locked"
  /\ Healthy(op[o].src)
  /\ ReceiptsAccepted(o)
  /\ CohortUnchanged(o)
  /\ op' = [op EXCEPT ![o].pc = "copying", ![o].next = 1, ![o].seen = disk[op[o].src]]
  /\ UNCHANGED <<disk, lock, cohorts>>

EvidenceRefused(o) ==
  /\ op[o].pc = "locked"
  /\ ~(Healthy(op[o].src) /\ ReceiptsAccepted(o) /\ CohortUnchanged(o))
  /\ Stop(o, "evidence")

Free_Assumed(o, role) == TRUE
Free(o, role) == disk[op[o].dst][role] = Absent

\* _online_copy
Copy(o) ==
  LET role == RoleSeq[op[o].next] IN
  /\ op[o].pc = "copying"
  /\ Free(o, role)
  /\ disk' = [disk EXCEPT ![op[o].dst][role] = disk[op[o].src][role]]
  /\ op' = [op EXCEPT ![o].next = @ + 1,
                      ![o].pc = IF op[o].next = Len(RoleSeq) THEN "copied" ELSE @]
  /\ UNCHANGED <<lock, cohorts>>

CopyRefused(o) ==
  /\ op[o].pc = "copying"
  /\ ~Free(o, RoleSeq[op[o].next])
  /\ Stop(o, "exists")

\* The SQLite backup breaks off: a file with some of the pages stays behind.
CopyBreaks(o) ==
  LET role == RoleSeq[op[o].next] IN
  /\ op[o].pc = "copying"
  /\ Free(o, role)
  /\ disk' = [disk EXCEPT ![op[o].dst][role] = Torn]
  /\ op' = [op EXCEPT ![o].pc = "failed", ![o].why = "interrupted"]
  /\ lock' = [lock EXCEPT ![op[o].src] = Nobody]
  /\ UNCHANGED cohorts

\* The source is fingerprinted again, still under the locks, which then go.
Release_Unchecked(o) ==
  /\ op[o].pc = "copied"
  /\ lock' = [lock EXCEPT ![op[o].src] = Nobody]
  /\ Move(o, "comparing")
  /\ UNCHANGED <<disk, cohorts>>

Release(o) ==
  /\ op[o].pc = "copied"
  /\ disk[op[o].src] = op[o].seen
  /\ lock' = [lock EXCEPT ![op[o].src] = Nobody]
  /\ Move(o, "comparing")
  /\ UNCHANGED <<disk, cohorts>>

Compared(o) == Healthy(op[o].dst) /\ Logical(disk[op[o].dst]) = Logical(op[o].seen)

Finish(o) ==
  /\ op[o].pc = "comparing"
  /\ Compared(o)
  /\ Move(o, "done")
  /\ cohorts' = IF op[o].kind = "backup"
                  THEN cohorts \cup {[root |-> op[o].dst, logical |-> Logical(op[o].seen)]}
                  ELSE cohorts
  /\ UNCHANGED <<disk, lock>>

Differs(o) ==
  /\ op[o].pc = "copied"
  /\ disk[op[o].src] # op[o].seen
  /\ Stop(o, "differs")

\* A deadline, an error or the death of the process at any step.
Interrupted(o) ==
  op[o].pc \notin {"idle", "done", "failed"} /\ Stop(o, "interrupted")

\* A publication into a store of the operational root or of a returned backup.
Ingest(root, role, ledger) ==
  /\ lock[root] = Nobody
  /\ disk' = [disk EXCEPT ![root][role].ledger = ledger]
  /\ UNCHANGED <<lock, op, cohorts>>

Writable == {Live} \cup {c.root : c \in cohorts}

Room(l) == Len(l.runs) + Cardinality(l.failures) < MaxLedger

Write ==
  \E root \in Writable, role \in Role :
    LET l == disk[root][role].ledger IN
    /\ Room(l)
    /\ \/ \E r \in Runs : Ingest(root, role, Published(l, r))
       \/ \E t \in Failures : Ingest(root, role, Failed(l, t))

\* A backup at rest is damaged: a torn page, or the file of another role.
Damage ==
  \E c \in cohorts, role \in Role : \E s \in {[disk[c.root][role] EXCEPT !.intact = FALSE],
                                             [disk[c.root][role] EXCEPT !.anchor = Nobody]} :
    /\ Healthy(c.root)
    /\ disk' = [disk EXCEPT ![c.root][role] = s]
    /\ UNCHANGED <<lock, op, cohorts>>

Step(o) ==
  \/ BeginBackup(o) \/ BeginRestore(o) \/ PrepareTarget(o) \/ TargetUsed(o)
  \/ Lock(o) \/ Evidence(o) \/ EvidenceRefused(o)
  \/ Copy(o) \/ CopyRefused(o) \/ CopyBreaks(o) \/ Release(o) \/ Finish(o)
  \/ Differs(o) \/ Interrupted(o)

Next == Write \/ Damage \/ \E o \in Op : Step(o)

Spec == Init /\ [][Next]_vars

TypeOK ==
  /\ lock \in [Root -> Op \cup {Nobody}]
  /\ \A o \in Op : op[o].pc \in {"idle", "target", "waiting", "locked", "copying",
                                 "copied", "comparing", "done", "failed"}
  /\ \A c \in cohorts : c.root \in Root

Ended(o) == op[o].pc # "done" /\ op'[o].pc = "done"

\* Every writer takes the lock of the store it writes, so a copy of the
\* operational stores never finds at the end that they changed under it.
LiveHoldsStill ==
  \A o \in Op : op[o].why = "differs" => op[o].src # Live

\* No call writes over a file that another call, or an attempt of its own that
\* failed, left in the target: a root once used keeps what it has.
NothingOverwritten ==
  [][\A o \in Op, r \in Role :
       op[o] # op'[o] => LET f == disk[op[o].dst][r] IN f # Absent => disk'[op[o].dst][r] = f]_vars

\* What a restore returns is what the backup held when it was made, whatever
\* was written into the backup since.
RestoreIsTheBackup ==
  [][\A o \in Op : Ended(o) /\ op[o].kind = "restore" =>
       Logical(disk[op[o].dst]) = op[o].cohort.logical]_vars

\* The stores an export reads hold a complete and reconciled baseline of every
\* source with no unreconciled run after it, and no failure after the
\* checkpoint.
ExportRestsOnCheckpoint ==
  \A o \in Op : op[o].pc = "done" /\ op[o].kind = "export" =>
    \A r \in Role : LET l == disk[op[o].dst][r].ledger IN
      l.runs # << >> /\ Unbroken(l) /\ \A f \in l.failures : f < Selected(l).at

\* A failure record stops exports, but not for good: one complete publication
\* that completed after everything recorded lets the audit pass again.
SuccessReopensExport ==
  \A r \in Role : LET l == disk[Live][r].ledger IN
    \A t \in {1 + x : x \in {q.at : q \in Rows(l)} \cup l.failures} :
      (\A x \in {q.at : q \in Rows(l)} \cup l.failures : x < t) =>
        Accepted(Published(l, [at |-> t, completeness |-> "complete", whole |-> TRUE]))

\* A call is what AtomicCopies promises.  It takes its stores at the instant it
\* lets the locks go: nothing has changed the source since the evidence was
\* read, so what was copied one store at a time is what the source holds then.
CallOf(o) ==
  [pc |-> CASE op[o].pc \in {"target", "waiting", "locked", "copying", "copied"} -> "asked"
            [] op[o].pc = "comparing" -> "taken"
            [] OTHER -> op[o].pc,
   kind |-> op[o].kind, src |-> op[o].src, dst |-> op[o].dst, cohort |-> op[o].cohort,
   stores |-> IF op[o].pc \in {"comparing", "done"} THEN op[o].seen ELSE Absent]

Copies == INSTANCE AtomicCopies WITH
  call <- [o \in Op |-> CallOf(o)], backups <- cohorts, Manifest <- Logical

CopiesSpec == Copies!Spec
=============================================================================
