---------------------------- MODULE AtlasExport ----------------------------
(***************************************************************************)
(* Publication of an Atlas snapshot (AtlasSnapshotExporter.publish).  A     *)
(* publisher takes the publication lock under a deadline, remembers what    *)
(* the current pointer names, builds and validates the payload in a staging *)
(* directory of its own, and then makes it visible in a fixed order: the    *)
(* precommit receipt, the revision, the publication receipt, and last the   *)
(* pointer, whose replacement is the commit point.  Receipts are written to *)
(* a temporary file and linked into place without replacing anything.       *)
(*                                                                         *)
(* Any call may fail and any publisher may die between two calls.  What a   *)
(* revision holds is settled by its id, a digest of the content; the id a   *)
(* publisher arrives at is Revision[p], and Attempt[p] is the attempt id    *)
(* its caller has chosen, which may have been used before.                  *)
(***************************************************************************)
CONSTANTS
  Publisher,  \* the calls of publish
  Attempt,    \* the attempt id of each
  Revision,   \* the revision id its content has
  Nobody,     \* the holder of a free lock
  NoRevision, \* the revision named by no pointer
  NoReceipt   \* a receipt nobody has published

AttemptId == {Attempt[p] : p \in Publisher}
RevisionId == {Revision[p] : p \in Publisher}
Phase == {"precommit_intent", "publication"}

ASSUME NamesAssumption == DOMAIN Attempt = Publisher /\ DOMAIN Revision = Publisher
ASSUME NobodyAssumption == /\ Nobody \notin Publisher
                           /\ NoRevision \notin RevisionId
ASSUME NoReceiptAssumption ==
  NoReceipt \notin [revision : RevisionId, prior : RevisionId \cup {NoRevision}]

VARIABLES
  lock,       \* the publisher that holds the publication lock
  pc,         \* where each publisher is
  prior,      \* the revision it saw the pointer name
  reused,     \* whether it found its revision already there
  staging,    \* the attempts whose staging directory exists
  temporary,  \* the receipts whose temporary file exists
  receipt,    \* each receipt: the revision and the prior revision it records
  revision,   \* each revision: absent, private (not yet opened up) or public
  pointer     \* the revision and the attempt that current names

vars == <<lock, pc, prior, reused, staging, temporary, receipt, revision, pointer>>
files == <<staging, temporary, receipt, revision, pointer>>
private == <<prior, reused>>

(* The names of receipts: one of each phase for an attempt.                *)
Receipt == AttemptId \X Phase
NoPointer == [revision |-> NoRevision, attempt |-> NoReceipt]

Waiting == {"start", "waiting"}
Guarded == {"staged", "validated", "intentWritten", "intentLinked", "intended", "renamed",
            "promoted", "cleaned", "finalWritten", "finalLinked", "receipted"}
Holding == {"locked", "read", "failing", "committed"} \cup Guarded
Ended == {"done", "failed", "dead"}

TypeOK ==
  /\ lock \in Publisher \cup {Nobody}
  /\ pc \in [Publisher -> Waiting \cup Holding \cup Ended]
  /\ \A p \in Publisher : pc[p] \in Holding <=> lock = p
  /\ prior \in [Publisher -> RevisionId \cup {NoRevision}]
  /\ reused \in [Publisher -> BOOLEAN]
  /\ staging \subseteq AttemptId
  /\ temporary \subseteq Receipt
  /\ receipt \in [Receipt -> {NoReceipt} \cup
                     [revision : RevisionId, prior : RevisionId \cup {NoRevision}]]
  /\ revision \in [RevisionId -> {"absent", "private", "public"}]
  /\ pointer \in {NoPointer} \cup [revision : RevisionId, attempt : AttemptId]

Init ==
  /\ lock = Nobody
  /\ pc = [p \in Publisher |-> "start"]
  /\ prior = [p \in Publisher |-> NoRevision]
  /\ reused = [p \in Publisher |-> FALSE]
  /\ staging = {}
  /\ temporary = {}
  /\ receipt = [r \in Receipt |-> NoReceipt]
  /\ revision = [r \in RevisionId |-> "absent"]
  /\ pointer = NoPointer

Goto(p, there) == pc' = [pc EXCEPT ![p] = there]

-----------------------------------------------------------------------------
(* Defective variants of the definitions below.  Nothing uses them; each   *)
(* stands for a bug the checks have to notice when it takes the place of   *)
(* the definition it is a variant of.                                      *)

(* The lock does not keep other publishers out.                            *)
Acquire_Shared(p) ==
  /\ pc[p] = "waiting"
  /\ lock' = p
  /\ Goto(p, "locked")
  /\ UNCHANGED <<private, files>>

(* The revision is promoted as soon as it has been validated.              *)
Promote_BeforeIntent(p) ==
  /\ pc[p] \in {"validated", "intended"}
  /\ revision[Revision[p]] = "absent"
  /\ revision' = [revision EXCEPT ![Revision[p]] = "private"]
  /\ Goto(p, "renamed")
  /\ UNCHANGED <<lock, private, staging, temporary, receipt, pointer>>

(* A failure takes the revision back together with the staging directory.  *)
CleanUp_Revision(p) ==
  /\ pc[p] = "failing"
  /\ staging' = staging \ {Attempt[p]}
  /\ revision' = [revision EXCEPT ![Revision[p]] = "absent"]
  /\ Goto(p, "failed")
  /\ lock' = Nobody
  /\ UNCHANGED <<private, temporary, receipt, pointer>>

(* Only a revision that has been opened up is taken again.                 *)
Reuse_Opened(p) ==
  /\ pc[p] = "intended"
  /\ revision[Revision[p]] = "public"
  /\ reused' = [reused EXCEPT ![p] = TRUE]
  /\ Goto(p, "promoted")
  /\ UNCHANGED <<lock, prior, files>>

-----------------------------------------------------------------------------
(* The publication lock                                                    *)

(* publish fixes its deadline and opens the lock file.                     *)
Start(p) ==
  /\ pc[p] = "start"
  /\ Goto(p, "waiting")
  /\ UNCHANGED <<lock, private, files>>

Acquire(p) ==
  /\ pc[p] = "waiting" /\ lock = Nobody
  /\ lock' = p
  /\ Goto(p, "locked")
  /\ UNCHANGED <<private, files>>

(* The deadline passes while the publisher waits.                          *)
GiveUp(p) ==
  /\ pc[p] = "waiting"
  /\ Goto(p, "failed")
  /\ UNCHANGED <<lock, private, files>>

-----------------------------------------------------------------------------
(* The build                                                               *)

ReadPointer(p) ==
  /\ pc[p] = "locked"
  /\ prior' = [prior EXCEPT ![p] = pointer.revision]
  /\ Goto(p, "read")
  /\ UNCHANGED <<lock, reused, files>>

(* _staging_root refuses a directory that exists.                          *)
Stage(p) ==
  /\ pc[p] = "read" /\ Attempt[p] \notin staging
  /\ staging' = staging \cup {Attempt[p]}
  /\ Goto(p, "staged")
  /\ UNCHANGED <<lock, private, temporary, receipt, revision, pointer>>

(* A failure before the guarded block leaves at once, with nothing removed: *)
(* the staging directory stays if it was made and could not be prepared.   *)
FailEarly(p) ==
  /\ pc[p] \in {"locked", "read"}
  /\ \/ UNCHANGED staging
     \/ (pc[p] = "read" /\ Attempt[p] \notin staging /\ staging' = staging \cup {Attempt[p]})
  /\ lock' = Nobody
  /\ Goto(p, "failed")
  /\ UNCHANGED <<private, temporary, receipt, revision, pointer>>

(* Copies, projections, payload and its validation, all in the staging     *)
(* directory.                                                              *)
Build(p) ==
  /\ pc[p] = "staged"
  /\ Goto(p, "validated")
  /\ UNCHANGED <<lock, private, files>>

-----------------------------------------------------------------------------
(* Receipts (_atomic_publish_new)                                          *)

(* Neither the receipt nor its temporary file may exist.                   *)
Unpublished(r) == receipt[r] = NoReceipt /\ r \notin temporary

WriteReceipt(p, phase, from, to) ==
  LET r == <<Attempt[p], phase>>
  IN /\ pc[p] = from /\ Unpublished(r)
     /\ temporary' = temporary \cup {r}
     /\ Goto(p, to)
     /\ UNCHANGED <<lock, private, staging, receipt, revision, pointer>>

LinkReceipt(p, phase, from, to) ==
  LET r == <<Attempt[p], phase>>
  IN /\ pc[p] = from
     /\ receipt' = [receipt EXCEPT ![r] = [revision |-> Revision[p], prior |-> prior[p]]]
     /\ Goto(p, to)
     /\ UNCHANGED <<lock, private, staging, temporary, revision, pointer>>

SettleReceipt(p, phase, from, to) ==
  /\ pc[p] = from
  /\ temporary' = temporary \ {<<Attempt[p], phase>>}
  /\ Goto(p, to)
  /\ UNCHANGED <<lock, private, staging, receipt, revision, pointer>>

PrecommitReceipt(p) ==
  \/ WriteReceipt(p, "precommit_intent", "validated", "intentWritten")
  \/ LinkReceipt(p, "precommit_intent", "intentWritten", "intentLinked")
  \/ SettleReceipt(p, "precommit_intent", "intentLinked", "intended")

PublicationReceipt(p) ==
  \/ WriteReceipt(p, "publication", "cleaned", "finalWritten")
  \/ LinkReceipt(p, "publication", "finalWritten", "finalLinked")
  \/ SettleReceipt(p, "publication", "finalLinked", "receipted")

-----------------------------------------------------------------------------
(* The revision                                                            *)

(* The staged directory, private to its owner, is renamed to its place.    *)
Promote(p) ==
  /\ pc[p] = "intended"
  /\ revision[Revision[p]] = "absent"
  /\ revision' = [revision EXCEPT ![Revision[p]] = "private"]
  /\ Goto(p, "renamed")
  /\ UNCHANGED <<lock, private, staging, temporary, receipt, pointer>>

(* A revision that is there is validated, and taken as it is.              *)
Reuse(p) ==
  /\ pc[p] = "intended"
  /\ revision[Revision[p]] # "absent"
  /\ reused' = [reused EXCEPT ![p] = TRUE]
  /\ Goto(p, "promoted")
  /\ UNCHANGED <<lock, prior, files>>

(* The renamed directory is opened up to its readers.                      *)
OpenUp(p) ==
  /\ pc[p] = "renamed"
  /\ revision' = [revision EXCEPT ![Revision[p]] = "public"]
  /\ Goto(p, "promoted")
  /\ UNCHANGED <<lock, private, staging, temporary, receipt, pointer>>

Clean(p) ==
  /\ pc[p] = "promoted"
  /\ staging' = staging \ {Attempt[p]}
  /\ Goto(p, "cleaned")
  /\ UNCHANGED <<lock, private, temporary, receipt, revision, pointer>>

-----------------------------------------------------------------------------
(* The commit point, and the ways out                                      *)

Point(p) ==
  /\ pc[p] = "receipted"
  /\ pointer' = [revision |-> Revision[p], attempt |-> Attempt[p]]
  /\ Goto(p, "committed")
  /\ UNCHANGED <<lock, private, staging, temporary, receipt, revision>>

(* publish returns and the lock is let go; nothing here can fail.          *)
Return(p) ==
  /\ pc[p] = "committed"
  /\ lock' = Nobody
  /\ Goto(p, "done")
  /\ UNCHANGED <<private, files>>

(* A call in the guarded block raises.  The temporary file of a receipt is *)
(* removed when its link has been tried, unless that fails too.  A failure *)
(* to replace the pointer comes after the block: the staging directory is  *)
(* gone by then, so that the handler changes nothing.                      *)
Fail(p) ==
  /\ pc[p] \in Guarded
  /\ \/ UNCHANGED temporary
     \/ (pc[p] \in {"intentWritten", "intentLinked"} /\
           temporary' = temporary \ {<<Attempt[p], "precommit_intent">>})
     \/ (pc[p] \in {"finalWritten", "finalLinked"} /\
           temporary' = temporary \ {<<Attempt[p], "publication">>})
  /\ Goto(p, "failing")
  /\ UNCHANGED <<lock, private, staging, receipt, revision, pointer>>

(* The handler removes the staging directory, if it can.                   *)
CleanUp(p) ==
  /\ pc[p] = "failing"
  /\ (staging' = staging \ {Attempt[p]} \/ UNCHANGED staging)
  /\ lock' = Nobody
  /\ Goto(p, "failed")
  /\ UNCHANGED <<private, temporary, receipt, revision, pointer>>

(* The process dies; the system releases its lock.                         *)
Die(p) ==
  /\ pc[p] \notin Ended
  /\ lock' = IF lock = p THEN Nobody ELSE lock
  /\ Goto(p, "dead")
  /\ UNCHANGED <<private, files>>

-----------------------------------------------------------------------------
(* The calls that do what they are for, ...                                *)
Onward(p) ==
  \/ Start(p) \/ Acquire(p) \/ ReadPointer(p) \/ Stage(p) \/ Build(p)
  \/ PrecommitReceipt(p) \/ Promote(p) \/ Reuse(p) \/ OpenUp(p) \/ Clean(p)
  \/ PublicationReceipt(p) \/ Point(p) \/ Return(p)

(* ... and what may happen instead.                                        *)
Trouble(p) == GiveUp(p) \/ FailEarly(p) \/ Fail(p) \/ CleanUp(p) \/ Die(p)

Next == \E p \in Publisher : Onward(p) \/ Trouble(p)

Spec == Init /\ [][Next]_vars

-----------------------------------------------------------------------------
(* Safety                                                                  *)

Recorded(a, phase, r) ==
  receipt[<<a, phase>>] # NoReceipt /\ receipt[<<a, phase>>].revision = r

(* What current names is complete at every moment, whoever dies or fails   *)
(* and wherever: the revision is in place, and both receipts of the        *)
(* attempt that named it are published and tell of that revision.  The     *)
(* order of the steps of _publish_locked is there for nothing else.        *)
CurrentIsBacked ==
  pointer # NoPointer =>
    /\ revision[pointer.revision] # "absent"
    /\ \A phase \in Phase : Recorded(pointer.attempt, phase, pointer.revision)

(* No revision is an orphan without a trace: for every one in place, a     *)
(* precommit receipt tells which attempt made it, so that it can be        *)
(* reconciled after a failure between promotion and pointer.               *)
RevisionHasIntent ==
  \A r \in RevisionId : revision[r] # "absent" =>
    \E a \in AttemptId : Recorded(a, "precommit_intent", r)

(* The pointers form one chain: the receipt of the attempt that moves      *)
(* current records the very revision it replaces, however many publishers  *)
(* race, since pointer read and commit are under one lock.                 *)
PriorIsReplaced ==
  [][pointer' # pointer =>
       receipt'[<<pointer'.attempt, "publication">>].prior = pointer.revision]_vars

(* The export is complete where current points: a reader who is not the    *)
(* exporter's user can enter the revision's directory.  It fails: the      *)
(* directory is renamed into place while it is private and opened up       *)
(* afterwards, and a later attempt with the same content reuses what it    *)
(* finds without looking at the permission.                                *)
CurrentIsReadable ==
  pointer # NoPointer => revision[pointer.revision] = "public"

(* A call with an attempt id of its own is never blocked by what earlier   *)
(* calls have left, wherever they failed or died: temporary files, staging *)
(* directories, receipts and revisions that nothing names.  As long as its *)
(* own calls do not fail, it has a next one, up to the commit.             *)
FreshAttemptNotBlocked ==
  \A p \in Publisher :
    /\ pc[p] \in Holding \ {"failing"}
    /\ \A q \in Publisher : Attempt[q] = Attempt[p] => q = p
    => ENABLED Onward(p)
=============================================================================
