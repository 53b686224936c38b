---------------------------- MODULE JobEvidence ----------------------------
(***************************************************************************)
(* The private evidence of job runs: PrivateJobState publishes for a run an *)
(* event log, for a complete macro-monthly run a success marker of its      *)
(* period, and last the receipt, each as a file of its own that is linked   *)
(* into place and never replaces another.  Several runs share the state     *)
(* directory; each looks for its targets before it starts                   *)
(* (preflight_job_evidence, called by OfflineJobRunner.run) and again       *)
(* before it publishes (publish_job_evidence), and nothing is locked in     *)
(* between.  A run that fails to publish takes back what it has made.       *)
(*                                                                         *)
(* A file is known by its name and by the run that linked it.               *)
(***************************************************************************)
EXTENDS Naturals, Sequences

CONSTANTS
  Proc,       \* the job runs
  RunId,      \* the run id of each; the source of run ids is injected
  Period,     \* the marker period of each, or NoPeriod
  NoPeriod,   \* that of a job other than macro-monthly
  Free,       \* the owner of a name nobody has linked
  DiskFaults  \* whether calls of the file system may fail

ASSUME FreeAssumption == Free \notin Proc
ASSUME DiskFaultsAssumption == DiskFaults \in BOOLEAN
ASSUME NamesAssumption == DOMAIN RunId = Proc /\ DOMAIN Period = Proc

Log(p) == <<"logs", RunId[p]>>
Marker(p) == <<"markers", Period[p]>>
Receipt(p) == <<"receipts", RunId[p]>>
Name == {Log(p) : p \in Proc} \cup {Marker(p) : p \in Proc} \cup {Receipt(p) : p \in Proc}

VARIABLES
  file,     \* the run that linked each name
  pc,       \* where each run is
  outcome,  \* whether its steps all succeeded
  wrote,    \* whether it has committed a store (truth)
  made,     \* the names it has published, oldest first
  stained   \* the runs for which the disk has failed after a link

evidenceVars == <<file, pc, outcome, wrote, made, stained>>

(* Defective variants of the definitions below.  Nothing uses them; each   *)
(* stands for a bug the checks have to notice when it takes the place of   *)
(* the definition it is a variant of.                                      *)

(* The marker is asked for whatever the exit code.                         *)
NeedsMarker_Always(p) == Period[p] # NoPeriod

(* The receipt goes first.                                                 *)
Targets_ReceiptFirst(p) ==
  <<Receipt(p), Log(p)>> \o (IF outcome[p] = "success" /\ Period[p] # NoPeriod
                             THEN <<Marker(p)>> ELSE <<>>)

-----------------------------------------------------------------------------
(* marker_required                                                         *)
NeedsMarker(p) == Period[p] # NoPeriod /\ outcome[p] = "success"

(* What publish_job_evidence publishes, in its order.                      *)
Targets(p) ==
  <<Log(p)>> \o (IF NeedsMarker(p) THEN <<Marker(p)>> ELSE <<>>) \o <<Receipt(p)>>

IsPrefixOf(s, t) == Len(s) <= Len(t) /\ s = SubSeq(t, 1, Len(s))

Publishing == {"checked", "linked", "undo"}
Ended == {"done", "failed", "refused", "dead"}

EvidenceTypeOK ==
  /\ file \in [Name -> Proc \cup {Free}]
  /\ pc \in [Proc -> {"start", "running", "finished"} \cup Publishing \cup Ended]
  /\ outcome \in [Proc -> {"none", "success", "failure"}]
  /\ wrote \in [Proc -> BOOLEAN]
  /\ made \in [Proc -> Seq(Name)]
  /\ \A p \in Proc : IsPrefixOf(made[p], Targets(p))
  /\ stained \in SUBSET Proc

EvidenceInit ==
  /\ file = [n \in Name |-> Free]
  /\ pc = [p \in Proc |-> "start"]
  /\ outcome = [p \in Proc |-> "none"]
  /\ wrote = [p \in Proc |-> FALSE]
  /\ made = [p \in Proc |-> <<>>]
  /\ stained = {}

-----------------------------------------------------------------------------
(* More defective variants, for the actions.                              *)

(* The publication ends with the log.                                      *)
Seal_LogOnly(p) ==
  /\ pc[p] = "linked"
  /\ made' = [made EXCEPT ![p] = Append(@, Log(p))]
  /\ pc' = [pc EXCEPT ![p] = "done"]
  /\ UNCHANGED <<file, outcome, wrote, stained>>

-----------------------------------------------------------------------------
Current(p) == Targets(p)[Len(made[p]) + 1]

Become(p, state) == pc' = [pc EXCEPT ![p] = state]

(* preflight_job_evidence as run() calls it: the marker of the period must *)
(* be free even if it will not be needed.                                  *)
Preflight(p) ==
  LET wanted == {Log(p), Receipt(p)} \cup
                (IF Period[p] # NoPeriod THEN {Marker(p)} ELSE {})
  IN /\ pc[p] = "start"
     /\ Become(p, IF \A n \in wanted : file[n] = Free THEN "running" ELSE "refused")
     /\ UNCHANGED <<file, outcome, wrote, made, stained>>

(* The job itself: its steps succeed or not, and write stores or not.      *)
Work(p) ==
  /\ pc[p] = "running"
  /\ \E o \in {"success", "failure"} : outcome' = [outcome EXCEPT ![p] = o]
  /\ \E w \in BOOLEAN : wrote' = [wrote EXCEPT ![p] = w]
  /\ Become(p, "finished")
  /\ UNCHANGED <<file, made, stained>>

(* The second preflight, on the targets that are really needed.            *)
Recheck(p) ==
  /\ pc[p] = "finished"
  /\ Become(p, IF \A i \in DOMAIN Targets(p) : file[Targets(p)[i]] = Free
               THEN "checked" ELSE "failed")
  /\ UNCHANGED <<file, outcome, wrote, made, stained>>

(* _publish_bytes: os.link, the atomic step, on a name nobody has.         *)
Link(p) ==
  /\ pc[p] = "checked"
  /\ file[Current(p)] = Free
  /\ file' = [file EXCEPT ![Current(p)] = p]
  /\ Become(p, "linked")
  /\ UNCHANGED <<outcome, wrote, made, stained>>

(* FileExistsError                                                         *)
Conflict(p) ==
  /\ pc[p] = "checked"
  /\ file[Current(p)] # Free
  /\ Become(p, "undo")
  /\ UNCHANGED <<file, outcome, wrote, made, stained>>

(* Staging the bytes or linking them fails: nothing is visible.            *)
StageFails(p) ==
  /\ DiskFaults
  /\ pc[p] = "checked"
  /\ Become(p, "undo")
  /\ UNCHANGED <<file, outcome, wrote, made, stained>>

(* unlink of the staged name, chmod and fsync of the directory.            *)
Seal(p) ==
  /\ pc[p] = "linked"
  /\ made' = [made EXCEPT ![p] = Append(@, Current(p))]
  /\ Become(p, IF Len(made[p]) + 1 = Len(Targets(p)) THEN "done" ELSE "checked")
  /\ UNCHANGED <<file, outcome, wrote, stained>>

(* One of them fails: the finally clause unlinks the name, or fails to.    *)
SealFails(p) ==
  /\ DiskFaults
  /\ pc[p] = "linked"
  /\ \/ file' = [file EXCEPT ![Current(p)] = Free] /\ UNCHANGED stained
     \/ UNCHANGED file /\ stained' = stained \cup {p}
  /\ Become(p, "undo")
  /\ UNCHANGED <<outcome, wrote, made>>

(* publish_job_evidence takes back what it has made, newest first; an      *)
(* unlink that fails is passed over.                                       *)
Undo(p) ==
  LET newest == made[p][Len(made[p])]
  IN /\ pc[p] = "undo"
     /\ made[p] # <<>>
     /\ \/ file' = [file EXCEPT ![newest] = Free] /\ UNCHANGED stained
        \/ DiskFaults /\ UNCHANGED file /\ stained' = stained \cup {p}
     /\ made' = [made EXCEPT ![p] = SubSeq(@, 1, Len(@) - 1)]
     /\ UNCHANGED <<pc, outcome, wrote>>

(* The error goes to the caller, as JobStepError("io").                    *)
Fail(p) ==
  /\ pc[p] = "undo"
  /\ made[p] = <<>>
  /\ Become(p, "failed")
  /\ UNCHANGED <<file, outcome, wrote, made, stained>>

Crash(p) ==
  /\ pc[p] \notin Ended
  /\ Become(p, "dead")
  /\ UNCHANGED <<file, outcome, wrote, made, stained>>

Advance(p) ==
  \/ Preflight(p) \/ Work(p) \/ Recheck(p) \/ Link(p) \/ Conflict(p)
  \/ StageFails(p) \/ Seal(p) \/ SealFails(p) \/ Undo(p) \/ Fail(p)

EvidenceNext == \E p \in Proc : Advance(p) \/ Crash(p)

EvidenceSpec == EvidenceInit /\ [][EvidenceNext]_evidenceVars

-----------------------------------------------------------------------------
(* A run that reports success has all its evidence in place, under its own *)
(* name, and keeps it whatever the others do.                              *)
DoneComplete ==
  \A p \in Proc : pc[p] = "done" =>
    /\ file[Log(p)] = p /\ file[Receipt(p)] = p
    /\ NeedsMarker(p) => file[Marker(p)] = p

(* The receipt is the commit point of the bundle: if it can be seen, so can*)
(* the log and the marker it goes with, also after a crash, unless the disk*)
(* failed to make it durable and then failed to remove it.                 *)
ReceiptIsCommitPoint ==
  \A p \in Proc : file[Receipt(p)] = p /\ p \notin stained =>
    /\ file[Log(p)] = p
    /\ NeedsMarker(p) => file[Marker(p)] = p

(* A period has at most one successful monthly run, and its marker stands  *)
(* for a run whose steps all succeeded.                                    *)
OneSuccessPerPeriod ==
  /\ \A p, q \in Proc :
       pc[p] = "done" /\ pc[q] = "done" /\ NeedsMarker(p) /\ NeedsMarker(q)
         /\ Period[p] = Period[q] => p = q
  /\ \A n \in {Marker(p) : p \in Proc} : file[n] # Free => outcome[file[n]] = "success"

=============================================================================
