---------------------------- MODULE Repopulation ----------------------------
(***************************************************************************)
(* The reviewed manual backfill (operations/manual_backfill.py main, with   *)
(* operations/repopulation.py): one fetch published into new stores, read   *)
(* back, replayed, backed up, restored twice, corrected in the second       *)
(* restoration only, and a receipt that comes last.  An attempt that stops  *)
(* removes nothing; the target root is one and fixed, and has to be empty.  *)
(***************************************************************************)
EXTENDS FmpStore

CONSTANTS Attempt,  \* runs of the command, one after another or at once
          Response, \* what the provider may answer
          Price

VARIABLES target,   \* the target root: who made it, its stores and its receipt
          at        \* where each attempt is, and the candidate it holds

repopulationVars == <<target, at>>

NoStores == [stores |-> None, backup |-> None, restored |-> None, rehearsal |-> None]

Init ==
  /\ target = [by |-> None, receipt |-> None, in |-> NoStores]
  /\ at = [a \in Attempt |-> [pc |-> "start", response |-> None]]

In(a, pc) == at[a].pc = pc

Go(a, pc) == at' = [at EXCEPT ![a].pc = pc]

Held(a) == Candidate(at[a].response, 1)

\* The first row's close moves by a cent within its bar.
CorrectedResponse(r, p) == [r EXCEPT !.rows[1].price = p]

\* Arguments, credential and registry are in order; the root must be empty.
Preflight(a) ==
  /\ In(a, "start")
  /\ Go(a, IF target.by = None THEN "checked" ELSE "conflict")
  /\ UNCHANGED target

\* The one provider request, made before anything is created.
Fetch(a) ==
  /\ In(a, "checked")
  /\ \E r \in Response :
       at' = [at EXCEPT ![a] = IF Usable(r) THEN [pc |-> "fetched", response |-> r]
                               ELSE [pc |-> "stopped", response |-> None]]
  /\ UNCHANGED target

\* _create_target_layout looks again: another attempt may have come between.
LaysOut_Trusting(a) == TRUE
LaysOut(a) == target.by = None

Layout(a) ==
  /\ In(a, "fetched")
  /\ IF LaysOut(a)
       THEN Go(a, "laid") /\ target' = [target EXCEPT !.by = a]
       ELSE Go(a, "conflict") /\ UNCHANGED target

Fill(a, from, to, name, m) ==
  /\ In(a, from)
  /\ target' = [target EXCEPT !.in[name] = m]
  /\ Go(a, to)

Initialize(a) == Fill(a, "laid", "ready", "stores", EmptyMarket)

Publish(a) ==
  Fill(a, "ready", "published", "stores", Written(target.in.stores, Held(a)))

ReadsBack(a) == Reconciles(target.in.stores) /\ CapturedPrices(target.in.stores) = Held(a).prices

Reconcile(a) ==
  In(a, "published") /\ ReadsBack(a) /\ Go(a, "reconciled") /\ UNCHANGED target

\* The same candidate again has to be an unchanged run.
Replay(a) ==
  /\ In(a, "reconciled")
  /\ Replayed(target.in.stores, Held(a))
  /\ Go(a, "replayed")
  /\ UNCHANGED target

BackUp(a) == Fill(a, "replayed", "backed up", "backup", target.in.stores)
Restore(a) == Fill(a, "backed up", "restored", "restored", target.in.backup)
RestoreScratch(a) == Fill(a, "restored", "scratch", "rehearsal", target.in.backup)

Scratch == "rehearsal"

\* correction_rehearsal: the corrected body goes through the importer again,
\* bound to the scratch restoration, and has to be a new run.
Correct(a) ==
  /\ In(a, "scratch")
  /\ \E p \in Price :
       LET c == Candidate(CorrectedResponse(at[a].response, p), 2) IN
       /\ c.prices # Held(a).prices
       /\ ~Replayed(target.in[Scratch], c)
       /\ Fill(a, "scratch", "corrected", Scratch, Written(target.in[Scratch], c))

EvidenceAgrees(a) ==
  LET in == target.in IN
  /\ ReadsBack(a)
  /\ in.restored = in.stores
  /\ Corrects(in.rehearsal, CapturedPrices(in.stores))

\* build_repopulation_evidence, then the receipt, linked under its fixed name
\* unless one is there.
PublishReceipt(a) ==
  /\ In(a, "corrected")
  /\ EvidenceAgrees(a)
  /\ target.receipt = None
  /\ target' = [target EXCEPT !.receipt = [by |-> a, in |-> target.in]]
  /\ Go(a, "done")

Ends == {"done", "stopped", "conflict"}

\* An error or a crash at any step.
Stop(a) == at[a].pc \notin Ends /\ Go(a, "stopped") /\ UNCHANGED target

Step(a) ==
  \/ Preflight(a) \/ Fetch(a) \/ Layout(a) \/ Initialize(a) \/ Publish(a) \/ Reconcile(a)
  \/ Replay(a) \/ BackUp(a) \/ Restore(a) \/ RestoreScratch(a) \/ Correct(a)
  \/ PublishReceipt(a)

Next == \E a \in Attempt : Step(a) \/ Stop(a)

Spec == Init /\ [][Next]_repopulationVars

\* Once published the receipt stands for what is on disk: the stores it speaks
\* of are the ones its own attempt made, and nothing is written over them.
ReceiptStands ==
  target.receipt # None => target.receipt.by = target.by /\ target.receipt.in = target.in

\* The reading back, the replay and the evidence never contradict what the
\* attempt has done itself: an attempt ends without a receipt only when the
\* provider's answer is unusable, the root is taken, or it is interrupted.
StepsAgree ==
  \A a \in Attempt :
    /\ In(a, "published") => ReadsBack(a)
    /\ In(a, "reconciled") => Replayed(target.in.stores, Held(a))
    /\ In(a, "corrected") => EvidenceAgrees(a) /\ target.receipt = None
=============================================================================
