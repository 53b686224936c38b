----------------------------- MODULE Operations -----------------------------
(***************************************************************************)
(* What an operator runs by hand: backups, restores and exports of the      *)
(* operational root, and the reviewed backfill, which makes a root of its   *)
(* own, and whose backup and restorations nobody else can reach before its  *)
(* receipt.  command names the one a behaviour is about.                    *)
(***************************************************************************)
EXTENDS Backup

CONSTANTS Attempt, Response, Price, Date, None

\* The row shape the importer has reviewed; None is a date that is not asked for.
Answer == [status : Nat,
           rows : Seq([date : Date \cup {None}, price : Price, consistent : BOOLEAN])]

ASSUME ResponseAssumption == Response \subseteq Answer
ASSUME DateAssumption == IsFiniteSet(Date) /\ Date # {}
ASSUME NoneAssumption == /\ None \notin Attempt
                         /\ None \notin [at : Nat, run : [Date -> Price]]

VARIABLES target, at, command

Backfill == INSTANCE Repopulation

operationVars == <<vars, target, at, command>>

OperationsInit == Init /\ Backfill!Init /\ command \in {"copies", "backfill"}

CopiesStep == command = "copies" /\ Next /\ UNCHANGED <<target, at, command>>
BackfillStep == command = "backfill" /\ Backfill!Next /\ UNCHANGED <<vars, command>>

OperationsNext == CopiesStep \/ BackfillStep

OperationsSpec == OperationsInit /\ [][OperationsNext]_operationVars

-----------------------------------------------------------------------------
\* Once published the receipt of a backfill stands for what is on disk: the
\* stores it speaks of are its own attempt's, and nothing is written over them.
\* And its reading back, replay and evidence never contradict what the attempt
\* itself has done: it ends without a receipt only when the provider's answer
\* is unusable, the root is taken, or it is interrupted.
BackfillSound == Backfill!ReceiptStands /\ Backfill!StepsAgree
=============================================================================
