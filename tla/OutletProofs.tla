---------------------------- MODULE OutletProofs ----------------------------
(***************************************************************************)
(* Proofs about the three ways out of the stores: AtlasExport, which        *)
(* publishes a snapshot; Dispatcher, which answers requests; and            *)
(* DailyPrices, which is read as of a cutoff.  They share nothing, neither  *)
(* code nor state.                                                          *)
(*                                                                          *)
(* AtlasExport is for any number of publishers, with any attempt ids and    *)
(* any revisions, shared or not.  Its properties are about what is left     *)
(* behind, by calls that may have ended long ago.  The inductive invariant  *)
(* adds what a call that holds the lock has achieved at each of its points: *)
(* which receipts it has published, that its revision is in place, and that *)
(* the pointer is still the one it has read; and of a call with ids of its  *)
(* own, that nobody else has touched what bears them (FreshUntouched).      *)
(*                                                                          *)
(* Dispatcher is for any number of connections and of slots.  Its invariant *)
(* counts the slots, and says of every thread what it may hold and what its *)
(* thread-local must say where it is.                                       *)
(*                                                                          *)
(* DailyPrices is for any batches, symbols, days and cutoffs.  Its          *)
(* invariant adds what makes the chains inductive: versions come from       *)
(* published batches and name a bar of theirs, so that the ids of a batch   *)
(* that is being published are new; the pointer of a bar names the version  *)
(* with the highest number, so that the next number is new as well.         *)
(***************************************************************************)
EXTENDS AtlasExport, Dispatcher, DailyPrices, FiniteSetTheorems, TLAPS

-----------------------------------------------------------------------------

(* The points of a call after its precommit receipt, after its promotion   *)
(* and after its publication receipt, up to the commit.                    *)
Receipted == {"finalLinked", "receipted"}
InPlace == {"renamed", "promoted", "cleaned", "finalWritten"} \cup Receipted
Intended == {"intentLinked", "intended"} \cup InPlace

(* The receipt a call publishes.                                           *)
Own(p) == [revision |-> Revision[p], prior |-> prior[p]]

(* What a call that holds the lock has achieved at each point.  Its        *)
(* attempt id may not be its own, so that a receipt it is about to link    *)
(* must be known to be absent still.                                       *)
Achieved(p) ==
  /\ pc[p] \in {"read"} \cup Guarded => prior[p] = pointer.revision
  /\ pc[p] = "intentWritten" => receipt[<<Attempt[p], "precommit_intent">>] = NoReceipt
  /\ pc[p] \in Intended => receipt[<<Attempt[p], "precommit_intent">>] = Own(p)
  /\ pc[p] \in InPlace => revision[Revision[p]] # "absent"
  /\ pc[p] = "finalWritten" => receipt[<<Attempt[p], "publication">>] = NoReceipt
  /\ pc[p] \in Receipted => receipt[<<Attempt[p], "publication">>] = Own(p)

PhaseOK == \A p \in Publisher : Achieved(p)

IInv ==
  /\ TypeOK
  /\ PhaseOK
  /\ CurrentIsBacked
  /\ RevisionHasIntent

-----------------------------------------------------------------------------
(* The names are what they should be.                                      *)
LEMMA Names ==
  ASSUME NEW p \in Publisher
  PROVE  /\ Attempt[p] \in AttemptId /\ Revision[p] \in RevisionId
         /\ \A phase \in Phase : <<Attempt[p], phase>> \in Receipt
  BY DEF AttemptId, RevisionId, Receipt

(* Init satisfies them.                                                    *)
LEMMA TypeInit == Init => TypeOK
  BY NobodyAssumption DEF Init, TypeOK, Waiting, Holding, Guarded, Ended

(* Every step preserves the types, and that exactly the holder of the lock *)
(* is among the points under it.                                           *)
LEMMA TypeStep == TypeOK /\ [Next]_vars => TypeOK'
<1> SUFFICES ASSUME TypeOK, [Next]_vars PROVE TypeOK'
  OBVIOUS
<1> USE NobodyAssumption DEF TypeOK, Goto, Waiting, Holding, Guarded, Ended, files, private
<1>1. CASE UNCHANGED vars
  BY <1>1 DEF vars
<1>2. ASSUME NEW p \in Publisher, Start(p) \/ Acquire(p) \/ GiveUp(p)
      PROVE  TypeOK'
  BY <1>2 DEF Start, Acquire, GiveUp
<1>3. ASSUME NEW p \in Publisher, ReadPointer(p)
      PROVE  TypeOK'
  BY <1>3 DEF ReadPointer, NoPointer
<1>4. ASSUME NEW p \in Publisher, Stage(p) \/ FailEarly(p)
      PROVE  TypeOK'
  BY <1>4, Names DEF Stage, FailEarly
<1>5. ASSUME NEW p \in Publisher, Build(p) \/ Return(p)
      PROVE  TypeOK'
  BY <1>5 DEF Build, Return
<1>6. ASSUME NEW p \in Publisher, PrecommitReceipt(p)
      PROVE  TypeOK'
  <2>1. <<Attempt[p], "precommit_intent">> \in Receipt /\ Revision[p] \in RevisionId
    BY Names DEF Phase
  <2> QED
    BY <1>6, <2>1 DEF PrecommitReceipt, WriteReceipt, LinkReceipt, SettleReceipt
<1>7. ASSUME NEW p \in Publisher, PublicationReceipt(p)
      PROVE  TypeOK'
  <2>1. <<Attempt[p], "publication">> \in Receipt /\ Revision[p] \in RevisionId
    BY Names DEF Phase
  <2> QED
    BY <1>7, <2>1 DEF PublicationReceipt, WriteReceipt, LinkReceipt, SettleReceipt
<1>8. ASSUME NEW p \in Publisher, Promote(p) \/ Reuse(p) \/ OpenUp(p)
      PROVE  TypeOK'
  BY <1>8, Names DEF Promote, Reuse, OpenUp
<1>9. ASSUME NEW p \in Publisher, Clean(p) \/ CleanUp(p)
      PROVE  TypeOK'
  BY <1>9 DEF Clean, CleanUp
<1>10. ASSUME NEW p \in Publisher, Point(p)
       PROVE  TypeOK'
  BY <1>10, Names DEF Point
<1>11. ASSUME NEW p \in Publisher, Fail(p)
       PROVE  TypeOK'
  BY <1>11 DEF Fail
<1>12. ASSUME NEW p \in Publisher, Die(p)
       PROVE  TypeOK'
  BY <1>12 DEF Die
<1> QED
  BY <1>1, <1>2, <1>3, <1>4, <1>5, <1>6, <1>7, <1>8, <1>9, <1>10, <1>11, <1>12
  DEF Next, Onward, Trouble

(* Every variable of the exporter keeps its type, and the publication lock *)
(* is held by exactly the call that is between acquiring and leaving it.   *)
THEOREM TypeCorrect == Spec => []TypeOK
  BY TypeInit, TypeStep, PTL DEF Spec

-----------------------------------------------------------------------------
(* A receipt names what it records; it is not the sign of an absent one.   *)
LEMMA OwnIsReceipt ==
  ASSUME TypeOK, NEW p \in Publisher
  PROVE  /\ Own(p) # NoReceipt
         /\ Own(p).revision = Revision[p] /\ Own(p).prior = prior[p]
  BY Names, NoReceiptAssumption DEF TypeOK, Own

(* A receipt that is published is never touched again, though it is named  *)
(* by an attempt id that several calls may share and a link does not ask   *)
(* what is there: a call writes its temporary file only when the receipt   *)
(* is absent, and nobody else moves until it has linked it.                *)
LEMMA ReceiptKept ==
  ASSUME TypeOK, PhaseOK, [Next]_vars, NEW r \in Receipt, receipt[r] # NoReceipt
  PROVE  receipt'[r] = receipt[r]
<1> USE DEF TypeOK, files, private
<1>1. CASE UNCHANGED vars
  BY <1>1 DEF vars
<1>2. ASSUME NEW p \in Publisher, Onward(p) \/ Trouble(p),
             ~ PrecommitReceipt(p), ~ PublicationReceipt(p)
      PROVE  UNCHANGED receipt
  BY <1>2 DEF Onward, Trouble, Start, Acquire, ReadPointer, Stage, Build, Promote, Reuse,
              OpenUp, Clean, Point, Return, GiveUp, FailEarly, Fail, CleanUp, Die
<1>3. ASSUME NEW p \in Publisher, PrecommitReceipt(p)
      PROVE  receipt'[r] = receipt[r]
  BY <1>3 DEF PrecommitReceipt, WriteReceipt, LinkReceipt, SettleReceipt, PhaseOK, Achieved
<1>4. ASSUME NEW p \in Publisher, PublicationReceipt(p)
      PROVE  receipt'[r] = receipt[r]
  BY <1>4 DEF PublicationReceipt, WriteReceipt, LinkReceipt, SettleReceipt, PhaseOK, Achieved
<1> QED
  BY <1>1, <1>2, <1>3, <1>4 DEF Next

(* Nor does a revision that is in place ever go away.                      *)
LEMMA RevisionKept ==
  ASSUME TypeOK, [Next]_vars, NEW r \in RevisionId, revision[r] # "absent"
  PROVE  revision'[r] # "absent"
<1> USE DEF TypeOK, files, private
<1>1. CASE UNCHANGED vars
  BY <1>1 DEF vars
<1>2. ASSUME NEW p \in Publisher, Onward(p) \/ Trouble(p), ~ Promote(p), ~ OpenUp(p)
      PROVE  UNCHANGED revision
  BY <1>2 DEF Onward, Trouble, Start, Acquire, ReadPointer, Stage, Build, Reuse, Clean, Point,
              Return, GiveUp, FailEarly, Fail, CleanUp, Die, PrecommitReceipt,
              PublicationReceipt, WriteReceipt, LinkReceipt, SettleReceipt
<1>3. ASSUME NEW p \in Publisher, Promote(p) \/ OpenUp(p)
      PROVE  revision'[r] # "absent"
  BY <1>3 DEF Promote, OpenUp
<1> QED
  BY <1>1, <1>2, <1>3 DEF Next

(* While a publisher is under the lock, a step of another moves neither    *)
(* the pointer nor any receipt.                                            *)
LEMMA OthersKeep ==
  ASSUME TypeOK, PhaseOK, NEW p \in Publisher, Onward(p) \/ Trouble(p),
         NEW q \in Publisher, q # p, pc[q] \in {"read"} \cup Guarded
  PROVE  UNCHANGED <<pc[q], prior[q], pointer, receipt>>
<1> USE NobodyAssumption DEF TypeOK, Goto, Waiting, Holding, Guarded, Ended, files, private
<1>1. lock = q /\ lock # p /\ pc[p] \notin Holding
  OBVIOUS
<1>2. CASE Onward(p)
  BY <1>1, <1>2 DEF Onward, Start, Acquire, ReadPointer, Stage, Build, Promote, Reuse,
              OpenUp, Clean, Point, Return, PrecommitReceipt,
              PublicationReceipt, WriteReceipt, LinkReceipt, SettleReceipt
<1>3. CASE Trouble(p)
  BY <1>1, <1>3 DEF Trouble, GiveUp, FailEarly, Fail, CleanUp, Die
<1> QED
  BY <1>2, <1>3

(* Every step preserves what the calls know of themselves.                 *)
LEMMA PhaseStep == TypeOK /\ PhaseOK /\ [Next]_vars => PhaseOK'
<1> SUFFICES ASSUME TypeOK, PhaseOK, [Next]_vars, NEW q \in Publisher
             PROVE  Achieved(q)'
  BY DEF PhaseOK
<1>t. TypeOK'
  BY TypeStep
<1>n. /\ Revision[q] \in RevisionId
      /\ <<Attempt[q], "precommit_intent">> \in Receipt
      /\ <<Attempt[q], "publication">> \in Receipt
      /\ <<Attempt[q], "publication">> # <<Attempt[q], "precommit_intent">>
  BY Names DEF Phase
<1>p. Achieved(q)
  BY DEF PhaseOK
<1> USE DEF Goto, Waiting, Holding, Guarded, Ended, Intended, InPlace, Receipted, Own,
            files, private
<1>1. CASE UNCHANGED vars
  BY <1>1, <1>p DEF vars, Achieved
<1>2. ASSUME NEW p \in Publisher, Onward(p) \/ Trouble(p), p # q
      PROVE  Achieved(q)'
  <2>1. pc'[q] = pc[q]
    BY <1>2 DEF TypeOK, Onward, Start, Acquire, ReadPointer, Stage, Build, Promote, Reuse,
                OpenUp, Clean, Point, Return, PrecommitReceipt, PublicationReceipt,
                WriteReceipt, LinkReceipt, SettleReceipt, Trouble, GiveUp, FailEarly, Fail,
                CleanUp, Die
  <2>2. CASE pc[q] \in {"read"} \cup Guarded
    <3>1. UNCHANGED <<prior[q], pointer, receipt>>
      BY <1>2, <2>2, OthersKeep
    <3>2. revision[Revision[q]] # "absent" => revision'[Revision[q]] # "absent"
      BY <1>2, <1>n, RevisionKept DEF Next
    <3> QED
      BY <1>p, <2>1, <3>1, <3>2 DEF Achieved
  <2>3. CASE pc[q] \notin {"read"} \cup Guarded
    BY <2>1, <2>3 DEF Achieved
  <2> QED
    BY <2>2, <2>3
<1>3. CASE ReadPointer(q)
  BY <1>3 DEF TypeOK, ReadPointer, Achieved
<1>4. CASE Start(q) \/ Acquire(q) \/ Stage(q) \/ Build(q) \/ Clean(q) \/ Point(q) \/ Return(q)
  BY <1>4, <1>p DEF TypeOK, Start, Acquire, Stage, Build, Clean, Point, Return, Achieved
<1>5. CASE PrecommitReceipt(q)
  BY <1>5, <1>p, <1>n DEF TypeOK, PrecommitReceipt, WriteReceipt, LinkReceipt, SettleReceipt,
                          Unpublished, Achieved
<1>6. CASE PublicationReceipt(q)
  BY <1>6, <1>p, <1>n DEF TypeOK, PublicationReceipt, WriteReceipt, LinkReceipt, SettleReceipt,
                          Unpublished, Achieved
<1>7. CASE Promote(q) \/ Reuse(q) \/ OpenUp(q)
  BY <1>7, <1>p, <1>n DEF TypeOK, Promote, Reuse, OpenUp, Achieved
<1>8. CASE Trouble(q)
  BY <1>8 DEF TypeOK, Trouble, GiveUp, FailEarly, Fail, CleanUp, Die, Achieved
<1> QED
  BY <1>1, <1>2, <1>3, <1>4, <1>5, <1>6, <1>7, <1>8 DEF Next, Onward

-----------------------------------------------------------------------------
(* Initially nothing is there and nobody has achieved anything.            *)
LEMMA IInvInit == Init => IInv
<1> SUFFICES ASSUME Init PROVE IInv
  OBVIOUS
<1>1. TypeOK
  BY TypeInit
<1>2. PhaseOK
  BY DEF Init, PhaseOK, Achieved, Guarded, Intended, InPlace, Receipted
<1>3. CurrentIsBacked /\ RevisionHasIntent
  BY DEF Init, CurrentIsBacked, RevisionHasIntent
<1> QED
  BY <1>1, <1>2, <1>3 DEF IInv

(* What is recorded stays recorded.                                        *)
LEMMA RecordedKept ==
  ASSUME TypeOK, PhaseOK, [Next]_vars,
         NEW a \in AttemptId, NEW phase \in Phase, NEW r, Recorded(a, phase, r)
  PROVE  Recorded(a, phase, r)'
<1>1. <<a, phase>> \in Receipt
  BY DEF Receipt
<1> QED
  BY <1>1, ReceiptKept DEF Recorded

(* The pointer moves only when the call that moves it has everything in    *)
(* place: both receipts of its attempt, and its revision.                  *)
LEMMA BackedStep == IInv /\ [Next]_vars => CurrentIsBacked'
<1> SUFFICES ASSUME IInv, [Next]_vars, pointer' # NoPointer
             PROVE  /\ revision'[pointer'.revision] # "absent"
                    /\ \A phase \in Phase :
                         Recorded(pointer.attempt, phase, pointer.revision)'
  BY DEF CurrentIsBacked
<1>i. TypeOK /\ PhaseOK /\ CurrentIsBacked /\ TypeOK'
  BY TypeStep DEF IInv
<1>1. ASSUME NEW p \in Publisher, Point(p)
      PROVE  /\ revision'[pointer'.revision] # "absent"
             /\ \A phase \in Phase : Recorded(pointer.attempt, phase, pointer.revision)'
  <2>1. Achieved(p) /\ pc[p] \in Receipted
    BY <1>1, <1>i DEF PhaseOK, Point, Receipted
  <2>2. /\ revision[Revision[p]] # "absent"
        /\ \A phase \in Phase : receipt[<<Attempt[p], phase>>] = Own(p)
    BY <2>1 DEF Achieved, InPlace, Intended, Phase
  <2>3. \A phase \in Phase : Recorded(Attempt[p], phase, Revision[p])
    BY <1>i, <2>2, OwnIsReceipt DEF Recorded
  <2>4. /\ pointer'.revision = Revision[p] /\ pointer'.attempt = Attempt[p]
        /\ UNCHANGED <<receipt, revision>>
    BY <1>1 DEF Point
  <2> QED
    BY <2>2, <2>3, <2>4 DEF Recorded
<1>2. CASE UNCHANGED pointer
  <2>1. pointer.revision \in RevisionId /\ pointer.attempt \in AttemptId
    BY <1>2, <1>i DEF TypeOK
  <2> QED
    BY <1>2, <1>i, <2>1, RevisionKept, RecordedKept DEF CurrentIsBacked
<1>3. ASSUME NEW p \in Publisher, Onward(p) \/ Trouble(p), ~ Point(p)
      PROVE  UNCHANGED pointer
  BY <1>3 DEF Onward, Start, Acquire, ReadPointer, Stage, Build, Promote, Reuse,
              OpenUp, Clean, Return, PrecommitReceipt, PublicationReceipt, WriteReceipt,
              LinkReceipt, SettleReceipt, Trouble, GiveUp, FailEarly, Fail, CleanUp, Die,
              files, private
<1> QED
  BY <1>1, <1>2, <1>3 DEF Next, vars

(* A revision comes into place only by a call that has published its       *)
(* precommit receipt.                                                      *)
LEMMA IntentStep == IInv /\ [Next]_vars => RevisionHasIntent'
<1> SUFFICES ASSUME IInv, [Next]_vars, NEW r \in RevisionId, revision'[r] # "absent"
             PROVE  \E a \in AttemptId : Recorded(a, "precommit_intent", r)'
  BY DEF RevisionHasIntent
<1>i. TypeOK /\ PhaseOK /\ RevisionHasIntent
  BY DEF IInv
<1>1. CASE revision[r] # "absent"
  <2>1. PICK a \in AttemptId : Recorded(a, "precommit_intent", r)
    BY <1>1, <1>i DEF RevisionHasIntent
  <2> QED
    BY <1>i, <2>1, RecordedKept DEF Phase
<1>2. CASE revision[r] = "absent"
  <2>1. ASSUME NEW p \in Publisher, Promote(p)
        PROVE  \E a \in AttemptId : Recorded(a, "precommit_intent", r)'
    <3>1. Revision[p] = r /\ UNCHANGED receipt
      BY <1>i, <1>2, <2>1 DEF TypeOK, Promote
    <3>2. receipt[<<Attempt[p], "precommit_intent">>] = Own(p)
      BY <1>i, <2>1 DEF PhaseOK, Achieved, Intended, Promote
    <3>3. Recorded(Attempt[p], "precommit_intent", r)'
      BY <1>i, <3>1, <3>2, OwnIsReceipt DEF Recorded
    <3> QED
      BY <3>3, Names
  <2>2. ASSUME NEW p \in Publisher, OpenUp(p)
        PROVE  FALSE
    <3>1. revision[Revision[p]] # "absent"
      BY <1>i, <2>2 DEF PhaseOK, Achieved, InPlace, OpenUp
    <3> QED
      BY <1>i, <1>2, <2>2, <3>1 DEF TypeOK, OpenUp
  <2>3. ASSUME NEW p \in Publisher, Onward(p) \/ Trouble(p), ~ Promote(p), ~ OpenUp(p)
        PROVE  UNCHANGED revision
    BY <2>3 DEF Onward, Start, Acquire, ReadPointer, Stage, Build, Reuse, Clean, Point,
                Return, PrecommitReceipt, PublicationReceipt, WriteReceipt, LinkReceipt,
                SettleReceipt, Trouble, GiveUp, FailEarly, Fail, CleanUp, Die, files, private
  <2> QED
    BY <1>2, <2>1, <2>2, <2>3 DEF Next, vars
<1> QED
  BY <1>1, <1>2

(* The four parts together are an invariant of the specification.          *)
LEMMA Inductive == Spec => []IInv
<1>1. IInv /\ [Next]_vars => IInv'
  BY TypeStep, PhaseStep, BackedStep, IntentStep DEF IInv
<1> QED
  BY IInvInit, <1>1, PTL DEF Spec

-----------------------------------------------------------------------------
(* What current names is in place and has both its receipts at every       *)
(* moment: no failure or death, of any publisher and between any two       *)
(* calls, can leave the pointer ahead of what it rests on                  *)
(* (_publish_locked).                                                      *)
THEOREM CurrentIsBackedHolds == Spec => []CurrentIsBacked
  BY Inductive, PTL DEF IInv

(* Every revision that is in place is told of by a precommit receipt, so   *)
(* that the remains of any failed publication can be reconciled.           *)
THEOREM RevisionHasIntentHolds == Spec => []RevisionHasIntent
  BY Inductive, PTL DEF IInv

(* The publication receipt of the attempt that moves current records the   *)
(* revision it replaces: pointer read and commit are under one lock.       *)
THEOREM PriorIsReplacedHolds == Spec => PriorIsReplaced
<1>1. ASSUME IInv, [Next]_vars, pointer' # pointer
      PROVE  receipt'[<<pointer'.attempt, "publication">>].prior = pointer.revision
  <2>i. TypeOK /\ PhaseOK
    BY <1>1 DEF IInv
  <2>1. PICK p \in Publisher : Onward(p) \/ Trouble(p)
    BY <1>1 DEF Next, vars
  <2>2. Point(p)
    BY <1>1, <2>1 DEF Onward, Start, Acquire, ReadPointer, Stage, Build, Promote, Reuse,
              OpenUp, Clean, Return, PrecommitReceipt, PublicationReceipt, WriteReceipt,
              LinkReceipt, SettleReceipt, Trouble, GiveUp, FailEarly, Fail, CleanUp, Die,
              files, private
  <2>3. /\ receipt[<<Attempt[p], "publication">>] = Own(p)
        /\ prior[p] = pointer.revision
    BY <2>i, <2>2 DEF PhaseOK, Achieved, Point, Receipted, Guarded
  <2>4. pointer'.attempt = Attempt[p] /\ UNCHANGED receipt
    BY <2>2 DEF Point
  <2> QED
    BY <2>i, <2>3, <2>4, OwnIsReceipt
<1>2. IInv /\ [Next]_vars =>
        [pointer' # pointer =>
           receipt'[<<pointer'.attempt, "publication">>].prior = pointer.revision]_vars
  BY <1>1
<1> QED
  BY Inductive, <1>2, PTL DEF Spec, PriorIsReplaced

(* A published receipt is final: no later call changes what an attempt has *)
(* recorded, though it may come with the same attempt id                   *)
(* (_atomic_publish_new).                                                  *)
THEOREM ReceiptsAreFinal ==
  Spec => [][\A r \in Receipt : receipt[r] # NoReceipt => receipt'[r] = receipt[r]]_vars
<1>1. IInv /\ [Next]_vars =>
        [\A r \in Receipt : receipt[r] # NoReceipt => receipt'[r] = receipt[r]]_vars
  BY ReceiptKept DEF IInv
<1> QED
  BY Inductive, <1>1, PTL DEF Spec

-----------------------------------------------------------------------------
(* A call whose attempt id no other call has, and what no one has made of  *)
(* its names before it comes to make them itself.                          *)
Fresh(p) == \A q \in Publisher : Attempt[q] = Attempt[p] => q = p

Unstaged == {"start", "waiting", "locked", "read"}
Unannounced == Unstaged \cup {"staged", "validated"}
Unfinished == Unannounced \cup
  {"intentWritten", "intentLinked", "intended", "renamed", "promoted", "cleaned"}

Untouched(p) ==
  /\ pc[p] \in Unstaged => Attempt[p] \notin staging
  /\ pc[p] \in Unannounced => Unpublished(<<Attempt[p], "precommit_intent">>)
  /\ pc[p] \in Unfinished => Unpublished(<<Attempt[p], "publication">>)

FreshUntouched == \A p \in Publisher : Fresh(p) => Untouched(p)

(* The guards of the calls that do what they are for, up to the commit and *)
(* the return: what publish tests before each, where it tests anything.    *)
MayGoOn(p) ==
  \/ pc[p] \in {"start", "locked", "staged", "intentWritten", "intentLinked", "intended",
                "renamed", "promoted", "finalWritten", "finalLinked", "receipted", "committed"}
  \/ pc[p] = "waiting" /\ lock = Nobody
  \/ pc[p] = "read" /\ Attempt[p] \notin staging
  \/ pc[p] = "validated" /\ Unpublished(<<Attempt[p], "precommit_intent">>)
  \/ pc[p] = "cleaned" /\ Unpublished(<<Attempt[p], "publication">>)

(* They are no more than the guards.                                       *)
LEMMA GuardsOfOnward ==
  ASSUME TypeOK, NEW p \in Publisher, Onward(p)
  PROVE  MayGoOn(p)
  BY DEF Onward, MayGoOn, TypeOK, Start, Acquire, ReadPointer, Stage, Build, Promote, Reuse,
         OpenUp, Clean, Point, Return, PrecommitReceipt, PublicationReceipt, WriteReceipt,
         LinkReceipt, SettleReceipt

(* A step of another call leaves the names of a fresh one alone.           *)
LEMMA OthersTouchNothing ==
  ASSUME TypeOK, NEW p \in Publisher, NEW q \in Publisher, q # p, Fresh(q), Untouched(q),
         Onward(p) \/ Trouble(p)
  PROVE  Untouched(q)'
<1>1. Attempt[p] # Attempt[q]
  BY DEF Fresh
<1>2. /\ <<Attempt[q], "precommit_intent">> \in Receipt
      /\ <<Attempt[q], "publication">> \in Receipt
  BY Names DEF Phase
<1>3. /\ \A phase \in Phase : <<Attempt[p], phase>> # <<Attempt[q], "precommit_intent">>
      /\ \A phase \in Phase : <<Attempt[p], phase>> # <<Attempt[q], "publication">>
  BY <1>1
<1> USE DEF TypeOK, Goto, files, private
<1>4. pc'[q] = pc[q]
  BY DEF Onward, Start, Acquire, ReadPointer, Stage, Build, Promote, Reuse,
              OpenUp, Clean, Point, Return, PrecommitReceipt, PublicationReceipt,
              WriteReceipt, LinkReceipt, SettleReceipt, Trouble, GiveUp, FailEarly, Fail,
              CleanUp, Die
<1>5. Attempt[q] \notin staging => Attempt[q] \notin staging'
  BY <1>1 DEF Onward, Start, Acquire, ReadPointer, Stage, Build, Promote, Reuse,
              OpenUp, Clean, Point, Return, PrecommitReceipt, PublicationReceipt,
              WriteReceipt, LinkReceipt, SettleReceipt, Trouble, GiveUp, FailEarly, Fail,
              CleanUp, Die
<1>6. ASSUME NEW r \in Receipt, \A phase \in Phase : <<Attempt[p], phase>> # r, Unpublished(r)
      PROVE  Unpublished(r)'
  <2>1. "precommit_intent" \in Phase /\ "publication" \in Phase
    BY DEF Phase
  <2>2. CASE Onward(p)
    BY <1>6, <2>1, <2>2 DEF Unpublished, Onward, Start, Acquire, ReadPointer, Stage, Build,
              Promote, Reuse, OpenUp, Clean, Point, Return, PrecommitReceipt,
              PublicationReceipt, WriteReceipt, LinkReceipt, SettleReceipt
  <2>3. CASE Trouble(p)
    BY <1>6, <2>3 DEF Unpublished, Trouble, GiveUp, FailEarly, Fail, CleanUp, Die
  <2> QED
    BY <2>2, <2>3
<1>7. /\ Unpublished(<<Attempt[q], "precommit_intent">>) => Unpublished(<<Attempt[q], "precommit_intent">>)'
      /\ Unpublished(<<Attempt[q], "publication">>) => Unpublished(<<Attempt[q], "publication">>)'
  BY <1>2, <1>3, <1>6
<1> QED
  BY <1>4, <1>5, <1>7 DEF Untouched

(* A step of the call itself makes each of them only where it is due.      *)
LEMMA OwnStepsTouch ==
  ASSUME TypeOK, NEW p \in Publisher, Untouched(p), Onward(p) \/ Trouble(p)
  PROVE  Untouched(p)'
<1>1. <<Attempt[p], "precommit_intent">> # <<Attempt[p], "publication">>
  OBVIOUS
<1>2. <<Attempt[p], "precommit_intent">> \in Receipt /\ <<Attempt[p], "publication">> \in Receipt
  BY Names DEF Phase
<1> USE DEF TypeOK, Goto, files, private, Untouched, Unpublished, Unstaged, Unannounced,
            Unfinished, Guarded, Ended
<1>3. CASE PrecommitReceipt(p)
  BY <1>1, <1>2, <1>3 DEF PrecommitReceipt, WriteReceipt, LinkReceipt, SettleReceipt
<1>4. CASE PublicationReceipt(p)
  BY <1>1, <1>2, <1>4 DEF PublicationReceipt, WriteReceipt, LinkReceipt, SettleReceipt
<1>5. CASE Start(p) \/ Acquire(p) \/ ReadPointer(p) \/ Stage(p) \/ Build(p)
  BY <1>5 DEF Start, Acquire, ReadPointer, Stage, Build
<1>6. CASE Promote(p) \/ Reuse(p) \/ OpenUp(p) \/ Clean(p) \/ Point(p) \/ Return(p)
  BY <1>6 DEF Promote, Reuse, OpenUp, Clean, Point, Return
<1>7. CASE Trouble(p)
  BY <1>7 DEF Trouble, GiveUp, FailEarly, Fail, CleanUp, Die
<1> QED
  BY <1>3, <1>4, <1>5, <1>6, <1>7 DEF Onward

(* A call with an attempt id of its own finds, at every point under the    *)
(* lock where its own calls have not failed, that the test before its next *)
(* call lets it pass, whatever failed and dead calls have left behind      *)
(* (_publish_locked, _staging_root, _atomic_publish_new).                  *)
THEOREM FreshAttemptMayGoOn ==
  Spec => [](\A p \in Publisher : Fresh(p) /\ pc[p] \in Holding \ {"failing"} => MayGoOn(p))
<1>1. Init => FreshUntouched
  <2> SUFFICES ASSUME Init, NEW p \in Publisher PROVE Untouched(p)
    BY DEF FreshUntouched
  <2>1. <<Attempt[p], "precommit_intent">> \in Receipt /\ <<Attempt[p], "publication">> \in Receipt
    BY Names DEF Phase
  <2> QED
    BY <2>1 DEF Init, Untouched, Unpublished
<1>2. TypeOK /\ FreshUntouched /\ [Next]_vars => FreshUntouched'
  <2> SUFFICES ASSUME TypeOK, FreshUntouched, [Next]_vars, NEW q \in Publisher, Fresh(q)
               PROVE  Untouched(q)'
    BY DEF FreshUntouched, Fresh
  <2>1. Untouched(q)
    BY DEF FreshUntouched
  <2>2. CASE UNCHANGED vars
    BY <2>1, <2>2 DEF vars, Untouched, Unpublished
  <2>3. ASSUME NEW p \in Publisher, Onward(p) \/ Trouble(p) PROVE Untouched(q)'
    BY <2>1, <2>3, OthersTouchNothing, OwnStepsTouch
  <2> QED
    BY <2>2, <2>3 DEF Next
<1>3. FreshUntouched =>
        \A p \in Publisher : Fresh(p) /\ pc[p] \in Holding \ {"failing"} => MayGoOn(p)
  BY DEF FreshUntouched, Untouched, MayGoOn, Holding, Guarded, Unstaged, Unannounced, Unfinished
<1> QED
  BY TypeCorrect, <1>1, <1>2, <1>3, PTL DEF Spec

-----------------------------------------------------------------------------
(***************************************************************************)
(* The service.                                                             *)
(***************************************************************************)
\* Where a thread has a request, and where its call is inside the try block.
Answered == {"reading", "handling", "checking", "computing", "leaving", "called", "answering"}
InCall == {"checking", "computing", "leaving"}
Holders == {t \in Thread : acquired[t]}

(* A call that has a slot is inside call; what its thread-local holds is   *)
(* settled by where it is and what it was asked.                           *)
ThreadOK(t) ==
  /\ at[t] \in {"idle"} \cup Answered
  /\ at[t] \in InCall => request[t] \in Called
  /\ acquired[t] \in BOOLEAN /\ (acquired[t] => at[t] \in InCall)
  /\ at[t] \in {"idle", "reading", "handling"} => timing[t] = None
  /\ at[t] = "called" =>
       timing[t] = (IF request[t] \in Called THEN t ELSE None)
  /\ at[t] = "answering" =>
       /\ request[t] \in {"unparsed", "nameless"} => answer[t].timing = Bare
       /\ request[t] = "outdated" => answer[t].timing = None
       /\ request[t] \notin {"unparsed", "nameless", "outdated"} => answer[t].timing = t

\* The types the proofs use; a thread that is not idle has a request.
Typed ==
  /\ at \in [Thread -> {"idle"} \cup Answered]
  /\ request \in [Thread -> Request \cup {None}]
  /\ acquired \in [Thread -> BOOLEAN]
  /\ timing \in [Thread -> Thread \cup {None}]
  /\ DOMAIN answer = Thread
  /\ \A t \in Thread : at[t] # "idle" => request[t] \in Request

\* The slots that are out are those of the threads that hold one.
Counted == free \in Nat /\ IsFiniteSet(Holders) /\ free + Cardinality(Holders) = Slots

ServiceInv == Typed /\ Counted /\ \A t \in Thread : ThreadOK(t)

LEMMA ServiceStart ==
  ASSUME Slots \in Nat, ServiceInit
  PROVE  ServiceInv
<1>1. Typed /\ \A t \in Thread : ThreadOK(t)
  BY DEF ServiceInit, Typed, ThreadOK, Answered, InCall
<1>2. Holders = {}
  BY DEF ServiceInit, Holders
<1>3. Counted
  BY <1>2, FS_EmptySet DEF ServiceInit, Counted
<1> QED
  BY <1>1, <1>3 DEF ServiceInv

(* No step of a thread touches what is another's: the thread-local too.   *)
LEMMA OtherThreads ==
  ASSUME NEW t \in Thread, NEW x \in Thread \ {t}, Typed,
         Accept(t) \/ Read(t) \/ Handle(t) \/ Respond(t)
  PROVE  /\ at'[x] = at[x] /\ request'[x] = request[x] /\ acquired'[x] = acquired[x]
         /\ timing'[x] = timing[x] /\ answer'[x] = answer[x]
  BY DEF Typed, Accept, Read, Handle, TurnDown, AcquireSlot,
         Check, Compute, Leave, Timed, ReceiptFor,
         Respond, GoTo

LEMMA ServiceTypes ==
  ASSUME NEW t \in Thread, ServiceInv,
         Accept(t) \/ Read(t) \/ Handle(t) \/ Respond(t)
  PROVE  Typed'
<1> USE DEF ServiceInv, Typed, ThreadOK, Answered, InCall, GoTo
<1>1. CASE Accept(t)
  BY <1>1 DEF Accept
<1>2. CASE Read(t)
  BY <1>2 DEF Read
<1>3. CASE TurnDown(t)
  BY <1>3 DEF TurnDown
<1>4. CASE AcquireSlot(t)
  <2>1. request[t] \in Called
    BY <1>4 DEF AcquireSlot
  <2>2. CASE free > 0
    BY <1>4, <2>1, <2>2 DEF AcquireSlot
  <2>3. CASE ~ (free > 0)
    BY <1>4, <2>1, <2>3 DEF AcquireSlot
  <2> QED
    BY <2>2, <2>3
<1>5. CASE Check(t)
  BY <1>5 DEF Check
<1>6. CASE Compute(t)
  BY <1>6 DEF Compute
<1>7. CASE Leave(t)
  BY <1>7 DEF Leave, Timed
<1>8. CASE ReceiptFor(t)
  BY <1>8 DEF ReceiptFor
<1>9. CASE Respond(t)
  BY <1>9 DEF Respond
<1> QED
  BY <1>1, <1>2, <1>3, <1>4, <1>5, <1>6, <1>7, <1>8, <1>9 DEF Handle

LEMMA ThreadStep ==
  ASSUME NEW t \in Thread, ServiceInv,
         Accept(t) \/ Read(t) \/ Handle(t) \/ Respond(t)
  PROVE  ThreadOK(t)'
<1> USE DEF ServiceInv, Typed, ThreadOK, Answered, InCall, GoTo
<1>1. CASE Accept(t)
  BY <1>1 DEF Accept
<1>2. CASE Read(t)
  BY <1>2 DEF Read
<1>3. CASE TurnDown(t)
  BY <1>3 DEF TurnDown
<1>4. CASE AcquireSlot(t)
  <2>1. request[t] \in Called
    BY <1>4 DEF AcquireSlot
  <2>2. CASE free > 0
    BY <1>4, <2>1, <2>2 DEF AcquireSlot
  <2>3. CASE ~ (free > 0)
    BY <1>4, <2>1, <2>3 DEF AcquireSlot
  <2> QED
    BY <2>2, <2>3
<1>5. CASE Check(t)
  BY <1>5 DEF Check
<1>6. CASE Compute(t)
  BY <1>6 DEF Compute
<1>7. CASE Leave(t)
  BY <1>7 DEF Leave, Timed
<1>8. CASE ReceiptFor(t)
  BY <1>8 DEF ReceiptFor, Called, Request
<1>9. CASE Respond(t)
  BY <1>9 DEF Respond
<1> QED
  BY <1>1, <1>2, <1>3, <1>4, <1>5, <1>6, <1>7, <1>8, <1>9 DEF Handle

(* Every step takes, gives back or leaves alone one slot at most, and the  *)
(* set of holders with it.                                                 *)
LEMMA CountStep ==
  ASSUME NEW t \in Thread, ServiceInv,
         Accept(t) \/ Read(t) \/ Handle(t) \/ Respond(t)
  PROVE  Counted'
<1>1. CASE UNCHANGED <<free, acquired>>
  BY <1>1 DEF ServiceInv, Counted, Holders
<1>2. CASE AcquireSlot(t) /\ free > 0
  <2>1. /\ free' = free - 1 /\ Holders' = Holders \cup {t} /\ t \notin Holders
    BY <1>2 DEF ServiceInv, Typed, ThreadOK, InCall, Holders, AcquireSlot
  <2>2. IsFiniteSet(Holders') /\ Cardinality(Holders') = Cardinality(Holders) + 1
    BY <2>1, FS_AddElement DEF ServiceInv, Counted
  <2>3. Cardinality(Holders) \in Nat
    BY FS_CardinalityType DEF ServiceInv, Counted
  <2> QED
    BY <1>2, <2>1, <2>2, <2>3, SMT DEF ServiceInv, Counted
<1>3. CASE Leave(t) /\ acquired[t]
  <2>1. /\ free' = free + 1 /\ Holders' = Holders \ {t} /\ t \in Holders
    BY <1>3 DEF ServiceInv, Typed, Holders, Leave, GivenBack
  <2>2. IsFiniteSet(Holders') /\ Cardinality(Holders') = Cardinality(Holders) - 1
    BY <2>1, FS_RemoveElement DEF ServiceInv, Counted
  <2>3. Cardinality(Holders) \in Nat
    BY FS_CardinalityType DEF ServiceInv, Counted
  <2> QED
    BY <2>1, <2>2, <2>3, SMT DEF ServiceInv, Counted
<1>4. CASE Leave(t) /\ ~ acquired[t]
  <2>1. free' = free /\ Holders' = Holders
    BY <1>4 DEF ServiceInv, Typed, Holders, Leave, GivenBack
  <2> QED
    BY <2>1 DEF ServiceInv, Counted
<1>5. CASE AcquireSlot(t) /\ ~ (free > 0)
  BY <1>1, <1>5 DEF AcquireSlot
<1> QED
  BY <1>1, <1>2, <1>3, <1>4, <1>5 DEF Handle, Accept, Read,
     TurnDown, Check, Compute, ReceiptFor, Respond

LEMMA ServiceKeeps ==
  ASSUME ServiceInv, [ServiceNext]_serviceVars
  PROVE  ServiceInv'
<1>1. ASSUME NEW t \in Thread, Accept(t) \/ Read(t) \/ Handle(t) \/ Respond(t)
      PROVE  ServiceInv'
  <2>1. ASSUME NEW x \in Thread \ {t} PROVE ThreadOK(x)'
    <3>1. ThreadOK(x)
      BY DEF ServiceInv
    <3> QED
      BY <1>1, <3>1, OtherThreads DEF ServiceInv, ThreadOK
  <2> QED
    BY <1>1, <2>1, ServiceTypes, ThreadStep, CountStep DEF ServiceInv
<1>2. CASE UNCHANGED serviceVars
  BY <1>2 DEF serviceVars, ServiceInv, Typed, Counted, Holders, ThreadOK
<1> QED
  BY <1>1, <1>2 DEF ServiceNext

LEMMA ServiceInductive == ServiceSpec => []ServiceInv
<1>1. ServiceInit => ServiceInv
  BY ServiceStart, SlotsAssumption DEF SlotsAssumption
<1> QED
  BY <1>1, ServiceKeeps, PTL DEF ServiceSpec

(* Whatever way a call ends, at capacity, refused, failed or late, the      *)
(* slots in the pool and those of running calls are all the slots there are *)
(* (ToolDispatcher.call).                                      *)
THEOREM SlotsConservedHolds ==
  ServiceSpec => []SlotsConserved
<1>1. ServiceInv => SlotsConserved
  BY DEF ServiceInv, Counted, Holders, ThreadOK, InCall, SlotsConserved
<1> QED
  BY <1>1, ServiceInductive, PTL

(* The receipt of a call has the times of that call, whatever calls other   *)
(* threads make in between; one without a call has none (receipt_for).      *)
THEOREM ReceiptIsOwnHolds ==
  ServiceSpec => []ReceiptIsOwn
<1>1. ServiceInv => ReceiptIsOwn
  BY DEF ServiceInv, ThreadOK, ReceiptIsOwn
<1> QED
  BY <1>1, ServiceInductive, PTL

-----------------------------------------------------------------------------

Sourced ==
  \A v \in versions : ledger[v.id[1]] = "succeeded" /\ v.id[2] \in DOMAIN Rows[v.id[1]]

IsHead(v, k) == v \in OfBar(k) /\ \A w \in OfBar(k) : w.sequence <= v.sequence

Headed ==
  \A k \in Bar :
    /\ current[k] = NoVersion => OfBar(k) = {}
    /\ current[k] # NoVersion => \E v \in versions : v.id = current[k] /\ IsHead(v, k)

Distinct ==
  /\ \A v, w \in versions : v.id = w.id => v = w
  /\ \A k \in Bar : \A v, w \in OfBar(k) : v.sequence = w.sequence => v = w

Follows(v, k) ==
  \E w \in OfBar(k) : /\ w.id = v.supersedes
                      /\ w.sequence + 1 = v.sequence
                      /\ RowOf(w) # RowOf(v)

Linked(k) ==
  \A v \in OfBar(k) : /\ v.sequence = 1 <=> v.supersedes = NoVersion
                      /\ v.sequence > 1 => Follows(v, k)

Numbered(k) ==
  /\ IsFiniteSet(OfBar(k))
  /\ {v.sequence : v \in OfBar(k)} = 1 .. Cardinality(OfBar(k))

PricesInv ==
  /\ PricesTypeOK
  /\ StoredIsReachable
  /\ Sourced
  /\ Headed
  /\ Distinct
  /\ \A k \in Bar : Numbered(k) /\ Linked(k)

-----------------------------------------------------------------------------
(* The first day of a symbol of a batch is one of its days.                *)
LEMMA FirstDayExists ==
  ASSUME NEW b \in Batch, NEW s \in SymbolsOf(b)
  PROVE  /\ FirstDay(b, s) \in Day
         /\ \A k \in DOMAIN Rows[b] : k[1] = s => FirstDay(b, s) <= k[2]
<1> DEFINE D == {d \in Day : <<s, d>> \in DOMAIN Rows[b]}
<1>1. DOMAIN Rows[b] \subseteq Symbol \X Day
  BY RowsAssumption DEF Bar
<1>2. \A k \in DOMAIN Rows[b] : k[1] = s => k[2] \in D
  <2> TAKE k \in DOMAIN Rows[b]
  <2> HAVE k[1] = s
  <2>1. k = <<k[1], k[2]>> /\ k[2] \in Day
    BY <1>1
  <2> QED BY <2>1
<1>3. D # {}
  BY <1>2 DEF SymbolsOf
<1>4. PICK d \in D : \A e \in D : d <= e
  BY <1>3, DayAssumption
<1>5. d \in Day /\ <<s, d>> \in DOMAIN Rows[b] /\ \A k \in DOMAIN Rows[b] : k[1] = s => d <= k[2]
  BY <1>2, <1>4
<1> QED BY <1>5 DEF FirstDay

(* The current version of a bar that has one is its head.                  *)
LEMMA CurrentIsHead ==
  ASSUME PricesInv, NEW k \in Bar, current[k] # NoVersion
  PROVE  /\ CurrentVersion(k) \in versions
         /\ CurrentVersion(k).id = current[k]
         /\ IsHead(CurrentVersion(k), k)
<1>1. PICK v \in versions : v.id = current[k] /\ IsHead(v, k)
  BY DEF PricesInv, Headed
<1>2. CurrentVersion(k) \in versions /\ CurrentVersion(k).id = current[k]
  BY <1>1 DEF CurrentVersion
<1>3. CurrentVersion(k) = v
  BY <1>1, <1>2 DEF PricesInv, Distinct
<1> QED BY <1>1, <1>2, <1>3

(* What a publication makes of a bar: nothing, or one new version at the   *)
(* head of its chain, which has the next number.                           *)
LEMMA NewVersionFields ==
  ASSUME PricesInv, NEW b \in Batch, NEW k \in Changed(b)
  PROVE  /\ k \in Bar /\ k \in DOMAIN Rows[b]
         /\ NewVersion(b, k) \in Version
         /\ NewVersion(b, k).id = <<b, k>>
         /\ NewVersion(b, k).supersedes = current[k]
         /\ current[k] = NoVersion => NewVersion(b, k).sequence = 1
         /\ current[k] # NoVersion =>
              /\ NewVersion(b, k).sequence = CurrentVersion(k).sequence + 1
              /\ CurrentVersion(k).sequence \in Nat
<1>1. k \in Bar /\ k \in DOMAIN Rows[b]
  BY RowsAssumption DEF Changed
<1>2. <<b, k>> \in VersionId
  BY <1>1 DEF VersionId
<1>3. current[k] \in VersionId \cup {NoVersion}
  BY <1>1 DEF PricesInv, PricesTypeOK
<1>4. current[k] # NoVersion => CurrentVersion(k).sequence \in Nat
  BY <1>1, CurrentIsHead DEF PricesInv, PricesTypeOK, Version
<1> QED BY <1>1, <1>2, <1>3, <1>4 DEF NewVersion, Version

LEMMA OfBarStep ==
  ASSUME PricesInv, NEW b \in Batch, Publish(b), NEW k \in Bar
  PROVE  /\ k \in Changed(b) => OfBar(k)' = OfBar(k) \cup {NewVersion(b, k)}
         /\ k \notin Changed(b) => OfBar(k)' = OfBar(k)
<1>1. versions' = versions \cup {NewVersion(b, j) : j \in Changed(b)}
  BY DEF Publish
<1>2. \A j \in Changed(b) : NewVersion(b, j).id[2] = j
  BY NewVersionFields
<1> QED BY <1>1, <1>2 DEF OfBar

(* Every number of a bar's chain is a natural number below that of its     *)
(* head, which is as many as there are.                                    *)
LEMMA HeadNumber ==
  ASSUME PricesInv, NEW k \in Bar, NEW v \in OfBar(k), IsHead(v, k)
  PROVE  v.sequence = Cardinality(OfBar(k)) /\ Cardinality(OfBar(k)) \in Nat \ {0}
<1> DEFINE n == Cardinality(OfBar(k))
<1>1. n \in Nat
  BY FS_CardinalityType DEF PricesInv, Numbered
<1>2. {w.sequence : w \in OfBar(k)} = 1 .. n
  BY DEF PricesInv, Numbered
<1>3. v.sequence \in 1 .. n
  BY <1>2
<1>4. n \in {w.sequence : w \in OfBar(k)}
  BY <1>1, <1>2, <1>3
<1>5. n <= v.sequence
  BY <1>4 DEF IsHead
<1> QED BY <1>1, <1>3, <1>5

-----------------------------------------------------------------------------
(* The invariant holds initially.                                          *)
LEMMA PricesInvInit == PricesInit => PricesInv
<1> SUFFICES ASSUME PricesInit PROVE PricesInv
  OBVIOUS
<1> USE DEF PricesInit
<1>1. PricesTypeOK
  BY DEF PricesTypeOK
<1>2. \A k \in Bar : OfBar(k) = {}
  BY DEF OfBar
<1>3. StoredIsReachable /\ Sourced /\ Headed /\ Distinct
  BY <1>2 DEF StoredIsReachable, Sourced, Headed, Distinct
<1>4. \A k \in Bar : Numbered(k) /\ Linked(k)
  BY <1>2, FS_EmptySet DEF Numbered, Linked
<1> QED BY <1>1, <1>3, <1>4 DEF PricesInv

(* The variables keep their types.                                         *)
LEMMA PricesTypeStep == PricesInv /\ [PricesNext]_priceVars => PricesTypeOK'
<1> SUFFICES ASSUME PricesInv, [PricesNext]_priceVars PROVE PricesTypeOK'
  OBVIOUS
<1>0. PricesTypeOK
  BY DEF PricesInv
<1>1. ASSUME NEW b \in Batch, Publish(b) PROVE PricesTypeOK'
  <2>1. ledger' \in [Batch -> {"none", "succeeded", "failed"}]
    BY <1>0, <1>1 DEF PricesTypeOK, Publish
  <2>2. identifiers' \subseteq [symbol : Symbol, from : Day]
    <3>1. \A s \in SymbolsOf(b) : s \in Symbol
      BY RowsAssumption DEF SymbolsOf, Bar
    <3>2. NewIdentifiers(b) \subseteq [symbol : Symbol, from : Day]
      BY <3>1, FirstDayExists DEF NewIdentifiers
    <3> QED BY <1>0, <1>1, <3>2 DEF PricesTypeOK, Publish
  <2>3. versions' \subseteq Version
    BY <1>0, <1>1, NewVersionFields DEF PricesTypeOK, Publish
  <2>4. current' \in [Bar -> VersionId \cup {NoVersion}]
    BY <1>0, <1>1 DEF PricesTypeOK, Publish, Repointed, VersionId
  <2> QED BY <2>1, <2>2, <2>3, <2>4 DEF PricesTypeOK
<1>2. ASSUME NEW b \in Batch, PublishFails(b) PROVE PricesTypeOK'
  BY <1>0, <1>2 DEF PricesTypeOK, PublishFails
<1>3. CASE UNCHANGED priceVars
  BY <1>0, <1>3 DEF PricesTypeOK, priceVars
<1> QED BY <1>1, <1>2, <1>3 DEF PricesNext

(* Stored bars stay reachable.                                             *)
LEMMA ReachableStep == PricesInv /\ [PricesNext]_priceVars => StoredIsReachable'
<1> SUFFICES ASSUME PricesInv, [PricesNext]_priceVars PROVE StoredIsReachable'
  OBVIOUS
<1>0. StoredIsReachable /\ PricesTypeOK
  BY DEF PricesInv
<1>1. ASSUME NEW b \in Batch, Publish(b) PROVE StoredIsReachable'
  <2>1. identifiers' = identifiers \cup NewIdentifiers(b)
    BY <1>1 DEF Publish
  <2>2. \A i \in NewIdentifiers(b) :
          /\ \A j \in identifiers : i.symbol # j.symbol
          /\ \A j \in NewIdentifiers(b) : i.symbol = j.symbol => i = j
    BY <1>1 DEF NewIdentifiers, Publish, Publishable, Identifiable, Overlaps
  <2>3. \A i, j \in identifiers' : i.symbol = j.symbol => i = j
    BY <1>0, <2>1, <2>2 DEF StoredIsReachable
  <2>4. ASSUME NEW v \in versions' PROVE Resolves(v.id[2][1], v.id[2][2])'
    <3>1. CASE v \in versions
      BY <1>0, <2>1, <3>1 DEF StoredIsReachable, Resolves
    <3>2. ASSUME NEW k \in Changed(b), v = NewVersion(b, k)
          PROVE  Resolves(v.id[2][1], v.id[2][2])'
      <4>1. v.id[2] = k /\ k \in DOMAIN Rows[b] /\ k[2] \in Day
        BY <3>2, NewVersionFields DEF Bar
      <4>2. k[1] \in SymbolsOf(b)
        BY <4>1 DEF SymbolsOf
      <4>3. FirstDay(b, k[1]) \in Day /\ FirstDay(b, k[1]) <= k[2]
        BY <4>1, <4>2, FirstDayExists
      <4>4. CASE Known(b, k[1])
        <5>1. PICK i \in identifiers : i.symbol = k[1] /\ i.from <= FirstDay(b, k[1])
          BY <4>4 DEF Known
        <5>2. i.from \in Day
          BY <1>0 DEF PricesTypeOK
        <5>3. \A x, y, z \in Day : x <= y /\ y <= z => x <= z
          BY DayAssumption
        <5>4. i.from <= k[2]
          BY <4>1, <4>3, <5>1, <5>2, <5>3
        <5> QED BY <2>1, <4>1, <5>1, <5>4 DEF Resolves
      <4>5. CASE ~Known(b, k[1])
        <5>1. [symbol |-> k[1], from |-> FirstDay(b, k[1])] \in identifiers'
          BY <2>1, <4>2, <4>5 DEF NewIdentifiers
        <5> QED BY <4>1, <4>3, <5>1 DEF Resolves
      <4> QED BY <4>4, <4>5
    <3> QED BY <1>1, <2>4, <3>1, <3>2 DEF Publish
  <2> QED BY <2>3, <2>4 DEF StoredIsReachable
<1>2. ASSUME NEW b \in Batch, PublishFails(b) PROVE StoredIsReachable'
  BY <1>0, <1>2 DEF StoredIsReachable, Resolves, PublishFails
<1>3. CASE UNCHANGED priceVars
  BY <1>0, <1>3 DEF StoredIsReachable, Resolves, priceVars
<1> QED BY <1>1, <1>2, <1>3 DEF PricesNext

(* Versions come from published batches.                                   *)
LEMMA SourcedStep == PricesInv /\ [PricesNext]_priceVars => Sourced'
<1> SUFFICES ASSUME PricesInv, [PricesNext]_priceVars PROVE Sourced'
  OBVIOUS
<1>0. Sourced /\ PricesTypeOK
  BY DEF PricesInv
<1>1. ASSUME NEW b \in Batch, Publish(b) PROVE Sourced'
  <2>1. ledger' = [ledger EXCEPT ![b] = "succeeded"]
    BY <1>1 DEF Publish
  <2>2. ASSUME NEW v \in versions
        PROVE  ledger'[v.id[1]] = "succeeded" /\ v.id[2] \in DOMAIN Rows[v.id[1]]
    <3>1. v.id[1] \in Batch
      BY <1>0 DEF PricesTypeOK, Version, VersionId
    <3> QED BY <1>0, <2>1, <3>1 DEF Sourced, PricesTypeOK
  <2>3. ASSUME NEW k \in Changed(b)
        PROVE  /\ ledger'[NewVersion(b, k).id[1]] = "succeeded"
               /\ NewVersion(b, k).id[2] \in DOMAIN Rows[NewVersion(b, k).id[1]]
    <3>1. NewVersion(b, k).id[1] = b /\ NewVersion(b, k).id[2] = k /\ k \in DOMAIN Rows[b]
      BY NewVersionFields
    <3> QED BY <1>0, <2>1, <3>1 DEF PricesTypeOK
  <2> QED BY <1>1, <2>2, <2>3 DEF Sourced, Publish
<1>2. ASSUME NEW b \in Batch, PublishFails(b) PROVE Sourced'
  <2>1. \A v \in versions : v.id[1] \in Batch /\ v.id[1] # b
    BY <1>0, <1>2 DEF PricesTypeOK, Version, VersionId, Sourced, PublishFails
  <2> QED BY <1>0, <1>2, <2>1 DEF Sourced, PublishFails, PricesTypeOK
<1>3. CASE UNCHANGED priceVars
  BY <1>0, <1>3 DEF Sourced, priceVars
<1> QED BY <1>1, <1>2, <1>3 DEF PricesNext

(* A batch that is being published has no version yet.                     *)
LEMMA NewIsNew ==
  ASSUME PricesInv, NEW b \in Batch, Publish(b), NEW v \in versions
  PROVE  v.id[1] # b
BY DEF PricesInv, Sourced, Publish, Publishable

(* The new version of a bar is its head.                                   *)
LEMMA NewIsHead ==
  ASSUME PricesInv, NEW b \in Batch, Publish(b), NEW k \in Changed(b), NEW w \in OfBar(k)
  PROVE  /\ w.sequence \in Nat
         /\ w.sequence < NewVersion(b, k).sequence
<1>0. k \in Bar
  BY NewVersionFields
<1>1. w \in versions /\ w.sequence \in Nat
  BY DEF OfBar, PricesInv, PricesTypeOK, Version
<1>2. current[k] # NoVersion
  BY <1>0 DEF PricesInv, Headed
<1>3. w.sequence <= CurrentVersion(k).sequence
  BY <1>0, <1>2, CurrentIsHead DEF IsHead
<1>4. /\ CurrentVersion(k).sequence \in Nat
      /\ NewVersion(b, k).sequence = CurrentVersion(k).sequence + 1
  BY <1>2, NewVersionFields
<1> QED BY <1>1, <1>3, <1>4

(* Pointers name heads.                                                    *)
LEMMA HeadedStep == PricesInv /\ [PricesNext]_priceVars => Headed'
<1> SUFFICES ASSUME PricesInv, [PricesNext]_priceVars PROVE Headed'
  OBVIOUS
<1>0. Headed /\ PricesTypeOK
  BY DEF PricesInv
<1>1. ASSUME NEW b \in Batch, Publish(b) PROVE Headed'
  <2> SUFFICES ASSUME NEW k \in Bar
               PROVE  /\ current'[k] = NoVersion => OfBar(k)' = {}
                      /\ current'[k] # NoVersion =>
                           \E v \in versions' : v.id = current'[k] /\ IsHead(v, k)'
    BY DEF Headed
  <2>1. versions' = versions \cup {NewVersion(b, j) : j \in Changed(b)}
    BY <1>1 DEF Publish
  <2>2. current'[k] = IF k \in Changed(b) THEN <<b, k>> ELSE current[k]
    BY <1>1 DEF Publish, Repointed
  <2>3. CASE k \in Changed(b)
    <3>0. PICK v \in versions' : v = NewVersion(b, k)
      BY <2>1, <2>3
    <3>1. v.id = current'[k] /\ v.sequence \in Nat
      BY <2>2, <2>3, <3>0, NewVersionFields DEF Version
    <3>2. current'[k] # NoVersion
      BY <2>2, <2>3, NoVersionAssumption DEF VersionId
    <3>3. OfBar(k)' = OfBar(k) \cup {v}
      BY <1>1, <2>3, <3>0, OfBarStep
    <3>4. \A w \in OfBar(k) : w.sequence <= v.sequence
      BY <1>1, <2>3, <3>0, <3>1, NewIsHead
    <3>5. IsHead(v, k)'
      BY <3>1, <3>3, <3>4 DEF IsHead
    <3> QED BY <3>1, <3>2, <3>5
  <2>4. CASE k \notin Changed(b)
    <3>1. OfBar(k)' = OfBar(k)
      BY <1>1, <2>4, OfBarStep
    <3> QED BY <1>0, <2>1, <2>2, <2>4, <3>1 DEF Headed, IsHead
  <2> QED BY <2>3, <2>4
<1>2. ASSUME NEW b \in Batch, PublishFails(b) PROVE Headed'
  BY <1>0, <1>2 DEF Headed, IsHead, OfBar, PublishFails
<1>3. CASE UNCHANGED priceVars
  BY <1>0, <1>3 DEF Headed, IsHead, OfBar, priceVars
<1> QED BY <1>1, <1>2, <1>3 DEF PricesNext

(* Neither an id nor a number of a chain is given twice.                   *)
LEMMA DistinctStep == PricesInv /\ [PricesNext]_priceVars => Distinct'
<1> SUFFICES ASSUME PricesInv, [PricesNext]_priceVars PROVE Distinct'
  OBVIOUS
<1>0. Distinct
  BY DEF PricesInv
<1>1. ASSUME NEW b \in Batch, Publish(b) PROVE Distinct'
  <2>1. versions' = versions \cup {NewVersion(b, j) : j \in Changed(b)}
    BY <1>1 DEF Publish
  <2>2. \A j \in Changed(b) : NewVersion(b, j).id = <<b, j>>
    BY NewVersionFields
  <2>3. \A v \in versions, j \in Changed(b) : v.id # NewVersion(b, j).id
    BY <1>1, <2>2, NewIsNew
  <2>4. \A v, w \in versions' : v.id = w.id => v = w
    BY <1>0, <2>1, <2>2, <2>3 DEF Distinct
  <2>5. ASSUME NEW k \in Bar, NEW v \in OfBar(k)', NEW w \in OfBar(k)', v.sequence = w.sequence
        PROVE  v = w
    <3>1. CASE k \in Changed(b)
      <4>1. OfBar(k)' = OfBar(k) \cup {NewVersion(b, k)}
        BY <1>1, <3>1, OfBarStep
      <4>2. NewVersion(b, k).sequence \in Nat
        BY <3>1, NewVersionFields DEF Version
      <4>3. \A u \in OfBar(k) : u.sequence # NewVersion(b, k).sequence
        BY <1>1, <3>1, <4>2, NewIsHead
      <4> QED BY <1>0, <2>5, <4>1, <4>3 DEF Distinct
    <3>2. CASE k \notin Changed(b)
      BY <1>0, <1>1, <2>5, <3>2, OfBarStep DEF Distinct
    <3> QED BY <3>1, <3>2
  <2> QED BY <2>4, <2>5 DEF Distinct
<1>2. ASSUME NEW b \in Batch, PublishFails(b) PROVE Distinct'
  BY <1>0, <1>2 DEF Distinct, OfBar, PublishFails
<1>3. CASE UNCHANGED priceVars
  BY <1>0, <1>3 DEF Distinct, OfBar, priceVars
<1> QED BY <1>1, <1>2, <1>3 DEF PricesNext

(* The numbers of a chain are 1, 2, 3 and so on.                           *)
LEMMA NumberedStep ==
  ASSUME PricesInv, [PricesNext]_priceVars, NEW k \in Bar
  PROVE  Numbered(k)'
<1>0. Numbered(k)
  BY DEF PricesInv
<1>1. CASE OfBar(k)' = OfBar(k)
  BY <1>0, <1>1 DEF Numbered
<1>2. ASSUME NEW b \in Batch, Publish(b), k \in Changed(b) PROVE Numbered(k)'
  <2> DEFINE n == Cardinality(OfBar(k))
  <2>1. PICK v : v = NewVersion(b, k)
    OBVIOUS
  <2>2. OfBar(k)' = OfBar(k) \cup {v}
    BY <1>2, <2>1, OfBarStep
  <2>3. n \in Nat
    BY <1>0, FS_CardinalityType DEF Numbered
  <2>4. v \notin OfBar(k)
    BY <1>2, <2>1, NewIsHead
  <2>5. IsFiniteSet(OfBar(k)') /\ Cardinality(OfBar(k)') = n + 1
    BY <1>0, <2>2, <2>4, FS_AddElement DEF Numbered
  <2>6. v.sequence = n + 1
    <3>1. CASE current[k] = NoVersion
      <4>1. OfBar(k) = {}
        BY <3>1 DEF PricesInv, Headed
      <4>2. n = 0
        BY <4>1, FS_EmptySet
      <4> QED BY <1>2, <2>1, <3>1, <4>2, NewVersionFields
    <3>2. CASE current[k] # NoVersion
      <4>1. CurrentVersion(k).sequence = n
        BY <3>2, CurrentIsHead, HeadNumber DEF IsHead
      <4> QED BY <1>2, <2>1, <3>2, <4>1, NewVersionFields
    <3> QED BY <3>1, <3>2
  <2>7. {w.sequence : w \in OfBar(k)'} = {w.sequence : w \in OfBar(k)} \cup {n + 1}
    BY <2>2, <2>6
  <2>8. 1 .. (n + 1) = (1 .. n) \cup {n + 1}
    BY <2>3
  <2>9. {w.sequence : w \in OfBar(k)'} = 1 .. (n + 1)
    BY <1>0, <2>7, <2>8 DEF Numbered
  <2> QED BY <2>5, <2>9 DEF Numbered
<1>3. ASSUME NEW b \in Batch, Publish(b), k \notin Changed(b) PROVE Numbered(k)'
  BY <1>1, <1>3, OfBarStep
<1>4. ASSUME NEW b \in Batch, PublishFails(b) PROVE Numbered(k)'
  BY <1>1, <1>4 DEF PublishFails, OfBar
<1>5. CASE UNCHANGED priceVars
  BY <1>1, <1>5 DEF priceVars, OfBar
<1> QED BY <1>2, <1>3, <1>4, <1>5 DEF PricesNext

(* Each version supersedes the one before it and says something else.      *)
LEMMA LinkedStep ==
  ASSUME PricesInv, [PricesNext]_priceVars, NEW k \in Bar
  PROVE  Linked(k)'
<1>0. Linked(k)
  BY DEF PricesInv
<1>1. CASE OfBar(k)' = OfBar(k)
  BY <1>0, <1>1 DEF Linked, Follows, RowOf
<1>2. ASSUME NEW b \in Batch, Publish(b), k \in Changed(b) PROVE Linked(k)'
  <2>1. PICK v : v = NewVersion(b, k)
    OBVIOUS
  <2>2. OfBar(k)' = OfBar(k) \cup {v}
    BY <1>2, <2>1, OfBarStep
  <2>3. ASSUME NEW u \in OfBar(k)
        PROVE  /\ u.sequence = 1 <=> u.supersedes = NoVersion
               /\ u.sequence > 1 => Follows(u, k)'
    BY <1>0, <2>2 DEF Linked, Follows, RowOf
  <2>4. /\ v.sequence = 1 <=> v.supersedes = NoVersion
        /\ v.sequence > 1 => Follows(v, k)'
    <3>1. CASE current[k] = NoVersion
      <4>1. v.sequence = 1 /\ v.supersedes = NoVersion
        BY <1>2, <2>1, <3>1, NewVersionFields
      <4> QED BY <4>1
    <3>2. CASE current[k] # NoVersion
      <4>1. PICK h : h = CurrentVersion(k)
        OBVIOUS
      <4>2. h \in OfBar(k) /\ h.id = current[k] /\ h.sequence \in Nat \ {0}
        BY <3>2, <4>1, CurrentIsHead, HeadNumber DEF IsHead
      <4>3. v.id = <<b, k>> /\ v.supersedes = current[k] /\ v.sequence = h.sequence + 1
        BY <1>2, <2>1, <3>2, <4>1, NewVersionFields
      <4>4. RowOf(h) # RowOf(v)
        BY <1>2, <3>2, <4>1, <4>3 DEF Changed, Matches, RowOf
      <4>5. Follows(v, k)'
        BY <2>2, <4>2, <4>3, <4>4 DEF Follows, RowOf
      <4> QED BY <3>2, <4>2, <4>3, <4>5
    <3> QED BY <3>1, <3>2
  <2> QED BY <2>2, <2>3, <2>4 DEF Linked
<1>3. ASSUME NEW b \in Batch, Publish(b), k \notin Changed(b) PROVE Linked(k)'
  BY <1>1, <1>3, OfBarStep
<1>4. ASSUME NEW b \in Batch, PublishFails(b) PROVE Linked(k)'
  BY <1>1, <1>4 DEF PublishFails, OfBar
<1>5. CASE UNCHANGED priceVars
  BY <1>1, <1>5 DEF priceVars, OfBar
<1> QED BY <1>2, <1>3, <1>4, <1>5 DEF PricesNext

LEMMA PricesInvStep == PricesInv /\ [PricesNext]_priceVars => PricesInv'
BY PricesTypeStep, ReachableStep, SourcedStep, HeadedStep, DistinctStep, NumberedStep, LinkedStep
   DEF PricesInv

LEMMA PricesInductive == PricesSpec => []PricesInv
BY PricesInvInit, PricesInvStep, PTL DEF PricesSpec

-----------------------------------------------------------------------------
(* The variables keep their types, whatever is published.                  *)
THEOREM PricesTypeCorrect == PricesSpec => []PricesTypeOK
<1>1. PricesInv => PricesTypeOK
  BY DEF PricesInv
<1> QED BY <1>1, PricesInductive, PTL

(* Every stored bar is found by its symbol, which is never ambiguous.      *)
THEOREM StoredIsReachableHolds == PricesSpec => []StoredIsReachable
<1>1. PricesInv => StoredIsReachable
  BY DEF PricesInv
<1> QED BY <1>1, PricesInductive, PTL

(* The versions of every bar form one chain that ends in its current       *)
(* version.                                                                *)
THEOREM ChainSoundHolds == PricesSpec => []ChainSound
<1>1. PricesInv => ChainSound
  <2> SUFFICES ASSUME PricesInv, NEW k \in Bar
               PROVE  /\ current[k] = NoVersion <=> OfBar(k) = {}
                      /\ Numbered(k)
                      /\ \A v \in OfBar(k) :
                           /\ ledger[v.id[1]] = "succeeded"
                           /\ v.sequence = 1 <=> v.supersedes = NoVersion
                           /\ v.sequence > 1 => Follows(v, k)
                           /\ IsHead(v, k) => current[k] = v.id
    BY DEF ChainSound, Numbered, Follows, IsHead, Latest
  <2>1. current[k] = NoVersion <=> OfBar(k) = {}
    BY DEF PricesInv, Headed, IsHead
  <2>2. Numbered(k) /\ Linked(k)
    BY DEF PricesInv
  <2>3. ASSUME NEW v \in OfBar(k), IsHead(v, k) PROVE current[k] = v.id
    <3>1. CurrentVersion(k).id = current[k] /\ IsHead(CurrentVersion(k), k)
      BY <2>1, CurrentIsHead
    <3>2. v.sequence = CurrentVersion(k).sequence
      BY <2>3, <3>1, HeadNumber DEF IsHead
    <3> QED BY <3>1, <3>2 DEF PricesInv, Distinct, IsHead
  <2>4. \A v \in OfBar(k) : ledger[v.id[1]] = "succeeded"
    BY DEF PricesInv, Sourced, OfBar
  <2> QED BY <2>1, <2>2, <2>3, <2>4 DEF Linked
<1> QED BY <1>1, PricesInductive, PTL

(* Earlier answers do not change: a publication changes what is to be seen *)
(* of a bar at a cutoff only if it brings a row of that bar which was      *)
(* available at the cutoff.                                                *)
THEOREM AsOfStableHolds == PricesSpec => AsOfStable
<1>1. ASSUME PricesInv, [PricesNext]_priceVars, NEW k \in Bar, NEW c \in Asked, NEW policy \in Policy,
             \A b \in Batch :
               /\ ledger[b] # "succeeded" /\ ledger'[b] = "succeeded"
               /\ k \in DOMAIN Rows[b]
               => ~Included(Rows[b][k].available, c, policy)
      PROVE  AsOf(k, c, policy)' = AsOf(k, c, policy)
  <2>1. Eligible(k, c, policy)' = Eligible(k, c, policy)
    <3>1. CASE OfBar(k)' = OfBar(k)
      BY <3>1 DEF Eligible, RowOf
    <3>2. ASSUME NEW b \in Batch, Publish(b), k \in Changed(b)
          PROVE  Eligible(k, c, policy)' = Eligible(k, c, policy)
      <4>1. PICK v : v = NewVersion(b, k)
        OBVIOUS
      <4>2. v.id = <<b, k>> /\ k \in DOMAIN Rows[b]
        BY <1>1, <3>2, <4>1, NewVersionFields
      <4>3. ledger[b] # "succeeded" /\ ledger'[b] = "succeeded"
        BY <1>1, <3>2 DEF Publish, Publishable, PricesInv, PricesTypeOK
      <4>4. ~Included(RowOf(v).available, c, policy)
        BY <1>1, <4>2, <4>3 DEF RowOf
      <4>5. OfBar(k)' = OfBar(k) \cup {v}
        BY <1>1, <3>2, <4>1, OfBarStep
      <4> QED BY <4>4, <4>5 DEF Eligible, RowOf
    <3>3. ASSUME NEW b \in Batch, Publish(b), k \notin Changed(b)
          PROVE  Eligible(k, c, policy)' = Eligible(k, c, policy)
      BY <1>1, <3>1, <3>3, OfBarStep
    <3>4. ASSUME NEW b \in Batch, PublishFails(b)
          PROVE  Eligible(k, c, policy)' = Eligible(k, c, policy)
      BY <3>1, <3>4 DEF PublishFails, OfBar
    <3>5. CASE UNCHANGED priceVars
      BY <3>1, <3>5 DEF priceVars, OfBar
    <3> QED BY <1>1, <3>2, <3>3, <3>4, <3>5 DEF PricesNext
  <2> QED BY <2>1 DEF AsOf
<1>2. PricesInv /\ [PricesNext]_priceVars =>
        [\A k \in Bar, c \in Asked, policy \in Policy :
           (\A b \in Batch :
              /\ ledger[b] # "succeeded" /\ ledger'[b] = "succeeded"
              /\ k \in DOMAIN Rows[b]
              => ~Included(Rows[b][k].available, c, policy))
           => AsOf(k, c, policy)' = AsOf(k, c, policy)]_priceVars
  BY <1>1
<1> QED BY <1>2, PricesInductive, PTL DEF PricesSpec, AsOfStable

=============================================================================
