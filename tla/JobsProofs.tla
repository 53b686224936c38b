----------------------------- MODULE JobsProofs -----------------------------
(***************************************************************************)
(* Proofs about JobRunner, for any number of steps, any dependencies, any   *)
(* timeouts and retry policy, and any executors.                            *)
(*                                                                         *)
(* A step's receipt is put together from what four loops and two exception  *)
(* handlers leave behind.  The inductive invariant says what each loop      *)
(* leaves for the next: the steps before the current one are settled, those *)
(* after it untouched, and a receipt, once there is one, is acceptable and  *)
(* tells of the publication it claims.                                      *)
(*                                                                         *)
(* And about JobEvidence, in which the runs publish the evidence of their   *)
(* jobs, for any number of runs, whatever run ids and periods they share,   *)
(* with or without failures of the disk.                                    *)
(*                                                                         *)
(* Nothing is locked between a run's preflight and its links, so the whole  *)
(* argument is about who owns a name.  The inductive invariant says that a  *)
(* run owns only names it was to publish, that it owns all it believes it   *)
(* has made, and, unless the disk has failed it, nothing else but the name  *)
(* it has just linked.                                                     *)
(***************************************************************************)
EXTENDS JobRunner, JobEvidence, WellFoundedInduction, SequenceTheorems, TLAPS

Stores == {Store[s] : s \in Step}

(* At every moment: a receipt is acceptable and claims no publication that *)
(* has not been returned, and no publication is noted without its commit.  *)
StepOK(s) ==
  /\ receipt[s] # NoReceipt => StepAcceptable(receipt[s])
  /\ receipt[s].outcome \in Good => publication[s].outcome = receipt[s].outcome
  /\ s \in prepared => attempts[s] > 0
  /\ publication[s].wrote => s \in committed /\ aliases = Stores

(* Nothing has been done about the step, and: it has been through the      *)
(* first loop, which gives it a candidate or a receipt, never both.        *)
Untouched(s) == s \notin prepared /\ receipt[s] = NoReceipt
Settled(s) == s \in prepared <=> receipt[s] = NoReceipt

StartOK ==
  phase = "start" => cur = 1 /\ \A s \in Step : Untouched(s) /\ attempts[s] = 0

PrepareOK ==
  phase \in {"prepare", "judge"} =>
    /\ \A s \in Step : s < cur => Settled(s)
    /\ \A s \in Step : s >= cur => Untouched(s)
    /\ \A s \in Step : s > cur => attempts[s] = 0
    /\ cur \in Step /\ attempts[cur] > 0 => Runnable(cur)
    /\ cur \in Step /\ phase = "prepare" => attempts[cur] < MaxAttempts

PublishOK ==
  /\ phase \in {"locking", "publish", "publishing"} =>
       \A s \in Step : s \notin prepared => receipt[s] # NoReceipt
  /\ phase \in {"publish", "publishing"} => \A s \in Step : s < cur => receipt[s] # NoReceipt
  /\ phase = "publishing" => Publishable(cur) /\ ~ PredecessorFailed(cur)
  /\ phase \in {"release", "receipt"} => \A s \in Step : receipt[s] # NoReceipt
  /\ phase \in {"publish", "publishing", "release"} => aliases = Stores

ReportOK ==
  report # NoReport =>
    /\ phase \in {"evidence", "done", "raised"}
    /\ report.runs = {s \in Step : publication[s].wrote}
    /\ report.stores = {Store[s] : s \in report.runs}

IInv ==
  /\ TypeOK
  /\ \A s \in Step : StepOK(s)
  /\ StartOK
  /\ PrepareOK
  /\ PublishOK
  /\ ReportOK

-----------------------------------------------------------------------------
(* Lemmas about the operators of the runner.                               *)

(* A set of naturals that is not empty has a least member.                 *)
LEMMA LeastMember ==
  ASSUME NEW T \in SUBSET Nat, T # {}
  PROVE  \E x \in T : \A y \in T : x <= y
<1>1. PICK x \in T : \A y \in T : ~ (<<y, x>> \in OpToRel(<, Nat))
  BY NatLessThanWellFounded, WFMin
<1>2. ASSUME NEW y \in T, y < x
      PROVE  <<y, x>> \in OpToRel(<, Nat)
  BY <1>2 DEF OpToRel
<1>3. \A y \in T : x <= y
  <2> SUFFICES ASSUME NEW y \in T PROVE x <= y
    OBVIOUS
  <2>1. ~ (y < x)
    BY <1>1, <1>2
  <2>2. x \in Nat /\ y \in Nat
    OBVIOUS
  <2> QED
    BY <2>1, <2>2
<1> QED
  BY <1>1, <1>3

(* Every error code has an exit code of a failure; that of a timeout is    *)
(* its own.                                                                *)
LEMMA ExitOfFails ==
  ASSUME NEW code \in Code
  PROVE  ExitOf(code) \in Exits \ {0} /\ (code = "timeout" => ExitOf(code) = 124)
  BY DEF Code, Retryable, ExitOf, Exits

LEMMA Faults == /\ PrepareFault \subseteq Code /\ PublishFault \subseteq Code
                /\ "timeout" \notin PrepareFault /\ "timeout" \notin PublishFault
  BY FaultAssumption

(* A blocked step fails with the exit code of a failure, that of a         *)
(* predecessor or 70.                                                      *)
LEMMA DependencyExitFails ==
  ASSUME TypeOK, NEW s \in Step
  PROVE  DependencyExit(s) \in Exits \ {0}
<1> DEFINE failed == {d \in Deps[s] : receipt[d].exit # 0}
<1>1. failed \subseteq Step /\ failed \subseteq Nat
  BY StepAssumption DEF Step
<1>2. \A d \in Step : receipt[d].exit \in Exits
  BY DEF TypeOK, Receipts, NoReceipt, Exits
<1>3. CASE failed = {}
  BY <1>3 DEF DependencyExit, Exits
<1>4. CASE failed # {}
  <2>1. \E d \in failed : \A e \in failed : d <= e
    BY <1>1, <1>4, LeastMember
  <2>2. (CHOOSE d \in failed : \A e \in failed : d <= e) \in failed
    BY <2>1
  <2>3. DependencyExit(s) = receipt[CHOOSE d \in failed : \A e \in failed : d <= e].exit
    BY <1>4 DEF DependencyExit
  <2> QED
    BY <1>1, <1>2, <2>2, <2>3
<1> QED
  BY <1>3, <1>4

(* The exit code of the job is that of a failure just if a step has one.   *)
LEMMA AggregateExitFails ==
  ASSUME TypeOK
  PROVE  /\ AggregateExit \in Exits
         /\ AggregateExit = 0 <=> \A s \in Step : receipt[s].exit = 0
<1> DEFINE hits == {i \in DOMAIN Precedence : \E s \in Step : receipt[s].exit = Precedence[i]}
<1>1. hits \subseteq 1 .. 7 /\ hits \subseteq Nat
  BY DEF Precedence
<1>2. \A s \in Step : receipt[s].exit \in Exits
  BY DEF TypeOK, Receipts, NoReceipt, Exits
<1>3. /\ \A i \in 1 .. 7 : Precedence[i] \in Exits \ {0}
      /\ \A x \in Exits \ {0} : \E i \in 1 .. 7 : Precedence[i] = x
      /\ DOMAIN Precedence = 1 .. 7
  BY DEF Precedence, Exits
<1>4. hits = {} <=> \A s \in Step : receipt[s].exit = 0
  BY <1>2, <1>3
<1>5. CASE hits = {}
  BY <1>4, <1>5 DEF AggregateExit, Exits
<1>6. CASE hits # {}
  <2>1. \E i \in hits : \A j \in hits : i <= j
    BY <1>1, <1>6, LeastMember
  <2>2. (CHOOSE i \in hits : \A j \in hits : i <= j) \in hits
    BY <2>1
  <2>3. AggregateExit = Precedence[CHOOSE i \in hits : \A j \in hits : i <= j]
    BY <1>6 DEF AggregateExit
  <2> HIDE DEF hits
  <2> QED
    BY <1>1, <1>3, <1>4, <1>6, <2>2, <2>3
<1> QED
  BY <1>5, <1>6

(* What an executor reports says whether it wrote.                         *)
LEMMA PublicationOutcome ==
  ASSUME NEW p \in Publications
  PROVE  /\ p.outcome \in Good \cup {"partial"}
         /\ p.outcome = "succeeded" => p.wrote
  BY DEF Publications, Good

LEMMA WroteType ==
  ASSUME NEW p \in Publications \cup {NoPublication}
  PROVE  p.wrote \in BOOLEAN
<1>1. CASE p = [outcome |-> "succeeded", wrote |-> TRUE]
  BY <1>1
<1>2. CASE p = [outcome |-> "unchanged", wrote |-> FALSE]
  BY <1>2
<1>3. CASE p = [outcome |-> "partial", wrote |-> TRUE]
  BY <1>3
<1>4. CASE p = [outcome |-> "partial", wrote |-> FALSE]
  BY <1>4
<1>5. CASE p = [outcome |-> "none", wrote |-> FALSE]
  BY <1>5
<1> QED
  BY <1>1, <1>2, <1>3, <1>4, <1>5 DEF Publications, NoPublication

(* A step's receipt has its type, whatever it is put together from.        *)
LEMMA StepReceiptType ==
  ASSUME TypeOK, NEW s \in Step, NEW result \in Outcomes, NEW exit \in Exits,
         NEW error \in StepError, NEW p \in Publications \cup {NoPublication}
  PROVE  StepReceipt(s, result, exit, error, p) \in Receipts
<1>1. p.wrote \in BOOLEAN
  BY WroteType
<1> QED
  BY <1>1 DEF TypeOK, StepReceipt, Receipts

(* What a session that fails makes of the receipts.                        *)
LEMMA RelabelType ==
  ASSUME TypeOK, NEW error \in Code, Relabel(error)
  PROVE  receipt' \in [Step -> Receipts \cup {NoReceipt}]
<1>1. ExitOf(error) \in Exits
  BY ExitOfFails
<1>2. \A s \in Step : publication[s] \in Publications \cup {NoPublication}
  BY DEF TypeOK
<1>3. error \in StepError
  BY DEF StepError
<1>4. \A s \in Step : StepReceipt(s, IF publication[s].wrote THEN "partial" ELSE "failed",
                                 ExitOf(error), error, publication[s]) \in Receipts
  BY <1>1, <1>2, <1>3, StepReceiptType DEF Outcomes
<1> QED
  BY <1>4 DEF TypeOK, Relabel

(* Time passes forwards only.                                              *)
LEMMA PassType ==
  ASSUME TypeOK, NEW s \in Step, NEW d \in Nat, Pass(s, d)
  PROVE  now' \in Nat /\ spent' \in [Step -> Nat]
  BY DEF TypeOK, Pass

(* What the receipt of the job is made of has the type of a report.        *)
LEMMA BuiltType ==
  ASSUME TypeOK
  PROVE  /\ Built.semantic \in Semantics /\ Built.exit \in Exits
         /\ Built.stores \in SUBSET Stores /\ Built.runs \in SUBSET Step
         /\ Built.errors \in SUBSET StepError
<1>1. \A s \in Step : receipt[s].error \in StepError
  BY DEF TypeOK, Receipts, NoReceipt, StepError
<1>2. AggregateExit \in Exits
  BY AggregateExitFails
<1> QED
  BY <1>1, <1>2 DEF Built, Semantics, Stores

-----------------------------------------------------------------------------
(* Init satisfies the types.                                               *)
LEMMA TypeInit == Init => TypeOK
<1> SUFFICES ASSUME Init PROVE TypeOK
  OBVIOUS
<1>1. cur \in 1 .. (N + 1)
  BY StepAssumption DEF Init
<1>2. attempts \in [Step -> 0 .. MaxAttempts] /\ spent \in [Step -> Nat] /\ now \in Nat
  BY DEF Init, MaxAttempts
<1>3. /\ report.semantic \in Semantics \cup {"none"} /\ report.exit \in Exits
      /\ report.stores = {} /\ report.runs = {} /\ report.errors = {}
  BY DEF Init, NoReport, Exits
<1> QED
  BY <1>1, <1>2, <1>3 DEF Init, TypeOK, Phases

(* Every step preserves the types: no loop leaves its range, and no step   *)
(* has more attempts than the policy allows.                               *)
LEMMA TypeStep == IInv /\ [Next]_vars => TypeOK'
<1> SUFFICES ASSUME IInv, [Next]_vars PROVE TypeOK'
  OBVIOUS
<1>i. TypeOK /\ StartOK /\ PrepareOK
  BY DEF IInv
<1>n. N \in Nat /\ \A s \in Step : s \in Nat /\ s + 1 \in 1 .. (N + 1)
  BY StepAssumption DEF Step
<1>s. \A s \in Step : s \in 1 .. (N + 1)
  BY <1>n DEF Step
<1> USE DEF Phases
<1>1. CASE UNCHANGED vars
  BY <1>1, <1>i DEF vars, TypeOK
<1>2. CASE SkipJob
  <2>1. NoPublication \in Publications \cup {NoPublication} /\ 0 \in Exits /\ "skipped" \in Outcomes
        /\ "none" \in StepError
    BY DEF Exits, Outcomes, StepError
  <2>2. \A s \in Step : StepReceipt(s, "skipped", 0, "none", NoPublication) \in Receipts
    BY <1>i, <2>1, StepReceiptType
  <2> QED
    BY <1>2, <1>i, <2>2 DEF SkipJob, TypeOK
<1>3. CASE PreflightFails \/ StartPrepare \/ EndPrepare \/ EndPublish \/ PublishEvidence
  BY <1>3, <1>i DEF PreflightFails, StartPrepare, EndPrepare, EndPublish, PublishEvidence, TypeOK
<1>4. CASE LocksRefused
  <2>1. receipt' \in [Step -> Receipts \cup {NoReceipt}]
    <3>1. PICK error \in {"lock_conflict", "io", "internal"} : Relabel(error)
      BY <1>4 DEF LocksRefused
    <3> QED
      BY <1>i, <3>1, RelabelType DEF Code
  <2>2. now' \in Nat
    BY <1>4, <1>i DEF LocksRefused, TypeOK
  <2> QED
    BY <1>4, <1>i, <2>1, <2>2 DEF LocksRefused, TypeOK
<1>5. CASE LocksGranted
  <2>1. now' \in Nat
    BY <1>5, <1>i DEF LocksGranted, TypeOK
  <2>2. 1 \in 1 .. (N + 1)
    BY <1>n
  <2> QED
    BY <1>5, <1>i, <2>1, <2>2 DEF LocksGranted, TypeOK
<1>6. CASE Release
  <2>1. receipt' \in [Step -> Receipts \cup {NoReceipt}]
    <3>1. CASE UNCHANGED receipt
      BY <1>i, <3>1 DEF TypeOK
    <3>2. CASE Relabel("io")
      BY <1>i, <3>2, RelabelType DEF Code
    <3> QED
      BY <1>6, <3>1, <3>2 DEF Release
  <2> QED
    BY <1>6, <1>i, <2>1 DEF Release, TypeOK
<1>7. CASE BuildReceipt
  <2>1. /\ report'.semantic \in Semantics \cup {"none"} /\ report'.exit \in Exits
        /\ report'.stores \in SUBSET Stores /\ report'.runs \in SUBSET Step
        /\ report'.errors \in SUBSET StepError
    <3>1. CASE Acceptable
      BY <1>7, <1>i, <3>1, BuiltType DEF BuildReceipt
    <3>2. CASE ~ Acceptable
      BY <1>7, <3>2 DEF BuildReceipt, NoReport, Exits
    <3> QED
      BY <3>1, <3>2
  <2> QED
    BY <1>7, <1>i, <2>1 DEF BuildReceipt, TypeOK, Stores
<1>8. ASSUME NEW s \in Step, Block(s)
      PROVE  TypeOK'
  <2>1. NoPublication \in Publications \cup {NoPublication} /\ "blocked" \in Outcomes
        /\ "dependency_blocked" \in StepError /\ DependencyExit(s) \in Exits
    BY <1>i, DependencyExitFails DEF Outcomes, StepError
  <2>2. StepReceipt(s, "blocked", DependencyExit(s), "dependency_blocked", NoPublication) \in Receipts
    BY <1>i, <2>1, StepReceiptType
  <2> QED
    BY <1>8, <1>i, <1>n, <2>2 DEF Block, TypeOK
<1>9. ASSUME NEW s \in Step, Attempt(s)
      PROVE  TypeOK'
  <2>1. attempts' \in [Step -> 0 .. MaxAttempts] /\ attempts'[s] > 0 /\ cur = s
    BY <1>9, <1>i DEF Attempt, PrepareOK, TypeOK, MaxAttempts
  <2>2. now' \in Nat /\ spent' \in [Step -> Nat] /\ fault' \in Code \cup {"none"}
    <3>1. CASE Remaining(s) <= 0 /\ fault' = "timeout" /\ UNCHANGED <<now, spent>>
      BY <1>i, <3>1 DEF TypeOK, Code
    <3>2. ASSUME NEW d \in CallTime(s), NEW f \in PrepareFault \cup {"none", "timeout"},
                 Pass(s, d), fault' = IF Late(s, d) THEN "timeout" ELSE f
          PROVE  now' \in Nat /\ spent' \in [Step -> Nat] /\ fault' \in Code \cup {"none"}
      <4>1. d \in Nat
        BY DEF CallTime
      <4>2. fault' \in Code \cup {"none"}
        BY <3>2, Faults DEF Code
      <4> QED
        BY <1>i, <3>2, <4>1, <4>2, PassType
    <3> QED
      BY <1>9, <3>1, <3>2 DEF Attempt
  <2> QED
    BY <1>9, <1>i, <2>1, <2>2 DEF Attempt, TypeOK
<1>10. ASSUME NEW s \in Step, Accept(s) \/ PassOver(s) \/ PublishBegin(s) \/ Commit(s)
       PROVE  TypeOK'
  BY <1>10, <1>i, <1>n DEF Accept, PassOver, PublishBegin, Commit, TypeOK
<1>11. ASSUME NEW s \in Step, Retry(s)
       PROVE  TypeOK'
  <2>1. PICK delay \in Delays(s), e \in 0 .. Slack : Pass(s, delay + e)
    BY <1>11 DEF Retry
  <2>2. delay \in Nat
    <3>1. attempts[s] \in 1 .. MaxAttempts
      BY <1>11, <1>i DEF Retry, TypeOK
    <3>2. Least(Backoff[attempts[s]], MaxDelay) \in Nat
      BY <3>1, TimeAssumption DEF Least
    <3> QED
      BY <3>2, TimeAssumption DEF Delays
  <2>3. delay + e \in Nat
    BY <2>2, TimeAssumption
  <2>4. now' \in Nat /\ spent' \in [Step -> Nat]
    BY <1>i, <2>1, <2>3, PassType
  <2> QED
    BY <1>11, <1>i, <2>4 DEF Retry, TypeOK
<1>12. ASSUME NEW s \in Step, GiveUp(s)
       PROVE  TypeOK'
  <2>1. fault \in Code
    BY <1>12, <1>i DEF GiveUp, TypeOK
  <2>2. /\ NoPublication \in Publications \cup {NoPublication} /\ fault \in StepError
        /\ (IF fault = "timeout" THEN "timed_out" ELSE "failed") \in Outcomes
        /\ ExitOf(fault) \in Exits
    BY <2>1, ExitOfFails DEF Outcomes, StepError
  <2>3. StepReceipt(s, IF fault = "timeout" THEN "timed_out" ELSE "failed",
                    ExitOf(fault), fault, NoPublication) \in Receipts
    BY <1>i, <2>2, StepReceiptType
  <2> QED
    BY <1>12, <1>i, <1>n, <2>3 DEF GiveUp, TypeOK
<1>13. ASSUME NEW s \in Step, PublishBlocked(s) \/ PublishTooLate(s)
       PROVE  TypeOK'
  <2>1. /\ NoPublication \in Publications \cup {NoPublication} /\ DependencyExit(s) \in Exits
        /\ {"failed", "timed_out"} \subseteq Outcomes /\ 124 \in Exits
        /\ {"dependency_blocked", "timeout"} \subseteq StepError
    BY <1>i, DependencyExitFails DEF Outcomes, StepError, Exits, Code
  <2>2. /\ StepReceipt(s, "failed", DependencyExit(s), "dependency_blocked", NoPublication) \in Receipts
        /\ StepReceipt(s, "timed_out", 124, "timeout", NoPublication) \in Receipts
    BY <1>i, <2>1, StepReceiptType
  <2> QED
    BY <1>13, <1>i, <1>n, <2>2 DEF PublishBlocked, PublishTooLate, TypeOK
<1>14. ASSUME NEW s \in Step, Return(s)
       PROVE  TypeOK'
  <2>1. PICK p \in Publications, d \in CallTime(s) :
          /\ Pass(s, d)
          /\ publication' = [publication EXCEPT ![s] = p]
          /\ receipt' = [receipt EXCEPT ![s] =
               IF Late(s, d) THEN StepReceipt(s, "timed_out", 124, "timeout", p)
               ELSE IF p.outcome = "partial"
               THEN StepReceipt(s, "partial", 70, "partial_publication", p)
               ELSE StepReceipt(s, p.outcome, 0, "none", p)]
    BY <1>14 DEF Return
  <2>2. now' \in Nat /\ spent' \in [Step -> Nat]
    BY <1>i, <2>1, PassType DEF CallTime
  <2>3. /\ p.outcome \in Outcomes /\ {"timed_out", "partial"} \subseteq Outcomes
        /\ {0, 70, 124} \subseteq Exits
        /\ {"timeout", "partial_publication", "none"} \subseteq StepError
    BY PublicationOutcome DEF Outcomes, Exits, StepError, Code, Good
  <2>4. /\ StepReceipt(s, "timed_out", 124, "timeout", p) \in Receipts
        /\ StepReceipt(s, "partial", 70, "partial_publication", p) \in Receipts
        /\ StepReceipt(s, p.outcome, 0, "none", p) \in Receipts
    BY <1>i, <2>3, StepReceiptType
  <2> QED
    BY <1>14, <1>i, <1>n, <2>1, <2>2, <2>4 DEF Return, TypeOK
<1>15. ASSUME NEW s \in Step, Raise(s)
       PROVE  TypeOK'
  <2>1. PICK f \in PublishFault \cup {"timeout"}, d \in CallTime(s) :
          /\ Pass(s, d)
          /\ receipt' = [receipt EXCEPT ![s] =
               StepReceipt(s, IF f = "timeout" THEN "timed_out" ELSE "failed",
                           ExitOf(f), f, NoPublication)]
    BY <1>15 DEF Raise
  <2>2. now' \in Nat /\ spent' \in [Step -> Nat]
    BY <1>i, <2>1, PassType DEF CallTime
  <2>3. f \in Code
    BY Faults DEF Code
  <2>4. /\ NoPublication \in Publications \cup {NoPublication} /\ f \in StepError
        /\ (IF f = "timeout" THEN "timed_out" ELSE "failed") \in Outcomes
        /\ ExitOf(f) \in Exits
    BY <2>3, ExitOfFails DEF Outcomes, StepError
  <2>5. StepReceipt(s, IF f = "timeout" THEN "timed_out" ELSE "failed",
                    ExitOf(f), f, NoPublication) \in Receipts
    BY <1>i, <2>4, StepReceiptType
  <2> QED
    BY <1>15, <1>i, <1>n, <2>1, <2>2, <2>5 DEF Raise, TypeOK
<1> QED
  BY <1>1, <1>2, <1>3, <1>4, <1>5, <1>6, <1>7, <1>8, <1>9, <1>10, <1>11, <1>12, <1>13, <1>14, <1>15
  DEF Next, StepAction

-----------------------------------------------------------------------------
(* The receipts of a step, each acceptable to the class it is an instance  *)
(* of: that of a failure after an attempt, ...                             *)
LEMMA FailureAcceptable ==
  ASSUME TypeOK, NEW s \in Step, attempts[s] > 0,
         NEW result \in {"failed", "timed_out", "partial"}, NEW exit \in Exits \ {0},
         NEW error \in StepError \ {"none"}, NEW p \in Publications \cup {NoPublication},
         result = "timed_out" => exit = 124
  PROVE  LET r == StepReceipt(s, result, exit, error, p)
         IN  StepAcceptable(r) /\ r # NoReceipt /\ r.outcome = result
<1>1. result \in Outcomes
  BY DEF Outcomes
<1>2. StepReceipt(s, result, exit, error, p) \in Receipts
  BY <1>1, StepReceiptType
<1> QED
  BY <1>2 DEF StepReceipt, StepAcceptable, NoReceipt, Good

(* ... that of a success, ...                                              *)
LEMMA SuccessAcceptable ==
  ASSUME TypeOK, NEW s \in Step, attempts[s] > 0, NEW result \in Good,
         NEW p \in Publications
  PROVE  LET r == StepReceipt(s, result, 0, "none", p)
         IN  StepAcceptable(r) /\ r # NoReceipt /\ r.outcome = result
<1>1. result \in Outcomes /\ 0 \in Exits /\ "none" \in StepError
  BY DEF Outcomes, Good, Exits, StepError
<1>2. StepReceipt(s, result, 0, "none", p) \in Receipts
  BY <1>1, StepReceiptType
<1> QED
  BY <1>2 DEF StepReceipt, StepAcceptable, NoReceipt, Good

(* ... and that of a step without an attempt.                              *)
LEMMA IdleAcceptable ==
  ASSUME TypeOK, NEW s \in Step, attempts[s] = 0
  PROVE  /\ LET r == StepReceipt(s, "skipped", 0, "none", NoPublication)
            IN  StepAcceptable(r) /\ r # NoReceipt /\ r.outcome = "skipped"
         /\ LET r == StepReceipt(s, "blocked", DependencyExit(s), "dependency_blocked", NoPublication)
            IN  StepAcceptable(r) /\ r # NoReceipt /\ r.outcome = "blocked"
<1>1. /\ {"skipped", "blocked"} \subseteq Outcomes /\ 0 \in Exits /\ DependencyExit(s) \in Exits \ {0}
      /\ {"none", "dependency_blocked"} \subseteq StepError
      /\ NoPublication \in Publications \cup {NoPublication}
  BY DependencyExitFails DEF Outcomes, Exits, StepError
<1>2. /\ StepReceipt(s, "skipped", 0, "none", NoPublication) \in Receipts
      /\ StepReceipt(s, "blocked", DependencyExit(s), "dependency_blocked", NoPublication) \in Receipts
  BY <1>1, StepReceiptType
<1> QED
  BY <1>1, <1>2 DEF StepReceipt, StepAcceptable, NoReceipt, Good

(* A session that fails leaves every prepared step with the receipt of a   *)
(* failure, and the other steps alone.                                     *)
LEMMA RelabelEffect ==
  ASSUME IInv, NEW error \in Code \ {"timeout"}, Relabel(error), NEW s \in Step
  PROVE  \/ receipt'[s] = receipt[s] /\ (s \in prepared => receipt[s] # NoReceipt)
         \/ /\ s \in prepared /\ StepAcceptable(receipt'[s]) /\ receipt'[s] # NoReceipt
            /\ receipt'[s].outcome \notin Good
<1>1. CASE s \in prepared /\ receipt[s].exit = 0
  <2> DEFINE result == IF publication[s].wrote THEN "partial" ELSE "failed"
  <2>1. /\ TypeOK /\ attempts[s] > 0 /\ result \in {"failed", "timed_out", "partial"}
        /\ result # "timed_out" /\ ExitOf(error) \in Exits \ {0} /\ error \in StepError \ {"none"}
        /\ publication[s] \in Publications \cup {NoPublication}
    BY <1>1, ExitOfFails DEF IInv, TypeOK, StepOK, StepError, Code, Retryable
  <2>2. receipt'[s] = StepReceipt(s, result, ExitOf(error), error, publication[s])
    BY <1>1 DEF Relabel
  <2>3. /\ StepAcceptable(receipt'[s]) /\ receipt'[s] # NoReceipt
        /\ receipt'[s].outcome = result
    BY <2>1, <2>2, FailureAcceptable
  <2> QED
    BY <1>1, <2>3 DEF Good
<1>2. CASE ~ (s \in prepared /\ receipt[s].exit = 0)
  BY <1>2 DEF Relabel, NoReceipt
<1> QED
  BY <1>1, <1>2

(* What each action says of the step it is about.                          *)
LEMMA VerdictAcceptable ==
  ASSUME IInv, NEW s \in Step,
         Block(s) \/ GiveUp(s) \/ PublishBlocked(s) \/ PublishTooLate(s) \/ Return(s) \/ Raise(s)
  PROVE  /\ StepAcceptable(receipt'[s]) /\ receipt'[s] # NoReceipt
         /\ receipt'[s].outcome \in Good => publication'[s].outcome = receipt'[s].outcome
         /\ \A q \in Step \ {s} : receipt'[q] = receipt[q]
<1>i. TypeOK /\ StepOK(s) /\ PrepareOK /\ PublishOK
  BY DEF IInv
<1>n. NoPublication \in Publications \cup {NoPublication} /\ 70 \in Exits \ {0} /\ 124 \in Exits \ {0}
      /\ {"dependency_blocked", "partial_publication", "timeout"} \subseteq StepError \ {"none"}
      /\ Code \subseteq StepError \ {"none"}
  BY DEF Exits, StepError, Code, Retryable
<1>o. \A q \in Step \ {s} : receipt'[q] = receipt[q]
  BY <1>i DEF TypeOK, Block, GiveUp, PublishBlocked, PublishTooLate, Return, Raise
<1>a. ASSUME NEW r, StepAcceptable(r), r # NoReceipt, r.outcome \notin Good,
             receipt' = [receipt EXCEPT ![s] = r]
      PROVE  /\ StepAcceptable(receipt'[s]) /\ receipt'[s] # NoReceipt
             /\ receipt'[s].outcome \in Good => publication'[s].outcome = receipt'[s].outcome
  BY <1>a, <1>i DEF TypeOK
<1>1. CASE Block(s)
  <2>1. attempts[s] = 0
    BY <1>1, <1>i DEF Block, PrepareOK, TypeOK
  <2> QED
    BY <1>1, <1>a, <1>i, <1>o, <2>1, IdleAcceptable DEF Block, Good
<1>2. CASE GiveUp(s)
  <2> DEFINE result == IF fault = "timeout" THEN "timed_out" ELSE "failed"
  <2>1. /\ attempts[s] > 0 /\ fault \in Code /\ fault \in StepError \ {"none"}
    BY <1>2, <1>i, <1>n DEF GiveUp, TypeOK
  <2>2. /\ result \in {"failed", "timed_out", "partial"} /\ ExitOf(fault) \in Exits \ {0}
        /\ result = "timed_out" => ExitOf(fault) = 124
    BY <2>1, ExitOfFails
  <2>3. LET r == StepReceipt(s, result, ExitOf(fault), fault, NoPublication)
        IN  StepAcceptable(r) /\ r # NoReceipt /\ r.outcome = result
    BY <1>i, <1>n, <2>1, <2>2, FailureAcceptable
  <2> QED
    BY <1>2, <1>a, <1>o, <2>3 DEF GiveUp, Good
<1>3. CASE PublishBlocked(s)
  <2>1. attempts[s] > 0
    BY <1>3, <1>i DEF PublishBlocked, Publishable, StepOK
  <2>2. LET r == StepReceipt(s, "failed", DependencyExit(s), "dependency_blocked", NoPublication)
        IN  StepAcceptable(r) /\ r # NoReceipt /\ r.outcome = "failed"
    BY <1>i, <1>n, <2>1, DependencyExitFails, FailureAcceptable
  <2> QED
    BY <1>3, <1>a, <1>o, <2>2 DEF PublishBlocked, Good
<1>4. CASE PublishTooLate(s)
  <2>1. attempts[s] > 0
    BY <1>4, <1>i DEF PublishTooLate, Publishable, StepOK
  <2>2. LET r == StepReceipt(s, "timed_out", 124, "timeout", NoPublication)
        IN  StepAcceptable(r) /\ r # NoReceipt /\ r.outcome = "timed_out"
    BY <1>i, <1>n, <2>1, FailureAcceptable
  <2> QED
    BY <1>4, <1>a, <1>o, <2>2 DEF PublishTooLate, Good
<1>5. CASE Return(s)
  <2>1. PICK p \in Publications, d \in CallTime(s) :
          /\ publication' = [publication EXCEPT ![s] = p]
          /\ receipt' = [receipt EXCEPT ![s] =
               IF Late(s, d) THEN StepReceipt(s, "timed_out", 124, "timeout", p)
               ELSE IF p.outcome = "partial"
               THEN StepReceipt(s, "partial", 70, "partial_publication", p)
               ELSE StepReceipt(s, p.outcome, 0, "none", p)]
    BY <1>5 DEF Return
  <2>2. attempts[s] > 0 /\ p \in Publications \cup {NoPublication} /\ p.outcome \in Good \cup {"partial"}
    BY <1>5, <1>i, PublicationOutcome DEF Return, PublishOK, Publishable, StepOK
  <2>3. LET r == StepReceipt(s, "timed_out", 124, "timeout", p)
        IN  StepAcceptable(r) /\ r # NoReceipt /\ r.outcome = "timed_out"
    BY <1>i, <1>n, <2>2, FailureAcceptable
  <2>4. LET r == StepReceipt(s, "partial", 70, "partial_publication", p)
        IN  StepAcceptable(r) /\ r # NoReceipt /\ r.outcome = "partial"
    BY <1>i, <1>n, <2>2, FailureAcceptable
  <2>5. p.outcome \in Good =>
          LET r == StepReceipt(s, p.outcome, 0, "none", p)
          IN  StepAcceptable(r) /\ r # NoReceipt /\ r.outcome = p.outcome
    BY <1>i, <2>2, SuccessAcceptable
  <2>6. CASE Late(s, d)
    BY <1>a, <1>o, <2>1, <2>3, <2>6 DEF Good
  <2>7. CASE ~ Late(s, d) /\ p.outcome = "partial"
    BY <1>a, <1>o, <2>1, <2>4, <2>7 DEF Good
  <2>8. CASE ~ Late(s, d) /\ p.outcome # "partial"
    <3>1. publication'[s] = p /\ receipt'[s] = StepReceipt(s, p.outcome, 0, "none", p)
      BY <1>i, <2>1, <2>8 DEF TypeOK
    <3> QED
      BY <1>o, <2>2, <2>5, <2>8, <3>1
  <2> QED
    BY <2>6, <2>7, <2>8
<1>6. CASE Raise(s)
  <2>1. PICK f \in PublishFault \cup {"timeout"}, d \in CallTime(s) :
          receipt' = [receipt EXCEPT ![s] =
               StepReceipt(s, IF f = "timeout" THEN "timed_out" ELSE "failed",
                           ExitOf(f), f, NoPublication)]
    BY <1>6 DEF Raise
  <2> DEFINE result == IF f = "timeout" THEN "timed_out" ELSE "failed"
  <2>2. f \in Code /\ f \in StepError \ {"none"}
    BY <1>n, Faults DEF Code
  <2>3. attempts[s] > 0
    BY <1>6, <1>i DEF Raise, PublishOK, Publishable, StepOK
  <2>4. /\ result \in {"failed", "timed_out", "partial"} /\ ExitOf(f) \in Exits \ {0}
        /\ result = "timed_out" => ExitOf(f) = 124
    BY <2>2, ExitOfFails
  <2>5. LET r == StepReceipt(s, result, ExitOf(f), f, NoPublication)
        IN  StepAcceptable(r) /\ r # NoReceipt /\ r.outcome = result
    BY <1>i, <1>n, <2>2, <2>3, <2>4, FailureAcceptable
  <2> QED
    BY <1>a, <1>o, <2>1, <2>5 DEF Good
<1> QED
  BY <1>1, <1>2, <1>3, <1>4, <1>5, <1>6

-----------------------------------------------------------------------------
(* The five parts of the inductive invariant, one after the other.  First: *)
(* what holds of every step at every moment.                               *)
LEMMA StepOKStep == IInv /\ [Next]_vars => \A s \in Step : StepOK(s)'
<1> SUFFICES ASSUME IInv, [Next]_vars, NEW q \in Step PROVE StepOK(q)'
  OBVIOUS
<1>i. TypeOK /\ StepOK(q) /\ StartOK /\ PrepareOK /\ PublishOK
  BY DEF IInv
<1>1. CASE UNCHANGED vars
  BY <1>1, <1>i DEF vars, StepOK
<1>2. CASE SkipJob
  <2>1. attempts[q] = 0 /\ q \notin prepared
    BY <1>2, <1>i DEF SkipJob, StartOK, Untouched
  <2>2. receipt'[q] = StepReceipt(q, "skipped", 0, "none", NoPublication)
    BY <1>2 DEF SkipJob
  <2>3. StepAcceptable(receipt'[q]) /\ receipt'[q].outcome \notin Good
    BY <1>i, <2>1, <2>2, IdleAcceptable DEF Good
  <2> QED
    BY <1>2, <1>i, <2>1, <2>3 DEF SkipJob, StepOK
<1>3. CASE PreflightFails \/ StartPrepare \/ EndPrepare \/ EndPublish \/ PublishEvidence \/ BuildReceipt
  BY <1>3, <1>i DEF PreflightFails, StartPrepare, EndPrepare, EndPublish, PublishEvidence,
                    BuildReceipt, StepOK
<1>4. ASSUME NEW error \in Code \ {"timeout"}, Relabel(error),
             UNCHANGED <<publication, attempts, prepared, committed, aliases>>
      PROVE  StepOK(q)'
  BY <1>4, <1>i, RelabelEffect DEF StepOK
<1>5. CASE LocksRefused
  BY <1>4, <1>5 DEF LocksRefused, Code
<1>6. CASE Release
  <2>1. CASE UNCHANGED receipt
    BY <1>6, <1>i, <2>1 DEF Release, StepOK
  <2>2. CASE Relabel("io")
    BY <1>4, <1>6, <2>2 DEF Release, Code
  <2> QED
    BY <1>6, <2>1, <2>2 DEF Release
<1>7. CASE LocksGranted
  BY <1>7, <1>i DEF LocksGranted, StepOK, Stores
<1>8. ASSUME NEW s \in Step,
             Block(s) \/ GiveUp(s) \/ PublishBlocked(s) \/ PublishTooLate(s) \/ Raise(s)
      PROVE  StepOK(q)'
  <2>1. UNCHANGED <<publication, attempts, prepared, committed, aliases>>
    BY <1>8 DEF Block, GiveUp, PublishBlocked, PublishTooLate, Raise
  <2>2. /\ StepAcceptable(receipt'[s])
        /\ receipt'[s].outcome \in Good => publication'[s].outcome = receipt'[s].outcome
        /\ q # s => receipt'[q] = receipt[q]
    BY <1>8, VerdictAcceptable
  <2> QED
    BY <1>i, <2>1, <2>2 DEF StepOK
<1>9. ASSUME NEW s \in Step, Attempt(s) \/ Retry(s) \/ PassOver(s) \/ PublishBegin(s)
      PROVE  StepOK(q)'
  BY <1>9, <1>i DEF Attempt, Retry, PassOver, PublishBegin, StepOK, TypeOK
<1>10. ASSUME NEW s \in Step, Accept(s) \/ Commit(s)
       PROVE  StepOK(q)'
  BY <1>10, <1>i DEF Accept, Commit, StepOK, TypeOK
<1>11. ASSUME NEW s \in Step, Return(s)
       PROVE  StepOK(q)'
  <2>1. UNCHANGED <<attempts, prepared, committed, aliases>> /\ aliases = Stores
    BY <1>11, <1>i DEF Return, PublishOK
  <2>2. /\ StepAcceptable(receipt'[s])
        /\ receipt'[s].outcome \in Good => publication'[s].outcome = receipt'[s].outcome
        /\ q # s => receipt'[q] = receipt[q]
    BY <1>11, VerdictAcceptable
  <2>3. /\ publication'[s].wrote => s \in committed
        /\ q # s => publication'[q] = publication[q]
    BY <1>11, <1>i DEF Return, TypeOK
  <2> QED
    BY <1>i, <2>1, <2>2, <2>3 DEF StepOK
<1> QED
  BY <1>1, <1>2, <1>3, <1>5, <1>6, <1>7, <1>8, <1>9, <1>10, <1>11 DEF Next, StepAction

(* Nothing returns to the start.                                           *)
LEMMA StartStep == IInv /\ [Next]_vars => StartOK'
<1> SUFFICES ASSUME IInv, [Next]_vars, phase' = "start" PROVE UNCHANGED vars
  BY DEF IInv, StartOK, vars, Untouched
<1> QED
  BY DEF Next, StepAction, SkipJob, PreflightFails, StartPrepare, EndPrepare, LocksRefused,
         LocksGranted, EndPublish, Release, BuildReceipt, PublishEvidence, Block, Attempt,
         Accept, Retry, GiveUp, PassOver, PublishBlocked, PublishTooLate, PublishBegin, Commit,
         Return, Raise

(* The first loop settles its steps one after the other.                   *)
LEMMA PrepareStep == IInv /\ [Next]_vars => PrepareOK'
<1> SUFFICES ASSUME IInv, [Next]_vars PROVE PrepareOK'
  OBVIOUS
<1>i. TypeOK /\ StartOK /\ PrepareOK /\ TypeOK'
  BY TypeStep DEF IInv
<1>n. N \in Nat /\ \A s \in Step : s \in Nat
  BY StepAssumption DEF Step
<1>1. CASE UNCHANGED vars
  BY <1>1, <1>i DEF vars, PrepareOK, Settled, Untouched, Runnable
<1>2. CASE StartPrepare
  <2>1. cur' = 1 /\ \A s \in Step : Untouched(s)' /\ attempts'[s] = 0
    BY <1>2, <1>i DEF StartPrepare, StartOK, Untouched
  <2>2. \A s \in Step : s >= 1 /\ ~ (s < 1)
    BY <1>n DEF Step
  <2> QED
    BY <2>1, <2>2 DEF PrepareOK, Untouched, MaxAttempts
<1>3. ASSUME NEW s \in Step, Block(s) \/ GiveUp(s)
      PROVE  PrepareOK'
  <2>1. /\ phase \in {"prepare", "judge"} /\ cur = s /\ cur' = s + 1 /\ phase' = "prepare"
        /\ UNCHANGED <<prepared, attempts>>
    BY <1>3 DEF Block, GiveUp
  <2>2. receipt'[s] # NoReceipt /\ \A q \in Step \ {s} : receipt'[q] = receipt[q]
    BY <1>3, VerdictAcceptable
  <2> QED
    BY <1>i, <1>n, <2>1, <2>2 DEF PrepareOK, Settled, Untouched, MaxAttempts
<1>4. ASSUME NEW s \in Step, Attempt(s)
      PROVE  PrepareOK'
  <2>1. /\ phase = "prepare" /\ cur = s /\ phase' = "judge" /\ Runnable(s)
        /\ UNCHANGED <<cur, prepared, receipt>>
        /\ \A q \in Step \ {s} : attempts'[q] = attempts[q]
    BY <1>4, <1>i DEF Attempt, TypeOK
  <2> QED
    BY <1>i, <1>n, <2>1 DEF PrepareOK, Settled, Untouched, Runnable
<1>5. ASSUME NEW s \in Step, Accept(s)
      PROVE  PrepareOK'
  <2>1. /\ phase = "judge" /\ cur = s /\ cur' = s + 1 /\ phase' = "prepare"
        /\ prepared' = prepared \cup {s} /\ UNCHANGED <<receipt, attempts>>
    BY <1>5 DEF Accept
  <2> QED
    BY <1>i, <1>n, <2>1 DEF PrepareOK, Settled, Untouched, MaxAttempts
<1>6. ASSUME NEW s \in Step, Retry(s)
      PROVE  PrepareOK'
  <2>1. /\ phase = "judge" /\ cur = s /\ phase' = "prepare" /\ attempts[s] < MaxAttempts
        /\ UNCHANGED <<cur, prepared, receipt, attempts>>
    BY <1>6 DEF Retry
  <2>2. Runnable(s)
    BY <1>i, <2>1 DEF PrepareOK, TypeOK
  <2> QED
    BY <1>i, <1>n, <2>1, <2>2 DEF PrepareOK, Settled, Untouched, Runnable
<1>7. CASE phase' \notin {"prepare", "judge"}
  BY <1>7 DEF PrepareOK
<1> QED
  BY <1>1, <1>2, <1>3, <1>4, <1>5, <1>6, <1>7 DEF Next, StepAction, SkipJob, PreflightFails,
     EndPrepare, LocksRefused, LocksGranted, EndPublish, Release, BuildReceipt, PublishEvidence,
     PassOver, PublishBlocked, PublishTooLate, PublishBegin, Commit, Return, Raise

(* The second loop and the two handlers leave no step without a receipt.   *)
LEMMA PublishStep == IInv /\ [Next]_vars => PublishOK'
<1> SUFFICES ASSUME IInv, [Next]_vars PROVE PublishOK'
  OBVIOUS
<1>i. TypeOK /\ StartOK /\ PrepareOK /\ PublishOK /\ TypeOK'
  BY TypeStep DEF IInv
<1>n. N \in Nat /\ \A s \in Step : s \in Nat /\ s < N + 1
  BY StepAssumption DEF Step
<1>1. CASE UNCHANGED vars
  BY <1>1, <1>i DEF vars, PublishOK, Publishable, PredecessorFailed
<1>2. CASE SkipJob
  <2>1. \A s \in Step : receipt'[s] = StepReceipt(s, "skipped", 0, "none", NoPublication)
    BY <1>2 DEF SkipJob
  <2>2. \A s \in Step : receipt'[s] # NoReceipt
    BY <1>2, <1>i, <2>1, IdleAcceptable DEF SkipJob, StartOK
  <2> QED
    BY <1>2, <2>2 DEF SkipJob, PublishOK
<1>3. CASE EndPrepare
  <2>1. \A s \in Step : Settled(s)
    BY <1>3, <1>i, <1>n DEF EndPrepare, PrepareOK
  <2> QED
    BY <1>3, <2>1 DEF EndPrepare, PublishOK, Settled
<1>4. ASSUME NEW error \in Code \ {"timeout"}, Relabel(error),
             phase \in {"locking", "release"}, phase' = "receipt"
      PROVE  PublishOK'
  <2>1. \A s \in Step : receipt'[s] # NoReceipt
    BY <1>4, <1>i, RelabelEffect DEF PublishOK
  <2> QED
    BY <1>4, <2>1 DEF PublishOK
<1>5. CASE LocksRefused
  BY <1>4, <1>5 DEF LocksRefused, Code
<1>6. CASE Release
  <2>1. CASE UNCHANGED receipt
    BY <1>6, <1>i, <2>1 DEF Release, PublishOK
  <2>2. CASE Relabel("io")
    BY <1>4, <1>6, <2>2 DEF Release, Code
  <2> QED
    BY <1>6, <2>1, <2>2 DEF Release
<1>7. CASE LocksGranted
  BY <1>7, <1>i, <1>n DEF LocksGranted, PublishOK, Stores, Step
<1>8. ASSUME NEW s \in Step, PassOver(s)
      PROVE  PublishOK'
  <2>1. receipt[s] # NoReceipt
    BY <1>8, <1>i DEF PassOver, PublishOK, Publishable
  <2> QED
    BY <1>8, <1>i, <1>n, <2>1 DEF PassOver, PublishOK
<1>9. ASSUME NEW s \in Step, PublishBlocked(s) \/ PublishTooLate(s) \/ Return(s) \/ Raise(s)
      PROVE  PublishOK'
  <2>1. /\ phase \in {"publish", "publishing"} /\ cur = s /\ cur' = s + 1 /\ phase' = "publish"
        /\ UNCHANGED <<prepared, aliases>>
    BY <1>9 DEF PublishBlocked, PublishTooLate, Return, Raise
  <2>2. receipt'[s] # NoReceipt /\ \A q \in Step \ {s} : receipt'[q] = receipt[q]
    BY <1>9, VerdictAcceptable
  <2> QED
    BY <1>i, <1>n, <2>1, <2>2 DEF PublishOK
<1>10. ASSUME NEW s \in Step, PublishBegin(s) \/ Commit(s)
       PROVE  PublishOK'
  BY <1>10, <1>i DEF PublishBegin, Commit, PublishOK, Publishable, PredecessorFailed
<1>11. CASE EndPublish
  BY <1>11, <1>i, <1>n DEF EndPublish, PublishOK
<1>12. CASE phase' \notin {"locking", "publish", "publishing", "release", "receipt"}
  BY <1>12 DEF PublishOK
<1> QED
  BY <1>1, <1>2, <1>3, <1>5, <1>6, <1>7, <1>8, <1>9, <1>10, <1>11, <1>12
  DEF Next, StepAction, PreflightFails, StartPrepare, BuildReceipt, PublishEvidence, Block,
      Attempt, Accept, Retry, GiveUp

(* The receipt of the job is built once, from what was committed.          *)
LEMMA ReportStep == IInv /\ [Next]_vars => ReportOK'
<1> SUFFICES ASSUME IInv, [Next]_vars PROVE ReportOK'
  OBVIOUS
<1>i. ReportOK /\ \A s \in Step : StepOK(s)
  BY DEF IInv
<1>1. CASE BuildReceipt /\ Acceptable
  <2>1. report' = Built /\ UNCHANGED publication /\ phase' = "evidence"
    BY <1>1 DEF BuildReceipt
  <2>2. \A s \in Step : publication[s].wrote => aliases = Stores
    BY <1>i DEF StepOK
  <2>3. Built.runs = {s \in Step : publication[s].wrote}
    BY DEF Built
  <2>4. Built.stores = {Store[s] : s \in Built.runs}
    <3>1. Built.stores = {Store[s] : s \in Built.runs} \cap aliases
      BY DEF Built
    <3> QED
      BY <2>2, <2>3, <3>1 DEF Stores
  <2> QED
    BY <2>1, <2>3, <2>4 DEF ReportOK
<1>2. CASE BuildReceipt /\ ~ Acceptable
  BY <1>2 DEF BuildReceipt, ReportOK
<1>3. CASE PublishEvidence
  BY <1>3, <1>i DEF PublishEvidence, ReportOK
<1>4. CASE UNCHANGED vars
  BY <1>4, <1>i DEF vars, ReportOK
<1>5. CASE report = NoReport /\ UNCHANGED report
  BY <1>5 DEF ReportOK
<1>6. CASE report # NoReport
  <2>1. phase \in {"evidence", "done", "raised"}
    BY <1>6, <1>i DEF ReportOK
  <2>2. PublishEvidence \/ UNCHANGED vars
    BY <2>1 DEF Next, StepAction, SkipJob, PreflightFails, StartPrepare, EndPrepare, LocksRefused,
         LocksGranted, EndPublish, Release, BuildReceipt, Block, Attempt, Accept, Retry, GiveUp,
         PassOver, PublishBlocked, PublishTooLate, PublishBegin, Commit, Return, Raise
  <2> QED
    BY <1>3, <1>4, <2>2
<1>7. CASE ~ BuildReceipt
  <2>1. UNCHANGED report
    BY <1>7 DEF Next, StepAction, SkipJob, PreflightFails, StartPrepare, EndPrepare, LocksRefused,
         LocksGranted, EndPublish, Release, PublishEvidence, Block, Attempt, Accept, Retry, GiveUp,
         PassOver, PublishBlocked, PublishTooLate, PublishBegin, Commit, Return, Raise, vars
  <2> QED
    BY <1>5, <1>6, <2>1
<1> QED
  BY <1>1, <1>2, <1>7

-----------------------------------------------------------------------------
(* Initially no step has been touched.                                     *)
LEMMA IInvInit == Init => IInv
<1> SUFFICES ASSUME Init PROVE IInv
  OBVIOUS
<1>1. TypeOK
  BY TypeInit
<1>2. \A s \in Step : StepOK(s)
  BY DEF Init, StepOK, NoReceipt, NoPublication, Good
<1>3. StartOK /\ PrepareOK /\ PublishOK /\ ReportOK
  BY DEF Init, StartOK, PrepareOK, PublishOK, ReportOK, Untouched
<1> QED
  BY <1>1, <1>2, <1>3 DEF IInv

(* The parts together are an invariant of the specification.               *)
LEMMA Inductive == Spec => []IInv
<1>1. IInv /\ [Next]_vars => IInv'
  BY TypeStep, StepOKStep, StartStep, PrepareStep, PublishStep, ReportStep DEF IInv
<1> QED
  BY IInvInit, <1>1, PTL DEF Spec

-----------------------------------------------------------------------------
(* Every variable of a run keeps its type; no step has more attempts than  *)
(* the retry policy allows.                                                *)
THEOREM TypeCorrect == Spec => []TypeOK
  BY Inductive, PTL DEF IInv

(* A step is published only after its required predecessors have been      *)
(* published, or found unchanged, in the same run (_publish_all).          *)
THEOREM DependentsOnlyAfterSuccessHolds == Spec => DependentsOnlyAfterSuccess
<1>1. ASSUME IInv, [Next]_vars, NEW s \in committed' \ committed, NEW d \in Deps[s]
      PROVE  receipt[d].outcome \in Good /\ publication[d].outcome = receipt[d].outcome
  <2>1. s \in Step /\ Commit(s)
    <3>1. PICK q \in Step : Commit(q)
      BY <1>1 DEF Next, StepAction, SkipJob, PreflightFails, StartPrepare, EndPrepare, LocksRefused,
           LocksGranted, EndPublish, Release, BuildReceipt, PublishEvidence, Block, Attempt, Accept,
           Retry, GiveUp, PassOver, PublishBlocked, PublishTooLate, PublishBegin, Return, Raise, vars
    <3> QED
      BY <1>1, <3>1 DEF Commit
  <2>2. d \in Step /\ d < s
    BY <1>1, <2>1, StepAssumption
  <2>3. receipt[d] # NoReceipt /\ ~ PredecessorFailed(s)
    BY <1>1, <2>1, <2>2 DEF IInv, PublishOK, Commit
  <2>4. receipt[d].outcome \in Good
    BY <1>1, <2>3 DEF PredecessorFailed
  <2> QED
    BY <1>1, <2>2, <2>4 DEF IInv, StepOK
<1>2. IInv /\ [Next]_vars =>
        [\A s \in committed' \ committed : \A d \in Deps[s] :
           receipt[d].outcome \in Good /\ publication[d].outcome = receipt[d].outcome]_vars
  BY <1>1
<1> QED
  BY Inductive, <1>2, PTL DEF Spec, DependentsOnlyAfterSuccess

(* The receipt that is built passes the checks of its own classes,         *)
(* however steps, session and clock fail (_build_receipt, __post_init__).  *)
THEOREM ReceiptAcceptedHolds == Spec => []ReceiptAccepted
<1>1. ASSUME IInv, phase = "receipt" PROVE Acceptable
  <2>1. \A s \in Step : StepAcceptable(receipt[s])
    BY <1>1 DEF IInv, PublishOK, StepOK
  <2>2. /\ AggregateExit = 0 <=> \A s \in Step : receipt[s].exit = 0
        /\ AggregateExit \in Exits
    BY <1>1, AggregateExitFails DEF IInv
  <2>3. \A s \in Step : /\ receipt[s].exit = 0 <=> receipt[s].error = "none"
                        /\ receipt[s].outcome = "skipped" => receipt[s].exit = 0
    BY <2>1 DEF StepAcceptable
  <2>4. /\ AggregateExit = 0 => Built.errors = {}
        /\ AggregateExit # 0 => Built.errors # {}
    <3>1. Built.errors = {receipt[s].error : s \in Step} \ {"none"}
      BY DEF Built
    <3>2. CASE AggregateExit = 0
      <4>1. \A s \in Step : receipt[s].exit = 0
        BY <2>2, <3>2
      <4> QED
        BY <2>3, <3>1, <3>2, <4>1
    <3>3. CASE AggregateExit # 0
      <4>1. PICK s \in Step : receipt[s].exit # 0
        BY <2>2, <3>3
      <4>2. receipt[s].error \in Built.errors
        BY <2>3, <3>1, <4>1
      <4> QED
        BY <3>3, <4>2
    <3> QED
      BY <3>2, <3>3
  <2>5. ASSUME Skipped PROVE AggregateExit = 0
    <3>1. \A s \in Step : receipt[s].exit = 0
      BY <2>3, <2>5 DEF Skipped
    <3> QED
      BY <2>2, <3>1
  <2>6. /\ Built.exit = AggregateExit /\ Built.stores \subseteq aliases
        /\ Built.semantic \in {"changed", "unchanged", "skipped"} <=> AggregateExit = 0
        /\ Built.semantic \in {"partial", "failed"} <=> AggregateExit # 0
        /\ Built.semantic = "skipped" <=> AggregateExit = 0 /\ Skipped
    BY DEF Built
  <2>7. JobAcceptable(Built)
    BY <2>2, <2>4, <2>5, <2>6 DEF JobAcceptable
  <2> QED
    BY <2>1, <2>7 DEF Acceptable
<1>2. IInv => ReceiptAccepted
  BY <1>1 DEF ReceiptAccepted
<1> QED
  BY Inductive, <1>2, PTL

(* The receipt names exactly the stores and the runs an executor has       *)
(* reported, and each of them is committed.                                *)
THEOREM ReportedIsCommittedHolds == Spec => []ReportedIsCommitted
<1>1. IInv => ReportedIsCommitted
  BY DEF IInv, StepOK, ReportOK, ReportedIsCommitted
<1> QED
  BY Inductive, <1>1, PTL

-----------------------------------------------------------------------------
(* The names a run believes it has published, and those it owns.           *)
Mine(p) == {made[p][k] : k \in 1 .. Len(made[p])}
Owned(p) == {n \in Name : file[n] = p}
Wanted(p) == {Targets(p)[k] : k \in 1 .. Len(Targets(p))}

OwnerOK(p) ==
  /\ Mine(p) \subseteq Owned(p) /\ Owned(p) \subseteq Wanted(p)
  /\ pc[p] = "linked" => Current(p) \in Owned(p)
  /\ p \notin stained =>
       Owned(p) \subseteq Mine(p) \cup (IF pc[p] \in {"linked", "dead"} THEN {Current(p)} ELSE {})
  /\ pc[p] \in {"start", "running", "finished"} => made[p] = << >> /\ Owned(p) = {}
  /\ pc[p] = "done" => Len(made[p]) = Len(Targets(p))
  /\ pc[p] # "done" => Len(made[p]) < Len(Targets(p))

OwnersOK == \A p \in Proc : OwnerOK(p)

EvidenceInv ==
  /\ EvidenceTypeOK
  /\ OwnersOK

-----------------------------------------------------------------------------
(* What a run publishes, as a function of whether it needs a marker: the   *)
(* log first, the receipt last, the marker, if there is one, in between.   *)
Bundle(p, marked) ==
  <<Log(p)>> \o (IF marked THEN <<Marker(p)>> ELSE <<>>) \o <<Receipt(p)>>

LEMMA BundleShape ==
  ASSUME NEW p \in Proc, NEW marked \in BOOLEAN
  PROVE  /\ Bundle(p, marked) \in Seq(Name)
         /\ Len(Bundle(p, marked)) = IF marked THEN 3 ELSE 2
         /\ Bundle(p, marked)[1] = Log(p)
         /\ marked => Bundle(p, marked)[2] = Marker(p) /\ Bundle(p, marked)[3] = Receipt(p)
         /\ ~ marked => Bundle(p, marked)[2] = Receipt(p)
<1>1. Log(p) \in Name /\ Marker(p) \in Name /\ Receipt(p) \in Name
  BY DEF Name
<1>2. CASE marked
  <2>1. Bundle(p, marked) = (<<Log(p)>> \o <<Marker(p)>>) \o <<Receipt(p)>>
    BY <1>2 DEF Bundle
  <2> DEFINE u == <<Log(p)>> \o <<Marker(p)>>
  <2>2. u \in Seq(Name) /\ Len(u) = 2 /\ u[1] = Log(p) /\ u[2] = Marker(p)
    BY <1>1
  <2>3. <<Receipt(p)>> \in Seq(Name) /\ Len(<<Receipt(p)>>) = 1
    BY <1>1
  <2> HIDE DEF u
  <2>4. /\ u \o <<Receipt(p)>> \in Seq(Name) /\ Len(u \o <<Receipt(p)>>) = 3
        /\ (u \o <<Receipt(p)>>)[1] = u[1] /\ (u \o <<Receipt(p)>>)[2] = u[2]
        /\ (u \o <<Receipt(p)>>)[3] = <<Receipt(p)>>[1]
    BY <2>2, <2>3, ConcatProperties
  <2> QED
    BY <1>2, <2>1, <2>2, <2>4 DEF u
<1>3. CASE ~ marked
  <2>1. Bundle(p, marked) = (<<Log(p)>> \o << >>) \o <<Receipt(p)>>
    BY <1>3 DEF Bundle
  <2> DEFINE u == <<Log(p)>> \o << >>
  <2>2. u \in Seq(Name) /\ Len(u) = 1 /\ u[1] = Log(p)
    BY <1>1
  <2>3. <<Receipt(p)>> \in Seq(Name) /\ Len(<<Receipt(p)>>) = 1
    BY <1>1
  <2> HIDE DEF u
  <2>4. /\ u \o <<Receipt(p)>> \in Seq(Name) /\ Len(u \o <<Receipt(p)>>) = 2
        /\ (u \o <<Receipt(p)>>)[1] = u[1] /\ (u \o <<Receipt(p)>>)[2] = <<Receipt(p)>>[1]
    BY <2>2, <2>3, ConcatProperties
  <2> QED
    BY <1>3, <2>1, <2>2, <2>4 DEF u
<1> QED
  BY <1>2, <1>3

LEMMA TargetsShape ==
  ASSUME NEW p \in Proc
  PROVE  /\ Targets(p) \in Seq(Name) /\ Len(Targets(p)) \in {2, 3}
         /\ Len(Targets(p)) = 3 <=> NeedsMarker(p)
         /\ Targets(p)[1] = Log(p) /\ Targets(p)[Len(Targets(p))] = Receipt(p)
         /\ NeedsMarker(p) => Targets(p)[2] = Marker(p)
<1>1. Targets(p) = Bundle(p, NeedsMarker(p)) /\ NeedsMarker(p) \in BOOLEAN
  BY DEF Targets, Bundle, NeedsMarker
<1> QED
  BY <1>1, BundleShape

(* No two of them are the same name, whatever the ids and the periods are. *)
LEMMA NamesDiffer ==
  ASSUME NEW p \in Proc, NEW q \in Proc
  PROVE  Log(p) # Marker(q) /\ Log(p) # Receipt(q) /\ Marker(p) # Receipt(q)
  BY DEF Log, Marker, Receipt

LEMMA TargetsDiffer ==
  ASSUME NEW p \in Proc, NEW j \in 1 .. Len(Targets(p)), NEW k \in 1 .. Len(Targets(p)), j # k
  PROVE  Targets(p)[j] # Targets(p)[k]
<1>1. CASE NeedsMarker(p)
  <2>1. Len(Targets(p)) = 3
    BY <1>1, TargetsShape
  <2>2. /\ Targets(p)[1] = Log(p) /\ Targets(p)[2] = Marker(p) /\ Targets(p)[3] = Receipt(p)
    BY <1>1, <2>1, TargetsShape
  <2> QED
    BY <2>1, <2>2, NamesDiffer
<1>2. CASE ~ NeedsMarker(p)
  <2>1. Len(Targets(p)) = 2
    BY <1>2, TargetsShape
  <2>2. /\ Targets(p)[1] = Log(p) /\ Targets(p)[2] = Receipt(p)
    BY <2>1, TargetsShape
  <2> QED
    BY <2>1, <2>2, NamesDiffer
<1> QED
  BY <1>1, <1>2

(* Targets depend on nothing but the outcome of the run.                   *)
LEMMA TargetsFixed ==
  ASSUME NEW p \in Proc, UNCHANGED outcome[p]
  PROVE  Targets(p)' = Targets(p) /\ NeedsMarker(p)' = NeedsMarker(p)
  BY DEF Targets, NeedsMarker, Log, Marker, Receipt

-----------------------------------------------------------------------------
(* A beginning of the targets agrees with them at every place, and its     *)
(* beginnings and its continuation by the next target are beginnings.      *)
LEMMA PrefixPointwise ==
  ASSUME NEW s \in Seq(Name), NEW t \in Seq(Name)
  PROVE  IsPrefixOf(s, t) <=> /\ Len(s) <= Len(t)
                              /\ \A n \in 1 .. Len(s) : s[n] = t[n]
<1>1. ASSUME Len(s) <= Len(t), \A n \in 1 .. Len(s) : s[n] = t[n]
      PROVE  s = SubSeq(t, 1, Len(s))
  <2>1. /\ SubSeq(t, 1, Len(s)) \in Seq(Name)
        /\ Len(SubSeq(t, 1, Len(s))) = Len(s)
        /\ \A n \in 1 .. Len(s) : SubSeq(t, 1, Len(s))[n] = t[n]
    BY <1>1
  <2> QED
    BY <1>1, <2>1
<1>2. ASSUME Len(s) <= Len(t), s = SubSeq(t, 1, Len(s)), NEW n \in 1 .. Len(s)
      PROVE  s[n] = t[n]
  <2>1. SubSeq(t, 1, Len(s))[n] = t[n]
    BY <1>2
  <2> QED
    BY <1>2, <2>1
<1> QED
  BY <1>1, <1>2 DEF IsPrefixOf

LEMMA PrefixEmpty ==
  ASSUME NEW t \in Seq(Name)
  PROVE  IsPrefixOf(<< >>, t)
<1>1. Len(<< >>) = 0 /\ SubSeq(t, 1, 0) = << >> /\ 0 <= Len(t)
  OBVIOUS
<1> QED
  BY <1>1 DEF IsPrefixOf

LEMMA PrefixGrows ==
  ASSUME NEW s \in Seq(Name), NEW t \in Seq(Name), IsPrefixOf(s, t), Len(s) < Len(t)
  PROVE  LET u == Append(s, t[Len(s) + 1])
         IN  /\ u \in Seq(Name) /\ IsPrefixOf(u, t) /\ Len(u) = Len(s) + 1
             /\ {u[n] : n \in 1 .. Len(u)} = {s[n] : n \in 1 .. Len(s)} \cup {t[Len(s) + 1]}
<1> DEFINE u == Append(s, t[Len(s) + 1])
<1>1. t[Len(s) + 1] \in Name
  OBVIOUS
<1>2. /\ u \in Seq(Name) /\ Len(u) = Len(s) + 1
      /\ \A n \in 1 .. Len(s) : u[n] = s[n]
      /\ u[Len(s) + 1] = t[Len(s) + 1]
  BY <1>1
<1>3. \A n \in 1 .. Len(s) : s[n] = t[n]
  BY PrefixPointwise
<1>4. \A n \in 1 .. Len(u) : u[n] = t[n]
  BY <1>2, <1>3
<1>5. Len(u) <= Len(t) /\ Len(s) \in Nat
  BY <1>2
<1>6. IsPrefixOf(u, t)
  BY <1>2, <1>4, <1>5, PrefixPointwise
<1> HIDE DEF u
<1>7. {u[n] : n \in 1 .. Len(u)} = {s[n] : n \in 1 .. Len(s)} \cup {t[Len(s) + 1]}
  BY <1>2, <1>5
<1> QED
  BY <1>2, <1>6, <1>7 DEF u

LEMMA PrefixShrinks ==
  ASSUME NEW s \in Seq(Name), NEW t \in Seq(Name), IsPrefixOf(s, t), s # << >>
  PROVE  LET u == SubSeq(s, 1, Len(s) - 1)
         IN  /\ u \in Seq(Name) /\ IsPrefixOf(u, t) /\ Len(u) = Len(s) - 1
             /\ {s[n] : n \in 1 .. Len(s)} = {u[n] : n \in 1 .. Len(u)} \cup {s[Len(s)]}
             /\ \A n \in 1 .. Len(u) : u[n] = t[n]
<1> DEFINE m == Len(s) - 1
           u == SubSeq(s, 1, m)
<1>1. Len(s) \in Nat /\ Len(s) > 0 /\ m \in Nat /\ m < Len(s)
  OBVIOUS
<1>2. /\ u \in Seq(Name) /\ Len(u) = Len(s) - 1
      /\ \A n \in 1 .. Len(s) - 1 : u[n] = s[n]
  <2>1. m = Len(s) - 1
    OBVIOUS
  <2> HIDE DEF m
  <2>2. /\ u \in Seq(Name) /\ Len(u) = m
        /\ \A n \in 1 .. m : u[n] = s[n]
    BY <1>1
  <2> QED
    BY <2>1, <2>2
<1>3. Len(s) <= Len(t) /\ \A n \in 1 .. Len(s) : s[n] = t[n]
  BY PrefixPointwise
<1>4. /\ \A n \in 1 .. Len(u) : u[n] = t[n]
      /\ Len(u) <= Len(t)
  BY <1>1, <1>2, <1>3
<1>5. IsPrefixOf(u, t)
  BY <1>2, <1>4, PrefixPointwise
<1> HIDE DEF u
<1>6. {s[n] : n \in 1 .. Len(s)} = {u[n] : n \in 1 .. Len(u)} \cup {s[Len(s)]}
  BY <1>1, <1>2
<1> QED
  BY <1>2, <1>4, <1>5, <1>6 DEF u

-----------------------------------------------------------------------------
(* EvidenceInit satisfies the types.                                               *)
LEMMA EvidenceTypeInit == EvidenceInit => EvidenceTypeOK
<1> SUFFICES ASSUME EvidenceInit PROVE EvidenceTypeOK
  OBVIOUS
<1>1. \A p \in Proc : IsPrefixOf(made[p], Targets(p))
  <2> SUFFICES ASSUME NEW p \in Proc PROVE IsPrefixOf(<< >>, Targets(p))
    BY DEF EvidenceInit
  <2> QED
    BY TargetsShape, PrefixEmpty
<1> QED
  BY <1>1 DEF EvidenceInit, EvidenceTypeOK, Publishing, Ended

(* A run at one of its last points has published its targets up to some    *)
(* place; the one it is at is the next.                                    *)
LEMMA CurrentIsTarget ==
  ASSUME EvidenceTypeOK, NEW p \in Proc, Len(made[p]) < Len(Targets(p))
  PROVE  /\ Len(made[p]) + 1 \in 1 .. Len(Targets(p))
         /\ Current(p) \in Wanted(p) /\ Current(p) \in Name /\ Current(p) \notin Mine(p)
<1>1. /\ made[p] \in Seq(Name) /\ Targets(p) \in Seq(Name)
      /\ IsPrefixOf(made[p], Targets(p))
  BY TargetsShape DEF EvidenceTypeOK
<1>2. \A k \in 1 .. Len(made[p]) : made[p][k] = Targets(p)[k]
  BY <1>1, PrefixPointwise
<1>3. Len(made[p]) \in Nat /\ Len(Targets(p)) \in Nat
  BY <1>1
<1>4. Len(made[p]) + 1 \in 1 .. Len(Targets(p))
  BY <1>3
<1>5. Current(p) \in Wanted(p) /\ Current(p) \in Name
  BY <1>1, <1>4 DEF Current, Wanted
<1>6. ASSUME NEW k \in 1 .. Len(made[p]), Current(p) = made[p][k] PROVE FALSE
  <2>1. k \in 1 .. Len(Targets(p)) /\ k # Len(made[p]) + 1
    BY <1>3
  <2> QED
    BY <1>2, <1>4, <1>6, <2>1, TargetsDiffer DEF Current
<1> QED
  BY <1>4, <1>5, <1>6 DEF Mine

(* Every step preserves the types, given that nobody publishes more than   *)
(* its targets.                                                            *)
LEMMA EvidenceTypeStep == EvidenceInv /\ [EvidenceNext]_evidenceVars => EvidenceTypeOK'
<1> SUFFICES ASSUME EvidenceInv, [EvidenceNext]_evidenceVars PROVE EvidenceTypeOK'
  OBVIOUS
<1>i. EvidenceTypeOK /\ OwnersOK
  BY DEF EvidenceInv
<1>t. \A p \in Proc : Targets(p) \in Seq(Name)
  BY TargetsShape
<1> USE DEF Publishing, Ended, Become
<1>1. ASSUME UNCHANGED made,
             \A p \in Proc : UNCHANGED outcome[p] \/ made[p] = << >>,
             file' \in [Name -> Proc \cup {Free}],
             pc' \in [Proc -> {"start", "running", "finished"} \cup Publishing \cup Ended],
             outcome' \in [Proc -> {"none", "success", "failure"}],
             wrote' \in [Proc -> BOOLEAN], stained' \in SUBSET Proc
      PROVE  EvidenceTypeOK'
  <2> SUFFICES ASSUME NEW p \in Proc PROVE IsPrefixOf(made[p], Targets(p))'
    BY <1>1, <1>i DEF EvidenceTypeOK
  <2>1. CASE UNCHANGED outcome[p]
    BY <1>1, <1>i, <2>1, TargetsFixed DEF EvidenceTypeOK
  <2>2. CASE made[p] = << >>
    <3>1. Targets(p)' = Bundle(p, NeedsMarker(p)') /\ NeedsMarker(p)' \in BOOLEAN
      BY DEF Targets, Bundle, NeedsMarker, Log, Marker, Receipt
    <3> QED
      BY <1>1, <2>2, <3>1, BundleShape, PrefixEmpty
  <2> QED
    BY <1>1, <2>1, <2>2
<1>2. CASE UNCHANGED evidenceVars
  BY <1>1, <1>2, <1>i DEF evidenceVars, EvidenceTypeOK
<1>3. ASSUME NEW p \in Proc, Preflight(p) \/ Recheck(p) \/ Conflict(p) \/ StageFails(p)
                              \/ Fail(p) \/ Crash(p)
      PROVE  EvidenceTypeOK'
  BY <1>1, <1>3, <1>i DEF Preflight, Recheck, Conflict, StageFails, Fail, Crash, EvidenceTypeOK
<1>4. ASSUME NEW p \in Proc, Work(p)
      PROVE  EvidenceTypeOK'
  <2>1. made[p] = << >>
    BY <1>4, <1>i DEF Work, OwnersOK, OwnerOK
  <2> QED
    BY <1>1, <1>4, <1>i, <2>1 DEF Work, EvidenceTypeOK
<1>5. ASSUME NEW p \in Proc, Link(p) \/ SealFails(p)
      PROVE  EvidenceTypeOK'
  BY <1>1, <1>5, <1>i DEF Link, SealFails, EvidenceTypeOK
<1>6. ASSUME NEW p \in Proc, Seal(p)
      PROVE  EvidenceTypeOK'
  <2>1. Len(made[p]) < Len(Targets(p))
    BY <1>6, <1>i DEF Seal, OwnersOK, OwnerOK
  <2>2. /\ Append(made[p], Current(p)) \in Seq(Name)
        /\ IsPrefixOf(Append(made[p], Current(p)), Targets(p))
    BY <1>i, <1>t, <2>1, PrefixGrows DEF EvidenceTypeOK, Current
  <2>3. \A q \in Proc : IsPrefixOf(made[q], Targets(q))'
    BY <1>6, <1>i, <2>2, TargetsFixed DEF Seal, EvidenceTypeOK
  <2> QED
    BY <1>6, <1>i, <2>2, <2>3 DEF Seal, EvidenceTypeOK
<1>7. ASSUME NEW p \in Proc, Undo(p)
      PROVE  EvidenceTypeOK'
  <2>1. LET u == SubSeq(made[p], 1, Len(made[p]) - 1)
        IN  u \in Seq(Name) /\ IsPrefixOf(u, Targets(p))
    BY <1>7, <1>i, <1>t, PrefixShrinks DEF EvidenceTypeOK, Undo
  <2>2. \A q \in Proc : IsPrefixOf(made[q], Targets(q))'
    BY <1>7, <1>i, <2>1, TargetsFixed DEF Undo, EvidenceTypeOK
  <2> QED
    BY <1>7, <1>i, <2>1, <2>2 DEF Undo, EvidenceTypeOK
<1> QED
  BY <1>2, <1>3, <1>4, <1>5, <1>6, <1>7 DEF EvidenceNext, Advance

-----------------------------------------------------------------------------
(* A run changes nothing that another one has: it links a name only if     *)
(* nobody owns it, and takes back only its own.                            *)
LEMMA OthersKeep ==
  ASSUME EvidenceInv, NEW p \in Proc, Advance(p) \/ Crash(p), NEW q \in Proc, q # p
  PROVE  /\ UNCHANGED <<pc[q], made[q], outcome[q], Owned(q)>>
         /\ q \in stained <=> q \in stained'
<1>i. EvidenceTypeOK /\ OwnerOK(p) /\ OwnerOK(q) /\ Free \notin Proc
  BY FreeAssumption DEF EvidenceInv, OwnersOK
<1>1. UNCHANGED <<pc[q], made[q], outcome[q]>> /\ (q \in stained <=> q \in stained')
  BY <1>i DEF EvidenceTypeOK, Advance, Preflight, Work, Recheck, Link, Conflict, StageFails, Seal,
              SealFails, Undo, Fail, Crash, Become
<1>2. CASE UNCHANGED file
  BY <1>1, <1>2 DEF Owned
<1>3. CASE Link(p)
  BY <1>1, <1>3, <1>i DEF Link, Owned, EvidenceTypeOK
<1>4. CASE SealFails(p)
  <2>1. Current(p) \in Owned(p)
    BY <1>4, <1>i DEF SealFails, OwnerOK
  <2> QED
    BY <1>1, <1>4, <1>i, <2>1 DEF SealFails, Owned, EvidenceTypeOK
<1>5. CASE Undo(p)
  <2>1. Len(made[p]) \in 1 .. Len(made[p])
    BY <1>5, <1>i DEF Undo, EvidenceTypeOK
  <2>2. made[p][Len(made[p])] \in Owned(p)
    BY <1>i, <2>1 DEF OwnerOK, Mine
  <2> QED
    BY <1>1, <1>5, <1>i, <2>2 DEF Undo, Owned, EvidenceTypeOK
<1> QED
  BY <1>2, <1>3, <1>4, <1>5 DEF Advance, Preflight, Work, Recheck, Conflict, StageFails, Seal,
                                Fail, Crash

(* What a run knows of itself depends on nothing but its own variables.    *)
LEMMA OwnerKept ==
  ASSUME NEW p \in Proc, OwnerOK(p), UNCHANGED <<pc[p], made[p], outcome[p], Owned(p)>>,
         p \in stained <=> p \in stained'
  PROVE  OwnerOK(p)'
<1>1. Targets(p)' = Targets(p)
  BY TargetsFixed
<1>2. UNCHANGED <<Mine(p), Wanted(p), Current(p)>>
  BY <1>1 DEF Mine, Wanted, Current
<1> QED
  BY <1>1, <1>2 DEF OwnerOK

(* Every step preserves the accounts of all runs.                          *)
LEMMA OwnersStep == EvidenceInv /\ [EvidenceNext]_evidenceVars => OwnersOK'
<1> SUFFICES ASSUME EvidenceInv, [EvidenceNext]_evidenceVars, NEW p \in Proc
             PROVE  OwnerOK(p)'
  BY DEF OwnersOK
<1>i. EvidenceTypeOK /\ OwnerOK(p) /\ Free \notin Proc /\ EvidenceTypeOK'
  BY EvidenceTypeStep, FreeAssumption DEF EvidenceInv, OwnersOK
<1>t. /\ Targets(p) \in Seq(Name) /\ made[p] \in Seq(Name)
      /\ IsPrefixOf(made[p], Targets(p))
      /\ Len(made[p]) \in Nat /\ Len(Targets(p)) \in Nat /\ Len(Targets(p)) >= 2
  <2>1. Targets(p) \in Seq(Name) /\ Len(Targets(p)) \in {2, 3}
    BY TargetsShape
  <2>2. made[p] \in Seq(Name) /\ IsPrefixOf(made[p], Targets(p))
    BY <1>i DEF EvidenceTypeOK
  <2>3. Len(made[p]) \in Nat
    BY <2>2
  <2>4. Len(Targets(p)) \in Nat
    BY <2>1
  <2>5. 2 <= Len(Targets(p))
    BY <2>1
  <2> QED
    BY <2>1, <2>2, <2>3, <2>4, <2>5
<1>1. CASE UNCHANGED evidenceVars
  BY <1>1, <1>i, OwnerKept DEF evidenceVars, Owned
<1>2. ASSUME NEW q \in Proc, q # p, Advance(q) \/ Crash(q)
      PROVE  OwnerOK(p)'
  BY <1>2, <1>i, OthersKeep, OwnerKept
<1>3. ASSUME UNCHANGED outcome[p]
      PROVE  UNCHANGED <<Targets(p), Wanted(p)>>
  BY <1>3, TargetsFixed DEF Wanted
<1>4. ASSUME UNCHANGED made[p], UNCHANGED outcome[p]
      PROVE  UNCHANGED <<Targets(p), Wanted(p), Mine(p), Current(p)>>
  BY <1>3, <1>4 DEF Mine, Current
<1>5. CASE Preflight(p) \/ Recheck(p) \/ Conflict(p) \/ StageFails(p) \/ Fail(p) \/ Crash(p)
  <2>1. UNCHANGED <<made[p], outcome[p], Owned(p), stained>>
    BY <1>5 DEF Preflight, Recheck, Conflict, StageFails, Fail, Crash, Owned
  <2>2. UNCHANGED <<Targets(p), Wanted(p), Mine(p), Current(p)>>
    BY <1>4, <2>1
  <2> QED
    BY <1>5, <1>i, <2>1, <2>2 DEF Preflight, Recheck, Conflict, StageFails, Fail, Crash, Become,
                                  Ended, EvidenceTypeOK, OwnerOK
<1>6. CASE Work(p)
  <2>1. made[p] = << >> /\ Owned(p) = {} /\ UNCHANGED <<made[p], Owned(p), stained>>
    BY <1>6, <1>i DEF Work, OwnerOK, Owned
  <2>2. pc'[p] = "finished" /\ Mine(p)' = {}
    BY <1>6, <1>i, <2>1 DEF Work, Become, EvidenceTypeOK, Mine
  <2>3. Len(Targets(p))' >= 2 /\ Len(made[p])' = 0
    <3>1. Targets(p)' = Bundle(p, NeedsMarker(p)') /\ NeedsMarker(p)' \in BOOLEAN
      BY DEF Targets, Bundle, NeedsMarker, Log, Marker, Receipt
    <3> QED
      BY <2>1, <3>1, BundleShape
  <2> QED
    BY <2>1, <2>2, <2>3 DEF OwnerOK
<1>7. CASE Link(p)
  <2>1. /\ pc[p] = "checked" /\ pc'[p] = "linked" /\ UNCHANGED <<made[p], outcome[p], stained>>
    BY <1>7, <1>i DEF Link, Become, EvidenceTypeOK
  <2>2. UNCHANGED <<Targets(p), Wanted(p), Mine(p), Current(p)>>
    BY <1>4, <2>1
  <2>3. Current(p) \in Name /\ Current(p) \in Wanted(p)
    BY <1>i, <2>1, CurrentIsTarget DEF OwnerOK
  <2>4. Owned(p)' = Owned(p) \cup {Current(p)}
    BY <1>7, <1>i, <2>3 DEF Link, Owned, EvidenceTypeOK
  <2> QED
    BY <1>i, <2>1, <2>2, <2>3, <2>4 DEF OwnerOK
<1>8. CASE Seal(p)
  <2>1. /\ pc[p] = "linked" /\ made'[p] = Append(made[p], Current(p))
        /\ pc'[p] = (IF Len(made[p]) + 1 = Len(Targets(p)) THEN "done" ELSE "checked")
        /\ UNCHANGED <<outcome[p], Owned(p), stained>>
    BY <1>8, <1>i DEF Seal, Become, EvidenceTypeOK, Owned
  <2>2. UNCHANGED <<Targets(p), Wanted(p)>>
    BY <1>3, <2>1
  <2>3. Len(made[p]) < Len(Targets(p))
    BY <1>i, <2>1 DEF OwnerOK
  <2>4. Mine(p)' = Mine(p) \cup {Current(p)} /\ Len(made'[p]) = Len(made[p]) + 1
    BY <1>t, <2>1, <2>3, PrefixGrows DEF Mine, Current
  <2> QED
    BY <1>i, <1>t, <2>1, <2>2, <2>3, <2>4 DEF OwnerOK
<1>9. CASE SealFails(p)
  <2>1. /\ pc[p] = "linked" /\ pc'[p] = "undo" /\ UNCHANGED <<made[p], outcome[p]>>
    BY <1>9, <1>i DEF SealFails, Become, EvidenceTypeOK
  <2>2. UNCHANGED <<Targets(p), Wanted(p), Mine(p), Current(p)>>
    BY <1>4, <2>1
  <2>3. Len(made[p]) < Len(Targets(p))
    BY <1>i, <2>1 DEF OwnerOK
  <2>4. Current(p) \in Name /\ Current(p) \notin Mine(p)
    BY <1>i, <2>3, CurrentIsTarget
  <2>5. CASE file' = [file EXCEPT ![Current(p)] = Free] /\ UNCHANGED stained
    <3>1. Owned(p)' = Owned(p) \ {Current(p)}
      BY <1>i, <2>4, <2>5 DEF Owned, EvidenceTypeOK
    <3> QED
      BY <1>i, <2>1, <2>2, <2>3, <2>4, <2>5, <3>1 DEF OwnerOK
  <2>6. CASE UNCHANGED file /\ stained' = stained \cup {p}
    <3>1. UNCHANGED Owned(p)
      BY <2>6 DEF Owned
    <3> QED
      BY <1>i, <2>1, <2>2, <2>3, <2>6, <3>1 DEF OwnerOK
  <2> QED
    BY <1>9, <2>5, <2>6 DEF SealFails
<1>10. CASE Undo(p)
  <2> DEFINE u == SubSeq(made[p], 1, Len(made[p]) - 1)
             newest == made[p][Len(made[p])]
  <2>1. /\ pc[p] = "undo" /\ made[p] # << >> /\ made'[p] = u
        /\ UNCHANGED <<pc[p], outcome[p]>>
    BY <1>10, <1>i DEF Undo, EvidenceTypeOK
  <2>2. UNCHANGED <<Targets(p), Wanted(p)>>
    BY <1>3, <2>1
  <2>3. /\ Len(u) = Len(made[p]) - 1
        /\ Mine(p) = {u[n] : n \in 1 .. Len(u)} \cup {newest}
        /\ \A n \in 1 .. Len(u) : u[n] = Targets(p)[n]
    BY <1>t, <2>1, PrefixShrinks DEF Mine
  <2>4. Mine(p)' = {u[n] : n \in 1 .. Len(u)} /\ Len(made'[p]) < Len(made[p])
    BY <1>t, <2>1, <2>3 DEF Mine
  <2>5. Len(made[p]) \in 1 .. Len(made[p]) /\ Len(made[p]) <= Len(Targets(p))
    BY <1>t, <2>1, PrefixPointwise
  <2>6. newest = Targets(p)[Len(made[p])] /\ newest \in Name
    BY <1>t, <2>5, PrefixPointwise
  <2>7. newest \notin Mine(p)'
    <3> SUFFICES ASSUME NEW n \in 1 .. Len(u), u[n] = newest PROVE FALSE
      BY <2>4
    <3>1. n \in 1 .. Len(Targets(p)) /\ n # Len(made[p]) /\ Len(made[p]) \in 1 .. Len(Targets(p))
      BY <1>t, <2>3, <2>5
    <3>2. Targets(p)[n] = Targets(p)[Len(made[p])]
      BY <2>3, <2>6
    <3> QED
      BY <3>1, <3>2, TargetsDiffer
  <2>8. Mine(p) = Mine(p)' \cup {newest}
    BY <2>3, <2>4
  <2> HIDE DEF u, newest
  <2>9. CASE file' = [file EXCEPT ![newest] = Free] /\ UNCHANGED stained
    <3>1. Owned(p)' = Owned(p) \ {newest}
      BY <1>i, <2>6, <2>9 DEF Owned, EvidenceTypeOK
    <3> QED
      BY <1>i, <1>t, <2>1, <2>2, <2>4, <2>7, <2>8, <2>9, <3>1 DEF OwnerOK
  <2>10. CASE UNCHANGED file /\ stained' = stained \cup {p}
    <3>1. UNCHANGED Owned(p)
      BY <2>10 DEF Owned
    <3> QED
      BY <1>i, <1>t, <2>1, <2>2, <2>4, <2>8, <2>10, <3>1 DEF OwnerOK
  <2> QED
    BY <1>10, <2>9, <2>10 DEF Undo, newest
<1> QED
  BY <1>1, <1>2, <1>5, <1>6, <1>7, <1>8, <1>9, <1>10 DEF EvidenceNext, Advance

-----------------------------------------------------------------------------
(* Initially nobody owns or has made anything.                             *)
LEMMA EvidenceInvInit == EvidenceInit => EvidenceInv
<1> SUFFICES ASSUME EvidenceInit PROVE EvidenceInv
  OBVIOUS
<1>1. EvidenceTypeOK
  BY EvidenceTypeInit
<1>2. ASSUME NEW p \in Proc PROVE OwnerOK(p)
  <2>1. pc[p] = "start" /\ Len(made[p]) = 0 /\ made[p] = << >> /\ Mine(p) = {}
    BY DEF EvidenceInit, Mine
  <2>2. Owned(p) = {}
    BY FreeAssumption DEF EvidenceInit, Owned
  <2>3. Len(Targets(p)) \in {2, 3}
    BY TargetsShape
  <2> QED
    BY <2>1, <2>2, <2>3 DEF OwnerOK
<1> QED
  BY <1>1, <1>2 DEF EvidenceInv, OwnersOK

(* The two parts together are an invariant of the specification.           *)
LEMMA EvidenceInductive == EvidenceSpec => []EvidenceInv
<1>1. EvidenceInv /\ [EvidenceNext]_evidenceVars => EvidenceInv'
  BY EvidenceTypeStep, OwnersStep DEF EvidenceInv
<1> QED
  BY EvidenceInvInit, <1>1, PTL DEF EvidenceSpec

-----------------------------------------------------------------------------
(* Every variable keeps its type, and what a run has published is always   *)
(* the beginning of what it was to publish.                                *)
THEOREM EvidenceTypeCorrect == EvidenceSpec => []EvidenceTypeOK
  BY EvidenceInductive, PTL DEF EvidenceInv

(* A run that has published as many names as it wanted has them all.       *)
LEMMA AllMade ==
  ASSUME EvidenceInv, NEW p \in Proc, NEW k \in 1 .. Len(Targets(p)), k <= Len(made[p])
  PROVE  file[Targets(p)[k]] = p
<1>1. /\ Targets(p) \in Seq(Name) /\ made[p] \in Seq(Name)
      /\ IsPrefixOf(made[p], Targets(p))
  BY TargetsShape DEF EvidenceInv, EvidenceTypeOK
<1>2. k \in 1 .. Len(made[p])
  BY <1>1
<1>3. Targets(p)[k] = made[p][k]
  BY <1>1, <1>2, PrefixPointwise
<1> QED
  BY <1>2, <1>3 DEF EvidenceInv, OwnersOK, OwnerOK, Mine, Owned

(* A run that reports success has its log, its receipt and, if it needs    *)
(* one, its marker in place and keeps them, whatever other runs link, undo *)
(* or leave behind (publish_job_evidence).                                 *)
THEOREM DoneCompleteHolds == EvidenceSpec => []DoneComplete
<1>1. ASSUME EvidenceInv, NEW p \in Proc, pc[p] = "done"
      PROVE  /\ file[Log(p)] = p /\ file[Receipt(p)] = p
             /\ NeedsMarker(p) => file[Marker(p)] = p
  <2>1. Len(made[p]) = Len(Targets(p)) /\ Len(Targets(p)) \in {2, 3}
    BY <1>1, TargetsShape DEF EvidenceInv, OwnersOK, OwnerOK
  <2>2. \A k \in 1 .. Len(Targets(p)) : file[Targets(p)[k]] = p
    BY <1>1, <2>1, AllMade
  <2>3. file[Targets(p)[1]] = p /\ file[Targets(p)[2]] = p /\ file[Targets(p)[Len(Targets(p))]] = p
    BY <2>1, <2>2
  <2> QED
    BY <2>3, TargetsShape
<1>2. EvidenceInv => DoneComplete
  BY <1>1 DEF DoneComplete
<1> QED
  BY EvidenceInductive, <1>2, PTL

(* The receipt is the commit point of a bundle: whenever it can be seen,   *)
(* the log and the marker can be seen as well, at every moment of the      *)
(* publication, of an undo and after a death of the process, unless the    *)
(* disk failed to take a name back (PrivateJobState).                      *)
THEOREM ReceiptIsCommitPointHolds == EvidenceSpec => []ReceiptIsCommitPoint
<1>1. ASSUME EvidenceInv, NEW p \in Proc, file[Receipt(p)] = p, p \notin stained
      PROVE  /\ file[Log(p)] = p
             /\ NeedsMarker(p) => file[Marker(p)] = p
  <2> DEFINE last == Len(Targets(p))
  <2>1. last \in {2, 3} /\ Targets(p)[last] = Receipt(p) /\ Targets(p) \in Seq(Name)
    BY TargetsShape
  <2>2. /\ made[p] \in Seq(Name) /\ Len(made[p]) \in Nat
        /\ Len(made[p]) <= last
        /\ \A k \in 1 .. Len(made[p]) : made[p][k] = Targets(p)[k]
    BY <1>1, <2>1, PrefixPointwise DEF EvidenceInv, EvidenceTypeOK
  <2>3. Receipt(p) \in Mine(p) \/ (Receipt(p) = Current(p) /\ Len(made[p]) < last)
    BY <1>1, <2>1 DEF EvidenceInv, OwnersOK, OwnerOK, Owned, Name
  <2>4. Len(made[p]) + 1 >= last
    <3>1. CASE Receipt(p) \in Mine(p)
      <4>1. PICK k \in 1 .. Len(made[p]) : Targets(p)[k] = Targets(p)[last]
        BY <2>1, <2>2, <3>1 DEF Mine
      <4>2. k \in 1 .. last /\ last \in 1 .. last
        BY <2>1, <2>2
      <4>3. k = last
        BY <4>1, <4>2, TargetsDiffer
      <4> QED
        BY <2>2, <4>3
    <3>2. CASE Receipt(p) = Current(p) /\ Len(made[p]) < last
      <4>1. Targets(p)[Len(made[p]) + 1] = Targets(p)[last]
        BY <2>1, <3>2 DEF Current
      <4>2. Len(made[p]) + 1 \in 1 .. last /\ last \in 1 .. last
        BY <2>1, <2>2, <3>2
      <4>3. Len(made[p]) + 1 = last
        BY <4>1, <4>2, TargetsDiffer
      <4> QED
        BY <2>1, <4>3
    <3> QED
      BY <2>3, <3>1, <3>2
  <2>5. file[Targets(p)[1]] = p
    BY <1>1, <2>1, <2>2, <2>4, AllMade
  <2>6. ASSUME NeedsMarker(p) PROVE file[Targets(p)[2]] = p
    <3>1. last = 3
      BY <2>6, TargetsShape
    <3>2. 2 \in 1 .. Len(Targets(p)) /\ 2 <= Len(made[p])
      BY <2>2, <2>4, <3>1
    <3> QED
      BY <1>1, <3>2, AllMade
  <2> QED
    BY <2>5, <2>6, TargetsShape
<1>2. EvidenceInv => ReceiptIsCommitPoint
  BY <1>1 DEF ReceiptIsCommitPoint
<1> QED
  BY EvidenceInductive, <1>2, PTL

(* Two successful monthly runs of one period are the same run, and a       *)
(* marker stands for a run whose steps have all succeeded.                 *)
THEOREM OneSuccessPerPeriodHolds == EvidenceSpec => []OneSuccessPerPeriod
<1>1. ASSUME EvidenceInv, DoneComplete, NEW p \in Proc, NEW q \in Proc, pc[p] = "done", pc[q] = "done",
             NeedsMarker(p), NeedsMarker(q), Period[p] = Period[q]
      PROVE  p = q
  BY <1>1 DEF DoneComplete, Marker
<1>2. ASSUME EvidenceInv, NEW r \in Proc, file[Marker(r)] # Free
      PROVE  outcome[file[Marker(r)]] = "success"
  <2> DEFINE q == file[Marker(r)]
  <2>1. q \in Proc /\ Marker(r) \in Owned(q)
    BY <1>2 DEF EvidenceInv, EvidenceTypeOK, Owned, Name
  <2>2. PICK k \in 1 .. Len(Targets(q)) : Targets(q)[k] = Marker(r)
    BY <1>2, <2>1 DEF EvidenceInv, OwnersOK, OwnerOK, Wanted
  <2> HIDE DEF q
  <2>3. CASE NeedsMarker(q)
    BY <2>3 DEF NeedsMarker, q
  <2>4. CASE ~ NeedsMarker(q)
    <3>1. Len(Targets(q)) = 2 /\ Targets(q)[1] = Log(q) /\ Targets(q)[2] = Receipt(q)
      BY <2>1, <2>4, TargetsShape
    <3> QED
      BY <2>1, <2>2, <3>1, NamesDiffer
  <2> QED
    BY <2>3, <2>4
<1>3. EvidenceInv /\ DoneComplete => OneSuccessPerPeriod
  BY <1>1, <1>2 DEF OneSuccessPerPeriod
<1> QED
  BY EvidenceInductive, DoneCompleteHolds, <1>3, PTL
=============================================================================
