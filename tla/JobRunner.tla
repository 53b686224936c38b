----------------------------- MODULE JobRunner -----------------------------
(***************************************************************************)
(* One run of OfflineJobRunner.run: every step is prepared before any lock  *)
(* is taken (_prepare_all, with retries), the prepared ones are published   *)
(* one after the other inside one write session over all stores of the job  *)
(* (_publish_all), and what happened is put in a receipt (_build_receipt).  *)
(*                                                                         *)
(* What the executor and the lock set do is the environment: a call may    *)
(* succeed, fail or be cut short by the alarm of _active_timeout, the       *)
(* session may be refused, and letting go of it may fail.  "committed" is   *)
(* the truth the receipt is compared with; the program does not have it.    *)
(*                                                                         *)
(* Time is counted in ticks from job_started.                              *)
(***************************************************************************)
EXTENDS Integers, FiniteSets

CONSTANTS
  N,             \* the number of steps; they are taken in the order 1..N
  Deps,          \* the required predecessors of each step
  Store,         \* the store each step writes
  PrepareFault,  \* error codes an executor's prepare may end in
  PublishFault,  \* error codes an executor's publish may end in
  StepTimeout,   \* timeout_seconds of each step
  JobTimeout,    \* timeout_seconds of the job
  Cap,           \* active_timeout_cap_seconds
  LockTimeout,   \* lock_timeout_seconds
  Backoff,       \* the exponential delay after the n-th failure
  RetryAfter,    \* delays a failing provider may ask for instead
  MaxDelay,      \* max_delay_seconds of the retry policy
  Slack          \* how late an alarm or the end of a sleep may come

Step == 1..N
MaxAttempts == 3

ASSUME StepAssumption ==
  /\ N \in Nat \ {0}
  /\ Deps \in [Step -> SUBSET Step]
  /\ \A s \in Step : \A d \in Deps[s] : d < s
  /\ DOMAIN Store = Step
ASSUME TimeAssumption ==
  /\ StepTimeout \in [Step -> Nat]
  /\ {JobTimeout, Cap, LockTimeout, MaxDelay, Slack} \subseteq Nat
  /\ Backoff \in [1..MaxAttempts -> Nat]
  /\ RetryAfter \subseteq Nat

(* job_retry.py: the error codes, those worth a retry, and the exit codes.  *)
Retryable == {"temporary", "transport", "rate_limited"}
Code == Retryable \cup {"invalid_plan", "unavailable", "internal", "schema", "io",
                        "lock_conflict", "timeout", "configuration"}
ExitOf(code) ==
  CASE code = "invalid_plan"          -> 64
    [] code = "unavailable"           -> 69
    [] code \in {"internal", "schema"} -> 70
    [] code = "io"                    -> 74
    [] code = "timeout"               -> 124
    [] code = "configuration"         -> 78
    [] OTHER                          -> 75

ASSUME FaultAssumption == PrepareFault \cup PublishFault \subseteq Code \ {"timeout"}

Exits == {0, 64, 69, 70, 74, 75, 78, 124}
Precedence == <<74, 78, 64, 124, 70, 75, 69>>
Outcomes == {"succeeded", "unchanged", "partial", "failed", "timed_out", "blocked", "skipped"}
Good == {"succeeded", "unchanged"}
StepError == Code \cup {"none", "dependency_blocked", "partial_publication"}

NoReceipt == [outcome |-> "none", attempts |-> 0, exit |-> 0, runs |-> FALSE, error |-> "none"]
Receipts == [outcome : Outcomes, attempts : 0..MaxAttempts, exit : Exits,
             runs : BOOLEAN, error : StepError]

(* StepPublication: its outcome and whether it names a committed store.    *)
NoPublication == [outcome |-> "none", wrote |-> FALSE]
Publications == {[outcome |-> "succeeded", wrote |-> TRUE],
                 [outcome |-> "unchanged", wrote |-> FALSE],
                 [outcome |-> "partial", wrote |-> TRUE],
                 [outcome |-> "partial", wrote |-> FALSE]}

VARIABLES
  phase,       \* where run() is
  cur,         \* the step it is at
  now,         \* ticks since job_started
  spent,       \* elapsed_seconds of each step
  attempts,    \* prepare calls made for each step
  fault,       \* how the last prepare call failed
  prepared,    \* the steps that hold a candidate
  receipt,     \* the receipt of each step
  publication, \* what the executor's publish returned for each step
  locked,      \* whether the write session is open
  aliases,     \* the stores of the session once it has been granted
  committed,   \* the steps whose publish has committed (truth)
  report       \* the job receipt

vars == <<phase, cur, now, spent, attempts, fault, prepared, receipt,
          publication, locked, aliases, committed, report>>

NoReport == [semantic |-> "none", exit |-> 0, stores |-> {}, runs |-> {}, errors |-> {}]
Semantics == {"changed", "unchanged", "skipped", "partial", "failed"}
Phases == {"start", "prepare", "judge", "locking", "publish", "publishing",
           "release", "receipt", "evidence", "done", "raised"}

TypeOK ==
  /\ phase \in Phases
  /\ cur \in 1..(N + 1)
  /\ phase \in {"judge", "publishing"} => cur \in Step
  /\ now \in Nat
  /\ spent \in [Step -> Nat]
  /\ attempts \in [Step -> 0..MaxAttempts]
  /\ phase = "judge" => attempts[cur] > 0
  /\ fault \in Code \cup {"none"}
  /\ prepared \in SUBSET Step
  /\ receipt \in [Step -> Receipts \cup {NoReceipt}]
  /\ publication \in [Step -> Publications \cup {NoPublication}]
  /\ locked \in BOOLEAN
  /\ aliases \in SUBSET {Store[s] : s \in Step}
  /\ committed \in SUBSET Step
  /\ report.semantic \in Semantics \cup {"none"}
  /\ report.exit \in Exits
  /\ report.stores \in SUBSET {Store[s] : s \in Step}
  /\ report.runs \in SUBSET Step
  /\ report.errors \in SUBSET StepError

Init ==
  /\ phase = "start"
  /\ cur = 1
  /\ now = 0
  /\ spent = [s \in Step |-> 0]
  /\ attempts = [s \in Step |-> 0]
  /\ fault = "none"
  /\ prepared = {}
  /\ receipt = [s \in Step |-> NoReceipt]
  /\ publication = [s \in Step |-> NoPublication]
  /\ locked = FALSE
  /\ aliases = {}
  /\ committed = {}
  /\ report = NoReport

Least(a, b) == IF a <= b THEN a ELSE b
Most(a, b) == IF a <= b THEN b ELSE a

StepReceipt(s, outcome, exit, error, p) ==
  [outcome |-> outcome, attempts |-> attempts[s], exit |-> exit,
   runs |-> p.wrote, error |-> error]

(* Prepared, and with nothing said about it yet.                           *)
Publishable(s) == s \in prepared /\ receipt[s] = NoReceipt

-----------------------------------------------------------------------------
(* Defective variants of the definitions below.  Nothing uses them; each   *)
(* stands for a bug the checks have to notice when it takes the place of   *)
(* the definition it is a variant of.                                      *)

(* The exit code of the first predecessor, whether it failed or not.       *)
DependencyExit_First(s) ==
  receipt[CHOOSE d \in Deps[s] : \A e \in Deps[s] : d <= e].exit

(* Only a predecessor that failed outright holds a step back.              *)
PredecessorFailed_Outright(s) == \E d \in Deps[s] : receipt[d].outcome = "failed"

(* A retry starts with a fresh step state and does not wait.               *)
Retry_Afresh(s) ==
  /\ phase = "judge" /\ cur = s
  /\ fault \in Retryable
  /\ attempts' = [attempts EXCEPT ![s] = 0]
  /\ phase' = "prepare"
  /\ UNCHANGED <<cur, now, spent, fault, prepared, receipt, publication,
                 locked, aliases, committed, report>>

(* The publication is noted before the executor has made it.               *)
PublishBegin_Noted(s) ==
  /\ phase = "publish" /\ cur = s
  /\ Publishable(s)
  /\ publication' = [publication EXCEPT ![s] = [outcome |-> "succeeded", wrote |-> TRUE]]
  /\ phase' = "publishing"
  /\ UNCHANGED <<cur, now, spent, attempts, fault, prepared, receipt,
                 locked, aliases, committed, report>>

-----------------------------------------------------------------------------
(* What a call may still take: _remaining_call_seconds.                    *)
Remaining(s) ==
  Least(Cap, Least(StepTimeout[s] - spent[s], JobTimeout - now))

(* The time a call may take when it is not refused at once.                *)
CallTime(s) == 0..(Remaining(s) + Slack)

Pass(s, d) ==
  /\ now' = now + d
  /\ spent' = [spent EXCEPT ![s] = @ + d]

Late(s, d) == now + d > JobTimeout \/ spent[s] + d > StepTimeout[s]

(* The exit code of the first required predecessor that has one.           *)
DependencyExit(s) ==
  LET failed == {d \in Deps[s] : receipt[d].exit # 0}
  IN  IF failed = {} THEN 70
      ELSE receipt[CHOOSE d \in failed : \A e \in failed : d <= e].exit

(* _dependencies_succeeded, asked before a step is prepared                *)
Runnable(s) == \A d \in Deps[s] : d \in prepared /\ receipt[d] = NoReceipt

(* and the question asked again before it is published.                    *)
PredecessorFailed(s) ==
  \E d \in Deps[s] : receipt[d] # NoReceipt /\ receipt[d].outcome \notin Good

-----------------------------------------------------------------------------
(* A calendar that is not eligible: every step is skipped.                 *)
SkipJob ==
  /\ phase = "start"
  /\ phase' = "receipt"
  /\ receipt' = [s \in Step |-> StepReceipt(s, "skipped", 0, "none", NoPublication)]
  /\ UNCHANGED <<cur, now, spent, attempts, fault, prepared, publication,
                 locked, aliases, committed, report>>

(* preflight_job_evidence refuses the run before it does anything.         *)
PreflightFails ==
  /\ phase = "start"
  /\ phase' = "raised"
  /\ UNCHANGED <<cur, now, spent, attempts, fault, prepared, receipt, publication,
                 locked, aliases, committed, report>>

StartPrepare ==
  /\ phase = "start"
  /\ phase' = "prepare"
  /\ UNCHANGED <<cur, now, spent, attempts, fault, prepared, receipt, publication,
                 locked, aliases, committed, report>>

Block(s) ==
  /\ phase = "prepare" /\ cur = s
  /\ ~Runnable(s)
  /\ receipt' = [receipt EXCEPT ![s] =
       StepReceipt(s, "blocked", DependencyExit(s), "dependency_blocked", NoPublication)]
  /\ cur' = s + 1
  /\ UNCHANGED <<phase, now, spent, attempts, fault, prepared, publication,
                 locked, aliases, committed, report>>

(* One prepare call under the alarm.  Without time left it is refused; the *)
(* clock read after it overrules whatever it returned.                     *)
Attempt(s) ==
  /\ phase = "prepare" /\ cur = s
  /\ Runnable(s)
  /\ phase' = "judge"
  /\ attempts' = [attempts EXCEPT ![s] = @ + 1]
  /\ \/ /\ Remaining(s) <= 0
        /\ fault' = "timeout"
        /\ UNCHANGED <<now, spent>>
     \/ /\ Remaining(s) > 0
        /\ \E d \in CallTime(s), f \in PrepareFault \cup {"none", "timeout"} :
             /\ f = "timeout" => d >= Remaining(s)
             /\ Pass(s, d)
             /\ fault' = IF Late(s, d) THEN "timeout" ELSE f
  /\ UNCHANGED <<cur, prepared, receipt, publication, locked, aliases, committed, report>>

Accept(s) ==
  /\ phase = "judge" /\ cur = s
  /\ fault = "none"
  /\ prepared' = prepared \cup {s}
  /\ phase' = "prepare"
  /\ cur' = s + 1
  /\ UNCHANGED <<now, spent, attempts, fault, receipt, publication,
                 locked, aliases, committed, report>>

(* The delays the policy may be asked for after the calls made so far, and *)
(* whether one fits: RetryPolicy.delay_after.                              *)
Delays(s) == RetryAfter \cup {Least(Backoff[attempts[s]], MaxDelay)}
Fits(s, delay) ==
  /\ delay <= MaxDelay
  /\ delay <= Most(0, Least(StepTimeout[s] - spent[s], JobTimeout - now))

Retry(s) ==
  /\ phase = "judge" /\ cur = s
  /\ fault \in Retryable
  /\ attempts[s] < MaxAttempts
  /\ \E delay \in Delays(s), e \in 0..Slack : Fits(s, delay) /\ Pass(s, delay + e)
  /\ phase' = "prepare"
  /\ UNCHANGED <<cur, attempts, fault, prepared, receipt, publication,
                 locked, aliases, committed, report>>

GiveUp(s) ==
  /\ phase = "judge" /\ cur = s
  /\ fault # "none"
  /\ fault \in Retryable /\ attempts[s] < MaxAttempts =>
       \E delay \in Delays(s) : ~Fits(s, delay)
  /\ receipt' = [receipt EXCEPT ![s] =
       StepReceipt(s, IF fault = "timeout" THEN "timed_out" ELSE "failed",
                   ExitOf(fault), fault, NoPublication)]
  /\ phase' = "prepare"
  /\ cur' = s + 1
  /\ UNCHANGED <<now, spent, attempts, fault, prepared, publication,
                 locked, aliases, committed, report>>

(* Locks are asked for only when there is something to publish.            *)
EndPrepare ==
  /\ phase = "prepare" /\ cur = N + 1
  /\ phase' = IF prepared = {} THEN "receipt" ELSE "locking"
  /\ UNCHANGED <<cur, now, spent, attempts, fault, prepared, receipt, publication,
                 locked, aliases, committed, report>>

-----------------------------------------------------------------------------
(* The outer except of _publish_all: what was to be published and has not  *)
(* failed by itself fails with the session, as partial if it was written.  *)
Relabel(error) ==
  receipt' = [s \in Step |->
    IF s \in prepared /\ receipt[s].exit = 0
    THEN StepReceipt(s, IF publication[s].wrote THEN "partial" ELSE "failed",
                     ExitOf(error), error, publication[s])
    ELSE receipt[s]]

(* acquire_write_session raises, having waited at most for its deadline.   *)
LocksRefused ==
  /\ phase = "locking"
  /\ \E w \in 0..(LockTimeout + Slack) : now' = now + w
  /\ \E error \in {"lock_conflict", "io", "internal"} : Relabel(error)
  /\ phase' = "receipt"
  /\ UNCHANGED <<cur, spent, attempts, fault, prepared, publication,
                 locked, aliases, committed, report>>

LocksGranted ==
  /\ phase = "locking"
  /\ \E w \in 0..(LockTimeout + Slack) : now' = now + w
  /\ locked' = TRUE
  /\ aliases' = {Store[s] : s \in Step}
  /\ phase' = "publish"
  /\ cur' = 1
  /\ UNCHANGED <<spent, attempts, fault, prepared, receipt, publication,
                 committed, report>>

PassOver(s) ==
  /\ phase = "publish" /\ cur = s
  /\ ~Publishable(s)
  /\ cur' = s + 1
  /\ UNCHANGED <<phase, now, spent, attempts, fault, prepared, receipt, publication,
                 locked, aliases, committed, report>>

PublishBlocked(s) ==
  /\ phase = "publish" /\ cur = s
  /\ Publishable(s) /\ PredecessorFailed(s)
  /\ receipt' = [receipt EXCEPT ![s] =
       StepReceipt(s, "failed", DependencyExit(s), "dependency_blocked", NoPublication)]
  /\ cur' = s + 1
  /\ UNCHANGED <<phase, now, spent, attempts, fault, prepared, publication,
                 locked, aliases, committed, report>>

PublishTooLate(s) ==
  /\ phase = "publish" /\ cur = s
  /\ Publishable(s) /\ ~PredecessorFailed(s)
  /\ Remaining(s) <= 0
  /\ receipt' = [receipt EXCEPT ![s] =
       StepReceipt(s, "timed_out", 124, "timeout", NoPublication)]
  /\ cur' = s + 1
  /\ UNCHANGED <<phase, now, spent, attempts, fault, prepared, publication,
                 locked, aliases, committed, report>>

PublishBegin(s) ==
  /\ phase = "publish" /\ cur = s
  /\ Publishable(s) /\ ~PredecessorFailed(s)
  /\ Remaining(s) > 0
  /\ phase' = "publishing"
  /\ UNCHANGED <<cur, now, spent, attempts, fault, prepared, receipt, publication,
                 locked, aliases, committed, report>>

(* The executor's transaction, at some moment of the call.                 *)
Commit(s) ==
  /\ phase = "publishing" /\ cur = s
  /\ s \notin committed
  /\ committed' = committed \cup {s}
  /\ UNCHANGED <<phase, cur, now, spent, attempts, fault, prepared, receipt,
                 publication, locked, aliases, report>>

(* The call returns in time or just late.                                  *)
Return(s) ==
  /\ phase = "publishing" /\ cur = s
  /\ \E p \in Publications, d \in CallTime(s) :
       /\ p.wrote <=> s \in committed
       /\ Pass(s, d)
       /\ publication' = [publication EXCEPT ![s] = p]
       /\ receipt' = [receipt EXCEPT ![s] =
            IF Late(s, d) THEN StepReceipt(s, "timed_out", 124, "timeout", p)
            ELSE IF p.outcome = "partial"
            THEN StepReceipt(s, "partial", 70, "partial_publication", p)
            ELSE StepReceipt(s, p.outcome, 0, "none", p)]
  /\ phase' = "publish"
  /\ cur' = s + 1
  /\ UNCHANGED <<attempts, fault, prepared, locked, aliases, committed, report>>

(* It raises.  Once the transaction is committed that is the work of the   *)
(* alarm, or of a check on what the importer or the executor returned.     *)
Raise(s) ==
  /\ phase = "publishing" /\ cur = s
  /\ \E f \in PublishFault \cup {"timeout"}, d \in CallTime(s) :
       /\ f = "timeout" => d >= Remaining(s)
       /\ s \in committed => f \in {"timeout", "schema"}
       /\ Pass(s, d)
       /\ receipt' = [receipt EXCEPT ![s] =
            StepReceipt(s, IF f = "timeout" THEN "timed_out" ELSE "failed",
                        ExitOf(f), f, NoPublication)]
  /\ phase' = "publish"
  /\ cur' = s + 1
  /\ UNCHANGED <<attempts, fault, prepared, publication, locked, aliases,
                 committed, report>>

EndPublish ==
  /\ phase = "publish" /\ cur = N + 1
  /\ phase' = "release"
  /\ UNCHANGED <<cur, now, spent, attempts, fault, prepared, receipt, publication,
                 locked, aliases, committed, report>>

(* Leaving the session, cleanly or with the OSError of an unlock.          *)
Release ==
  /\ phase = "release"
  /\ UNCHANGED receipt \/ Relabel("io")
  /\ locked' = FALSE
  /\ phase' = "receipt"
  /\ UNCHANGED <<cur, now, spent, attempts, fault, prepared, publication,
                 aliases, committed, report>>

-----------------------------------------------------------------------------
(* The first exit code of the precedence that a step ended in.             *)
AggregateExit ==
  LET hits == {i \in DOMAIN Precedence : \E s \in Step : receipt[s].exit = Precedence[i]}
  IN  IF hits = {} THEN 0
      ELSE Precedence[CHOOSE i \in hits : \A j \in hits : i <= j]

Skipped == \A s \in Step : receipt[s].outcome = "skipped"

Built ==
  LET runs == {s \in Step : publication[s].wrote}
      stores == {Store[s] : s \in runs}
  IN  [exit |-> AggregateExit,
       runs |-> runs,
       stores |-> stores \cap aliases,
       semantic |-> IF AggregateExit # 0
                    THEN IF stores # {} THEN "partial" ELSE "failed"
                    ELSE IF Skipped THEN "skipped"
                    ELSE IF stores # {} THEN "changed" ELSE "unchanged",
       errors |-> {receipt[s].error : s \in Step} \ {"none"}]

(* What StepRunReceipt and JobRunReceipt insist on in __post_init__.       *)
StepAcceptable(r) ==
  /\ r \in Receipts
  /\ r.outcome \in {"skipped", "blocked"} <=> r.attempts = 0
  /\ r.outcome \in Good \cup {"skipped"} <=> r.exit = 0
  /\ r.exit = 0 <=> r.error = "none"
  /\ r.outcome = "timed_out" => r.exit = 124

JobAcceptable(r) ==
  /\ r.semantic \in {"changed", "unchanged", "skipped"} =>
       r.exit = 0 /\ r.errors = {} /\ \A s \in Step : receipt[s].exit = 0
  /\ r.semantic \in {"partial", "failed"} => r.exit # 0 /\ r.errors # {}
  /\ r.semantic = "skipped" <=> Skipped
  /\ r.stores \subseteq aliases

Acceptable == JobAcceptable(Built) /\ \A s \in Step : StepAcceptable(receipt[s])

BuildReceipt ==
  /\ phase = "receipt"
  /\ report' = IF Acceptable THEN Built ELSE NoReport
  /\ phase' = IF Acceptable THEN "evidence" ELSE "raised"
  /\ UNCHANGED <<cur, now, spent, attempts, fault, prepared, receipt, publication,
                 locked, aliases, committed>>

(* publish_job_evidence: see JobEvidence.                                  *)
PublishEvidence ==
  /\ phase = "evidence"
  /\ phase' \in {"done", "raised"}
  /\ UNCHANGED <<cur, now, spent, attempts, fault, prepared, receipt, publication,
                 locked, aliases, committed, report>>

StepAction(s) ==
  \/ Block(s) \/ Attempt(s) \/ Accept(s) \/ Retry(s) \/ GiveUp(s)
  \/ PassOver(s) \/ PublishBlocked(s) \/ PublishTooLate(s) \/ PublishBegin(s)
  \/ Commit(s) \/ Return(s) \/ Raise(s)

Next ==
  \/ SkipJob \/ PreflightFails \/ StartPrepare \/ EndPrepare
  \/ LocksRefused \/ LocksGranted \/ EndPublish \/ Release
  \/ BuildReceipt \/ PublishEvidence
  \/ \E s \in Step : StepAction(s)

Spec == Init /\ [][Next]_vars

(* The run is one thread; its executor calls are ended by the alarm and its*)
(* sleeps and waits by their deadlines, so it always takes its next step.  *)
FairSpec == Spec /\ WF_vars(Next)

-----------------------------------------------------------------------------
(* A step is published only after all its required predecessors have been  *)
(* published, or found unchanged, in the same run; that they were prepared *)
(* is not enough.                                                          *)
DependentsOnlyAfterSuccess ==
  [][\A s \in committed' \ committed : \A d \in Deps[s] :
       receipt[d].outcome \in Good /\ publication[d].outcome = receipt[d].outcome]_vars

(* However steps, session and clock fail, the receipt that is built passes *)
(* the checks of its own classes: a failing run does not lose its receipt. *)
ReceiptAccepted == phase = "receipt" => Acceptable

(* The receipt names no run and no store that was not committed, and keeps *)
(* every one an executor has reported, also when the step was late or the  *)
(* session broke afterwards.                                               *)
ReportedIsCommitted ==
  /\ \A s \in Step : publication[s].wrote => s \in committed
  /\ report # NoReport => report.stores = {Store[s] : s \in report.runs}
  /\ \A s \in Step :
       report # NoReport /\ publication[s].wrote => s \in report.runs

(* Every run comes to an end.                                              *)
RunEnds == <>(phase \in {"done", "raised"})

=============================================================================
