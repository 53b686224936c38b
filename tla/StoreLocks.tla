----------------------------- MODULE StoreLocks -----------------------------
(***************************************************************************)
(* The write sessions of quant_data.stores (acquire_write_session,          *)
(* StoreWriteLock, HeldWriteLocks).  Several processes ask for sets of      *)
(* physical stores.  A call sorts the lock files of its set by canonical    *)
(* URI, polls flock(LOCK_EX | LOCK_NB) on them one by one under a single    *)
(* deadline, hands out a capability once it holds them all, and on the way  *)
(* out revokes the capability and unlocks in reverse order.  A process that *)
(* dies loses its locks at once: the kernel owns them.                      *)
(*                                                                         *)
(* Time is counted in polls: left[p] is what remains of the deadline.       *)
(***************************************************************************)
EXTENDS Naturals

CONSTANTS Process,   \* the processes that may write
          Store,     \* the operational stores, one physical file each
          Uri,       \* the position of a store in canonical URI order
          Timeout,   \* the polls a call may sleep before its deadline
          Nobody     \* the holder of a free lock

ASSUME UriAssumption ==
  /\ Uri \in [Store -> Nat]
  /\ \A s, t \in Store : Uri[s] = Uri[t] => s = t
  /\ \E top \in Store : \A s \in Store : Uri[s] <= Uri[top]
ASSUME TimeoutAssumption == Timeout \in Nat
ASSUME NobodyAssumption == Nobody \notin Process

VARIABLES
  holder,    \* the kernel: who has the exclusive flock of each store
  pc,        \* where each process is in acquire_write_session
  want,      \* identities: the requested set
  acquired,  \* acquired: the locks this call holds
  left,      \* polls left before the deadline of the call
  slept,     \* acquisition_wait_seconds, summed: polls slept by the call
  outcome,   \* how the last call ended
  granted,   \* the stores named by the last capability p was given
  active,    \* its state.active
  writing    \* the stores p has a write transaction open on

vars == <<holder, pc, want, acquired, left, slept, outcome, granted, active,
          writing>>

Outcomes == {"none", "granted", "conflict", "io"}

TypeOK ==
  /\ holder \in [Store -> Process \cup {Nobody}]
  /\ pc \in [Process -> {"idle", "acquiring", "active", "releasing"}]
  /\ want \in [Process -> SUBSET Store]
  /\ acquired \in [Process -> SUBSET Store]
  /\ left \in [Process -> 0 .. Timeout]
  /\ slept \in [Process -> Nat]
  /\ outcome \in [Process -> Outcomes]
  /\ granted \in [Process -> SUBSET Store]
  /\ active \in [Process -> BOOLEAN]
  /\ writing \in [Process -> SUBSET Store]

Init ==
  /\ holder = [s \in Store |-> Nobody]
  /\ pc = [p \in Process |-> "idle"]
  /\ want = [p \in Process |-> {}]
  /\ acquired = [p \in Process |-> {}]
  /\ left = [p \in Process |-> 0]
  /\ slept = [p \in Process |-> 0]
  /\ outcome = [p \in Process |-> "none"]
  /\ granted = [p \in Process |-> {}]
  /\ active = [p \in Process |-> FALSE]
  /\ writing = [p \in Process |-> {}]

-----------------------------------------------------------------------------
(* Defective variants of the definitions below.  Nothing uses them; each   *)
(* stands for a bug the checks have to notice when it takes the place of   *)
(* the definition it is a variant of.                                      *)

(* The locks are taken in the order the caller named them.                 *)
IsNext_RequestOrder(p, s) == s \in want[p] \ acquired[p]

(* The poll loop does not read the clock.                                  *)
Sleep_NoClock(p, s, rest) ==
  /\ pc[p] = "acquiring"
  /\ s \in want[p] \ acquired[p]
  /\ holder[s] # Nobody
  /\ rest = left[p]
  /\ UNCHANGED vars

(* The capability outlives the with block.                                 *)
Leave_StillActive(p) ==
  /\ pc[p] = "active"
  /\ writing[p] = {}
  /\ pc' = [pc EXCEPT ![p] = "releasing"]
  /\ UNCHANGED <<holder, want, acquired, left, slept, outcome, granted, active,
                 writing>>

-----------------------------------------------------------------------------
(* The for loop over the sorted identities stands at the first of them not *)
(* yet acquired; the release loop runs through the list backwards.         *)
IsNext(p, s) ==
  /\ s \in want[p] \ acquired[p]
  /\ \A t \in want[p] \ acquired[p] : Uri[s] <= Uri[t]

IsLast(p, s) ==
  /\ s \in acquired[p]
  /\ \A t \in acquired[p] : Uri[t] <= Uri[s]

(* HeldWriteLocks._require_target: the capability is live and names the    *)
(* store.                                                                  *)
Covers(p, s) == active[p] /\ s \in granted[p]

Begin(p, S, timeout) ==
  /\ pc[p] = "idle"
  /\ writing[p] = {}
  /\ S # {}
  /\ pc' = [pc EXCEPT ![p] = "acquiring"]
  /\ want' = [want EXCEPT ![p] = S]
  /\ left' = [left EXCEPT ![p] = timeout]
  /\ slept' = [slept EXCEPT ![p] = 0]
  /\ outcome' = [outcome EXCEPT ![p] = "none"]
  /\ UNCHANGED <<holder, acquired, granted, active, writing>>

(* flock succeeds; the deadline is not looked at on this path.             *)
Lock(p, s) ==
  /\ pc[p] = "acquiring"
  /\ IsNext(p, s)
  /\ holder[s] = Nobody
  /\ holder' = [holder EXCEPT ![s] = p]
  /\ acquired' = [acquired EXCEPT ![p] = @ \cup {s}]
  /\ UNCHANGED <<pc, want, left, slept, outcome, granted, active, writing>>

(* BlockingIOError before the deadline: sleep and poll again.  The process *)
(* may be woken later than it asked.                                       *)
Sleep(p, s, rest) ==
  /\ pc[p] = "acquiring"
  /\ IsNext(p, s)
  /\ holder[s] # Nobody
  /\ rest < left[p]
  /\ left' = [left EXCEPT ![p] = rest]
  /\ slept' = [slept EXCEPT ![p] = @ + 1]
  /\ UNCHANGED <<holder, pc, want, acquired, outcome, granted, active, writing>>

(* BlockingIOError at or after the deadline: ConflictError, and the finally*)
(* block gives up what was gathered.                                       *)
GiveUp(p, s) ==
  /\ pc[p] = "acquiring"
  /\ IsNext(p, s)
  /\ holder[s] # Nobody
  /\ left[p] = 0
  /\ pc' = [pc EXCEPT ![p] = "releasing"]
  /\ outcome' = [outcome EXCEPT ![p] = "conflict"]
  /\ UNCHANGED <<holder, want, acquired, left, slept, granted, active, writing>>

(* The lock directory or the lock file cannot be opened: OSError.          *)
OpenFails(p) ==
  /\ pc[p] = "acquiring"
  /\ want[p] # acquired[p]
  /\ pc' = [pc EXCEPT ![p] = "releasing"]
  /\ outcome' = [outcome EXCEPT ![p] = "io"]
  /\ UNCHANGED <<holder, want, acquired, left, slept, granted, active, writing>>

(* The loop has run to its end: the capability is created and yielded.     *)
Grant(p) ==
  /\ pc[p] = "acquiring"
  /\ want[p] = acquired[p]
  /\ pc' = [pc EXCEPT ![p] = "active"]
  /\ granted' = [granted EXCEPT ![p] = want[p]]
  /\ active' = [active EXCEPT ![p] = TRUE]
  /\ outcome' = [outcome EXCEPT ![p] = "granted"]
  /\ UNCHANGED <<holder, want, acquired, left, slept, writing>>

(* A coordinator that is shown the capability opens a write transaction.   *)
(* Nothing stops a caller from keeping the capability object and showing it*)
(* again later: Covers is the only guard.                                  *)
OpenWrite(p, s) ==
  /\ Covers(p, s)
  /\ writing' = [writing EXCEPT ![p] = @ \cup {s}]
  /\ UNCHANGED <<holder, pc, want, acquired, left, slept, outcome, granted,
                 active>>

CloseWrite(p, s) ==
  /\ s \in writing[p]
  /\ writing' = [writing EXCEPT ![p] = @ \ {s}]
  /\ UNCHANGED <<holder, pc, want, acquired, left, slept, outcome, granted,
                 active>>

(* The with block ends, normally or by an exception of its body: the call  *)
(* that was writing has returned, and the capability is revoked before any *)
(* lock is.                                                                *)
Leave(p) ==
  /\ pc[p] = "active"
  /\ writing[p] = {}
  /\ pc' = [pc EXCEPT ![p] = "releasing"]
  /\ active' = [active EXCEPT ![p] = FALSE]
  /\ UNCHANGED <<holder, want, acquired, left, slept, outcome, granted, writing>>

(* One turn of "for lock in reversed(acquired)".                           *)
Unlock(p, s) ==
  /\ pc[p] = "releasing"
  /\ IsLast(p, s)
  /\ holder' = [holder EXCEPT ![s] = Nobody]
  /\ acquired' = [acquired EXCEPT ![p] = @ \ {s}]
  /\ UNCHANGED <<pc, want, left, slept, outcome, granted, active, writing>>

Return(p) ==
  /\ pc[p] = "releasing"
  /\ acquired[p] = {}
  /\ pc' = [pc EXCEPT ![p] = "idle"]
  /\ want' = [want EXCEPT ![p] = {}]
  /\ left' = [left EXCEPT ![p] = 0]
  /\ slept' = [slept EXCEPT ![p] = 0]
  /\ UNCHANGED <<holder, acquired, outcome, granted, active, writing>>

(* The process dies anywhere: the kernel closes its lock files and SQLite  *)
(* forgets its transaction.  A new process starts from nothing.            *)
Crash(p) ==
  /\ pc[p] # "idle"
  /\ holder' = [s \in Store |-> IF holder[s] = p THEN Nobody ELSE holder[s]]
  /\ pc' = [pc EXCEPT ![p] = "idle"]
  /\ want' = [want EXCEPT ![p] = {}]
  /\ acquired' = [acquired EXCEPT ![p] = {}]
  /\ left' = [left EXCEPT ![p] = 0]
  /\ slept' = [slept EXCEPT ![p] = 0]
  /\ outcome' = [outcome EXCEPT ![p] = "none"]
  /\ granted' = [granted EXCEPT ![p] = {}]
  /\ active' = [active EXCEPT ![p] = FALSE]
  /\ writing' = [writing EXCEPT ![p] = {}]

Step(p) ==
  \/ \E s \in Store :
       \/ Lock(p, s)
       \/ \E rest \in 0 .. Timeout : Sleep(p, s, rest)
       \/ GiveUp(p, s)
       \/ Unlock(p, s)
  \/ Grant(p)
  \/ Return(p)

Next ==
  \E p \in Process :
    \/ \E S \in SUBSET Store, t \in 0 .. Timeout : Begin(p, S, t)
    \/ Step(p)
    \/ OpenFails(p)
    \/ \E s \in Store : OpenWrite(p, s) \/ CloseWrite(p, s)
    \/ Leave(p)
    \/ Crash(p)

Spec == Init /\ [][Next]_vars

(* A process that is inside acquire_write_session keeps running: the poll  *)
(* loop sleeps 20 ms at a time and the release loop does not wait.  Nothing*)
(* is assumed of the body of a session, which may last for ever, nor of a  *)
(* process that wants to begin one.                                        *)
Fairness == \A p \in Process : WF_vars(Step(p))
FairSpec == Spec /\ Fairness

-----------------------------------------------------------------------------
(* Properties.                                                             *)

(* The kernel's view and each call's list agree.                           *)
LocksAgree ==
  \A p \in Process : \A s \in Store : holder[s] = p <=> s \in acquired[p]

(* A session is complete: whoever has a live capability holds every lock   *)
(* it names, so a job never runs with a subset of its stores.              *)
CapabilityBacked ==
  \A p \in Process : active[p] => granted[p] # {} /\ granted[p] \subseteq acquired[p]

(* No two processes ever have a write transaction open on one store, even  *)
(* if one of them presents a capability whose session is over.             *)
OneWriter ==
  \A p, q \in Process : p # q => writing[p] \cap writing[q] = {}

(* p polls a lock that q holds.                                            *)
WaitsFor(p, q) ==
  /\ pc[p] = "acquiring"
  /\ \E s \in Store : IsNext(p, s) /\ holder[s] = q

(* Locks are gathered upwards: everything a call holds is below everything *)
(* it still wants.                                                         *)
Upwards ==
  \A p \in Process :
    pc[p] = "acquiring" =>
      /\ acquired[p] \subseteq want[p]
      /\ \A s \in acquired[p] : \A t \in want[p] \ acquired[p] : Uri[s] < Uri[t]

(* Opposite request orders cannot deadlock: in any group of processes one  *)
(* at least waits for nobody of the group, so the deadline is never needed *)
(* to break a circle (ADR 0006).                                           *)
NoCircularWait ==
  \A G \in (SUBSET Process) \ {{}} :
    \E p \in G : \A q \in G : ~WaitsFor(p, q)

(* One deadline bounds the whole set: however many of its locks are        *)
(* contended, a call sleeps at most as long as one lock would.             *)
OneDeadline == \A p \in Process : slept[p] + left[p] <= Timeout

(* A call that fails leaves nothing behind: a process that is outside      *)
(* acquire_write_session holds no lock, has no live capability and no open *)
(* transaction.                                                            *)
NothingLeft ==
  \A p \in Process :
    pc[p] = "idle" => ~active[p] /\ writing[p] = {} /\ \A s \in Store : holder[s] # p

(* A lock conflict is reported only while another process really holds a   *)
(* store of the set: a late poll of a free lock still takes it.            *)
ConflictIsReal ==
  [][\A p \in Process :
       outcome'[p] = "conflict" /\ outcome[p] # "conflict" =>
         \E s \in want[p] : holder[s] \in Process \ {p}]_vars

(* While a process lives, a lock is dropped only after its capability was  *)
(* revoked, and always the highest of those still held.                    *)
RevokedBeforeReleased ==
  [][\A p \in Process : \A s \in acquired[p] \ acquired'[p] :
       /\ ~active'[p]
       /\ pc'[p] = "idle" \/ \A t \in acquired'[p] : Uri[t] < Uri[s]]_vars

(* Every call of acquire_write_session ends, in a session or an error, even*)
(* when some holder never lets go.                                         *)
CallEnds ==
  \A p \in Process : pc[p] = "acquiring" ~> pc[p] # "acquiring"

(* The sessions are what StoreSessions promises: a session is the          *)
(* capability while it is live.                                            *)
Sessions ==
  INSTANCE StoreSessions
    WITH session <- [p \in Process |-> IF active[p] THEN granted[p] ELSE {}]
SessionsSpec == Sessions!Spec
=============================================================================
