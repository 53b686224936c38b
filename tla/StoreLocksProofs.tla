-------------------------- MODULE StoreLocksProofs --------------------------
(***************************************************************************)
(* Proofs about StoreLocks, for any processes, any stores and any deadline. *)
(*                                                                         *)
(* The inductive invariant says what the code keeps true between two        *)
(* statements: the kernel's holders are exactly the calls' lists, a call    *)
(* that is not acquiring anything holds nothing it should not, and a        *)
(* capability is live only in a session that holds what it names.           *)
(***************************************************************************)
EXTENDS StoreLocks, WellFoundedInduction, TLAPS

(* What a call knows of itself at each point of acquire_write_session.     *)
PhaseOK ==
  \A p \in Process :
    /\ pc[p] = "idle" => acquired[p] = {}
    /\ pc[p] \in {"acquiring", "active"} => acquired[p] \subseteq want[p]
    /\ active[p] <=> pc[p] = "active"
    /\ active[p] => granted[p] = want[p] /\ acquired[p] = want[p] /\ want[p] # {}
    /\ pc[p] = "acquiring" => want[p] # {}
    /\ writing[p] # {} => active[p] /\ writing[p] \subseteq granted[p]

IInv ==
  /\ TypeOK
  /\ LocksAgree
  /\ PhaseOK
  /\ Upwards

-----------------------------------------------------------------------------
(* Init and every action preserve the types.                               *)
LEMMA TypeInit == Init => TypeOK
  BY TimeoutAssumption DEF Init, TypeOK, Outcomes

LEMMA TypeStep == TypeOK /\ [Next]_vars => TypeOK'
<1> SUFFICES ASSUME TypeOK, [Next]_vars PROVE TypeOK'
  OBVIOUS
<1> USE TimeoutAssumption DEF TypeOK, Outcomes
<1>1. CASE UNCHANGED vars
  BY <1>1 DEF vars
<1>2. ASSUME NEW p \in Process, NEW S \in SUBSET Store, NEW t \in 0 .. Timeout,
             Begin(p, S, t)
      PROVE  TypeOK'
  BY <1>2 DEF Begin
<1>3. ASSUME NEW p \in Process, NEW s \in Store, Lock(p, s)
      PROVE  TypeOK'
  BY <1>3 DEF Lock
<1>4. ASSUME NEW p \in Process, NEW s \in Store, NEW rest \in 0 .. Timeout,
             Sleep(p, s, rest)
      PROVE  TypeOK'
  BY <1>4 DEF Sleep
<1>5. ASSUME NEW p \in Process, NEW s \in Store, GiveUp(p, s)
      PROVE  TypeOK'
  BY <1>5 DEF GiveUp
<1>6. ASSUME NEW p \in Process, OpenFails(p)
      PROVE  TypeOK'
  BY <1>6 DEF OpenFails
<1>7. ASSUME NEW p \in Process, Grant(p)
      PROVE  TypeOK'
  BY <1>7 DEF Grant
<1>8. ASSUME NEW p \in Process, NEW s \in Store, OpenWrite(p, s) \/ CloseWrite(p, s)
      PROVE  TypeOK'
  BY <1>8 DEF OpenWrite, CloseWrite
<1>9. ASSUME NEW p \in Process, Leave(p)
      PROVE  TypeOK'
  BY <1>9 DEF Leave
<1>10. ASSUME NEW p \in Process, NEW s \in Store, Unlock(p, s)
       PROVE  TypeOK'
  BY <1>10 DEF Unlock
<1>11. ASSUME NEW p \in Process, Return(p)
       PROVE  TypeOK'
  BY <1>11 DEF Return
<1>12. ASSUME NEW p \in Process, Crash(p)
       PROVE  TypeOK'
  BY <1>12 DEF Crash
<1> QED
  BY <1>1, <1>2, <1>3, <1>4, <1>5, <1>6, <1>7, <1>8, <1>9, <1>10, <1>11, <1>12
  DEF Next, Step

(* Every variable of a write session keeps its type, whatever the          *)
(* processes, the stores and the deadline.                                 *)
THEOREM TypeCorrect == Spec => []TypeOK
  BY TypeInit, TypeStep, PTL DEF Spec

-----------------------------------------------------------------------------
(* Two stores are never at the same place of the URI order.                *)
LEMMA UriStrict ==
  ASSUME NEW s \in Store, NEW t \in Store, s # t, Uri[s] <= Uri[t]
  PROVE  Uri[s] < Uri[t]
<1>1. Uri[s] \in Nat /\ Uri[t] \in Nat /\ Uri[s] # Uri[t]
  BY UriAssumption
<1> QED
  BY <1>1

LEMMA IInvInit == Init => IInv
<1> SUFFICES ASSUME Init PROVE IInv
  OBVIOUS
<1>1. TypeOK
  BY TypeInit
<1>2. LocksAgree
  BY NobodyAssumption DEF Init, LocksAgree
<1>3. PhaseOK /\ Upwards
  BY DEF Init, PhaseOK, Upwards
<1> QED
  BY <1>1, <1>2, <1>3 DEF IInv

LEMMA IInvStep == IInv /\ [Next]_vars => IInv'
<1> SUFFICES ASSUME IInv, [Next]_vars PROVE IInv'
  OBVIOUS
<1>t. TypeOK /\ TypeOK'
  BY TypeStep DEF IInv
<1> USE <1>t, UriAssumption, NobodyAssumption DEF TypeOK
<1>i. LocksAgree /\ PhaseOK /\ Upwards
  BY DEF IInv
<1>g. SUFFICES LocksAgree' /\ PhaseOK' /\ Upwards'
  BY DEF IInv
<1>1. CASE UNCHANGED vars
  BY <1>1, <1>i DEF vars, LocksAgree, PhaseOK, Upwards
<1>2. ASSUME NEW p \in Process, NEW S \in SUBSET Store, NEW t \in 0 .. Timeout,
             Begin(p, S, t)
      PROVE  LocksAgree' /\ PhaseOK' /\ Upwards'
  BY <1>2, <1>i DEF Begin, LocksAgree, PhaseOK, Upwards
<1>3. ASSUME NEW p \in Process, NEW s \in Store, Lock(p, s)
      PROVE  LocksAgree' /\ PhaseOK' /\ Upwards'
  <2>1. LocksAgree'
    BY <1>3, <1>i DEF Lock, LocksAgree
  <2>2. PhaseOK'
    BY <1>3, <1>i DEF Lock, IsNext, PhaseOK
  <2>3. Upwards'
    <3>0. \A q \in Process : pc'[q] = "acquiring" => acquired'[q] \subseteq want'[q]
      BY <2>2 DEF PhaseOK
    <3> SUFFICES ASSUME NEW q \in Process, pc'[q] = "acquiring",
                        NEW u \in acquired'[q], NEW v \in want'[q] \ acquired'[q]
                 PROVE  Uri[u] < Uri[v]
      BY <3>0 DEF Upwards
    <3>1. CASE q # p
      BY <1>3, <1>i, <3>1 DEF Lock, Upwards
    <3>2. CASE q = p
      <4>1. acquired'[p] = acquired[p] \cup {s} /\ want' = want /\ pc[p] = "acquiring"
        BY <1>3 DEF Lock
      <4>2. v \in Store /\ v \in want[p] \ acquired[p] /\ s # v
        BY <3>2, <4>1
      <4>3. Uri[s] < Uri[v]
        <5>1. Uri[s] <= Uri[v]
          BY <1>3, <4>2 DEF Lock, IsNext
        <5> QED
          BY <4>2, <5>1, UriStrict
      <4>4. CASE u \in acquired[p]
        BY <1>i, <4>1, <4>2, <4>4 DEF Upwards
      <4> QED
        BY <3>2, <4>1, <4>3, <4>4
    <3> QED
      BY <3>1, <3>2
  <2> QED
    BY <2>1, <2>2, <2>3
<1>4. ASSUME NEW p \in Process, NEW s \in Store, NEW rest \in 0 .. Timeout,
             Sleep(p, s, rest)
      PROVE  LocksAgree' /\ PhaseOK' /\ Upwards'
  BY <1>4, <1>i DEF Sleep, LocksAgree, PhaseOK, Upwards
<1>5. ASSUME NEW p \in Process, NEW s \in Store, GiveUp(p, s)
      PROVE  LocksAgree' /\ PhaseOK' /\ Upwards'
  BY <1>5, <1>i DEF GiveUp, LocksAgree, PhaseOK, Upwards
<1>6. ASSUME NEW p \in Process, OpenFails(p)
      PROVE  LocksAgree' /\ PhaseOK' /\ Upwards'
  BY <1>6, <1>i DEF OpenFails, LocksAgree, PhaseOK, Upwards
<1>7. ASSUME NEW p \in Process, Grant(p)
      PROVE  LocksAgree' /\ PhaseOK' /\ Upwards'
  BY <1>7, <1>i DEF Grant, LocksAgree, PhaseOK, Upwards
<1>8. ASSUME NEW p \in Process, NEW s \in Store, OpenWrite(p, s) \/ CloseWrite(p, s)
      PROVE  LocksAgree' /\ PhaseOK' /\ Upwards'
  BY <1>8, <1>i DEF OpenWrite, CloseWrite, Covers, LocksAgree, PhaseOK, Upwards
<1>9. ASSUME NEW p \in Process, Leave(p)
      PROVE  LocksAgree' /\ PhaseOK' /\ Upwards'
  BY <1>9, <1>i DEF Leave, LocksAgree, PhaseOK, Upwards
<1>10. ASSUME NEW p \in Process, NEW s \in Store, Unlock(p, s)
       PROVE  LocksAgree' /\ PhaseOK' /\ Upwards'
  BY <1>10, <1>i DEF Unlock, IsLast, LocksAgree, PhaseOK, Upwards
<1>11. ASSUME NEW p \in Process, Return(p)
       PROVE  LocksAgree' /\ PhaseOK' /\ Upwards'
  BY <1>11, <1>i DEF Return, LocksAgree, PhaseOK, Upwards
<1>12. ASSUME NEW p \in Process, Crash(p)
       PROVE  LocksAgree' /\ PhaseOK' /\ Upwards'
  BY <1>12, <1>i DEF Crash, LocksAgree, PhaseOK, Upwards
<1> QED
  BY <1>1, <1>2, <1>3, <1>4, <1>5, <1>6, <1>7, <1>8, <1>9, <1>10, <1>11, <1>12
  DEF Next, Step

LEMMA Inductive == Spec => []IInv
  BY IInvInit, IInvStep, PTL DEF Spec

-----------------------------------------------------------------------------
(* One store has one writer: two processes that both have a transaction    *)
(* open on it would both hold its kernel lock.                             *)
THEOREM OneWriterHolds == Spec => []OneWriter
<1>1. IInv => OneWriter
  <2> SUFFICES ASSUME IInv, NEW p \in Process, NEW q \in Process, p # q,
                      NEW s \in writing[p] \cap writing[q]
               PROVE  FALSE
    BY DEF OneWriter
  <2>1. s \in Store /\ s \in acquired[p] /\ s \in acquired[q]
    BY DEF IInv, TypeOK, PhaseOK
  <2>2. holder[s] = p /\ holder[s] = q
    BY <2>1 DEF IInv, LocksAgree
  <2> QED
    BY <2>2
<1> QED
  BY <1>1, Inductive, PTL

(* A live capability is never a promise the process cannot keep.           *)
THEOREM CapabilityBackedHolds == Spec => []CapabilityBacked
<1>1. IInv => CapabilityBacked
  BY DEF IInv, PhaseOK, CapabilityBacked
<1> QED
  BY <1>1, Inductive, PTL

(* A call that has ended, in an error or otherwise, holds nothing.         *)
THEOREM NothingLeftHolds == Spec => []NothingLeft
<1>1. IInv => NothingLeft
  BY DEF IInv, PhaseOK, LocksAgree, NothingLeft
<1> QED
  BY <1>1, Inductive, PTL

-----------------------------------------------------------------------------
(* Whoever is waited for, and waits itself, stands strictly higher.        *)
LEMMA WaitsUpwards ==
  ASSUME IInv, NEW p \in Process, NEW q \in Process,
         NEW s \in Store, IsNext(p, s), holder[s] = q,
         pc[q] = "acquiring", NEW t \in Store, IsNext(q, t)
  PROVE  Uri[s] < Uri[t]
<1>1. s \in acquired[q]
  BY DEF IInv, LocksAgree
<1>2. t \in want[q] \ acquired[q]
  BY DEF IsNext
<1> QED
  BY <1>1, <1>2 DEF IInv, Upwards

(* No group of processes waits in a circle.  Suppose each of a group waited*)
(* for another of it, and take one that stands as high as possible: the one*)
(* it waits for stands higher still.                                       *)
THEOREM NoCircularWaitHolds == Spec => []NoCircularWait
<1>1. IInv => NoCircularWait
  <2> SUFFICES ASSUME IInv, NEW G \in (SUBSET Process) \ {{}},
                      \A p \in G : \E q \in G : WaitsFor(p, q)
               PROVE  FALSE
    BY DEF NoCircularWait
  <2>1. PICK n \in Nat : \A s \in Store : Uri[s] <= n
    <3>1. PICK top \in Store : \A s \in Store : Uri[s] <= Uri[top]
      BY UriAssumption
    <3>2. Uri[top] \in Nat
      BY UriAssumption
    <3> QED
      BY <3>1, <3>2
  <2> DEFINE Stands(p, s) == pc[p] = "acquiring" /\ IsNext(p, s)
             Room == {k \in Nat : \E p \in G, s \in Store :
                                   Stands(p, s) /\ k = n - Uri[s]}
  <2>2. \A p \in G : \E q \in G, s \in Store : Stands(p, s) /\ holder[s] = q
    BY DEF WaitsFor
  <2>3. \A s \in Store : n - Uri[s] \in Nat
    BY <2>1, UriAssumption
  <2>4. Room # {}
    <3>1. PICK p \in G : TRUE
      OBVIOUS
    <3>2. PICK s \in Store : Stands(p, s)
      BY <2>2, <3>1
    <3>3. n - Uri[s] \in Room
      BY <2>3, <3>2
    <3> QED
      BY <3>3
  <2>5. PICK x \in Room : \A y \in Room : ~ (<<y, x>> \in OpToRel(<, Nat))
    <3> HIDE DEF Room
    <3> Room \subseteq Nat
      BY DEF Room
    <3> QED
      BY <2>4, NatLessThanWellFounded, WFMin
  <2>6. PICK p \in G, s \in Store : Stands(p, s) /\ x = n - Uri[s]
    OBVIOUS
  <2>7. PICK q \in G : holder[s] = q
    <3>1. PICK q \in G, u \in Store : Stands(p, u) /\ holder[u] = q
      BY <2>2, <2>6
    <3>2. u = s
      BY <2>6, <3>1, UriAssumption DEF IsNext
    <3> QED
      BY <3>1, <3>2
  <2>8. PICK t \in Store : Stands(q, t)
    BY <2>2
  <2>9. Uri[s] < Uri[t]
    BY <2>6, <2>7, <2>8, WaitsUpwards
  <2>10. n - Uri[t] \in Room /\ n - Uri[t] < x
    BY <2>3, <2>6, <2>8, <2>9, UriAssumption
  <2>11. <<n - Uri[t], x>> \in OpToRel(<, Nat)
    BY <2>10 DEF OpToRel
  <2> QED
    BY <2>5, <2>10, <2>11
<1> QED
  BY <1>1, Inductive, PTL

-----------------------------------------------------------------------------
(* However many locks of a set are contended, one deadline bounds the sleep*)
(* of the whole call.                                                      *)
THEOREM OneDeadlineHolds == Spec => []OneDeadline
<1>1. Init => OneDeadline
  <2>1. Init => \A p \in Process : slept[p] = 0 /\ left[p] = 0
    BY DEF Init
  <2>2. 0 + 0 <= Timeout
    BY TimeoutAssumption
  <2> QED
    BY <2>1, <2>2 DEF OneDeadline
<1>2. TypeOK /\ OneDeadline /\ [Next]_vars => OneDeadline'
  BY TimeoutAssumption
  DEF OneDeadline, TypeOK, Next, Step, vars, Begin, Lock, Sleep, GiveUp,
      OpenFails, Grant, OpenWrite, CloseWrite, Leave, Unlock, Return, Crash
<1> QED
  BY <1>1, <1>2, TypeCorrect, PTL DEF Spec

(* A call reports a conflict only in the step that found another process   *)
(* on the lock it needs next.                                              *)
THEOREM ConflictIsRealHolds == Spec => ConflictIsReal
<1> DEFINE Real(p) ==
      outcome'[p] = "conflict" /\ outcome[p] # "conflict" =>
        \E s \in want[p] : holder[s] \in Process \ {p}
<1>1. IInv /\ [Next]_vars => [\A p \in Process : Real(p)]_vars
  <2> SUFFICES ASSUME IInv, Next, NEW p \in Process,
                      outcome'[p] = "conflict", outcome[p] # "conflict"
               PROVE  \E s \in want[p] : holder[s] \in Process \ {p}
    OBVIOUS
  <2>1. PICK s \in Store : GiveUp(p, s)
    BY DEF IInv, TypeOK, Next, Step, Begin, Lock, Sleep, GiveUp, OpenFails,
           Grant, OpenWrite, CloseWrite, Leave, Unlock, Return, Crash
  <2>2. s \in want[p] /\ s \notin acquired[p] /\ holder[s] # Nobody
    BY <2>1 DEF GiveUp, IsNext
  <2>3. holder[s] \in Process /\ holder[s] # p
    BY <2>2 DEF IInv, TypeOK, LocksAgree
  <2> QED
    BY <2>2, <2>3
<1> QED
  BY <1>1, Inductive, PTL DEF Spec, ConflictIsReal

(* While its process lives, a capability is revoked before the first of its*)
(* locks is released, and the locks go from the highest down.              *)
THEOREM RevokedBeforeReleasedHolds == Spec => RevokedBeforeReleased
<1> DEFINE Downwards(p) ==
      \A s \in acquired[p] \ acquired'[p] :
        /\ ~active'[p]
        /\ pc'[p] = "idle" \/ \A t \in acquired'[p] : Uri[t] < Uri[s]
<1>1. IInv /\ [Next]_vars => [\A p \in Process : Downwards(p)]_vars
  <2> SUFFICES ASSUME IInv, Next, NEW p \in Process,
                      NEW s \in acquired[p] \ acquired'[p]
               PROVE  /\ ~active'[p]
                      /\ pc'[p] = "idle" \/ \A t \in acquired'[p] : Uri[t] < Uri[s]
    OBVIOUS
  <2>1. Unlock(p, s) \/ Crash(p)
    BY DEF IInv, TypeOK, Next, Step, Begin, Lock, Sleep, GiveUp, OpenFails,
           Grant, OpenWrite, CloseWrite, Leave, Unlock, Return, Crash
  <2>2. CASE Crash(p)
    BY <2>2 DEF Crash, IInv, TypeOK
  <2>3. CASE Unlock(p, s)
    <3>1. ~active'[p]
      BY <2>3 DEF Unlock, IInv, PhaseOK, TypeOK
    <3>2. s \in Store /\ acquired'[p] = acquired[p] \ {s} /\ acquired[p] \subseteq Store
      BY <2>3 DEF Unlock, IInv, TypeOK
    <3>3. ASSUME NEW t \in acquired'[p] PROVE Uri[t] < Uri[s]
      BY <2>3, <3>2, <3>3, UriAssumption DEF Unlock, IsLast
    <3> QED
      BY <3>1, <3>3
  <2> QED
    BY <2>1, <2>2, <2>3
<1> QED
  BY <1>1, Inductive, PTL DEF Spec, RevokedBeforeReleased

-----------------------------------------------------------------------------
(* The lock protocol implements StoreSessions: a session of the abstract   *)
(* module is a live capability, granting it is Begin, revoking it is End,  *)
(* and every step that only gathers or drops locks is a stutter.           *)
Session == [p \in Process |-> IF active[p] THEN granted[p] ELSE {}]

LEMMA SessionInit == Init => Sessions!Init
  BY DEF Init, Sessions!Init

(* A step that grants to p takes stores that are in no other session.      *)
LEMMA GrantBegins ==
  ASSUME IInv, NEW p \in Process, Grant(p)
  PROVE  Sessions!Begin(p)
<1>1. Session[p] = {} /\ want[p] \in (SUBSET Store) \ {{}}
  BY DEF IInv, TypeOK, PhaseOK, Grant, Session
<1>2. \A q \in Process : Session[q] \cap want[p] = {}
  <2> SUFFICES ASSUME NEW q \in Process, NEW s \in Session[q] \cap want[p]
               PROVE  FALSE
    OBVIOUS
  <2>1. active[q] /\ s \in granted[q]
    BY DEF Session
  <2>2. s \in acquired[q] /\ s \in acquired[p] /\ s \in Store /\ q # p
    BY <2>1 DEF IInv, TypeOK, PhaseOK, Grant
  <2> QED
    BY <2>2 DEF IInv, LocksAgree
<1>3. Session' = [Session EXCEPT ![p] = want[p]]
  BY DEF IInv, TypeOK, Grant, Session
<1> QED
  BY <1>1, <1>2, <1>3 DEF Sessions!Begin, Session, Grant

LEMMA SessionStep == IInv /\ IInv' /\ [Next]_vars => [Sessions!Next]_(Sessions!vars)
<1> SUFFICES ASSUME IInv, IInv', [Next]_vars
             PROVE  Sessions!Next \/ UNCHANGED <<Session, writing>>
  BY DEF Sessions!vars, Session
<1> USE DEF IInv, TypeOK
<1>1. CASE UNCHANGED vars
  BY <1>1 DEF vars, Session
<1>2. ASSUME NEW p \in Process, NEW S \in SUBSET Store, NEW t \in 0 .. Timeout,
             Begin(p, S, t)
      PROVE  UNCHANGED <<Session, writing>>
  BY <1>2 DEF Begin, Session
<1>3. ASSUME NEW p \in Process, NEW s \in Store,
             \/ Lock(p, s)
             \/ \E rest \in 0 .. Timeout : Sleep(p, s, rest)
             \/ GiveUp(p, s)
             \/ Unlock(p, s)
      PROVE  UNCHANGED <<Session, writing>>
  BY <1>3 DEF Lock, Sleep, GiveUp, Unlock, Session
<1>4. ASSUME NEW p \in Process, OpenFails(p) \/ Return(p)
      PROVE  UNCHANGED <<Session, writing>>
  BY <1>4 DEF OpenFails, Return, Session
<1>5. ASSUME NEW p \in Process, Grant(p)
      PROVE  Sessions!Next
  BY <1>5, GrantBegins DEF Sessions!Next
<1>6. ASSUME NEW p \in Process, NEW s \in Store, OpenWrite(p, s)
      PROVE  Sessions!Next
  <2>1. s \in Session[p]
    BY <1>6 DEF OpenWrite, Covers, Session
  <2>2. Sessions!Open(p)
    BY <1>6, <2>1 DEF OpenWrite, Session, Sessions!Open
  <2> QED
    BY <2>2 DEF Sessions!Next
<1>7. ASSUME NEW p \in Process, NEW s \in Store, CloseWrite(p, s)
      PROVE  Sessions!Next
  <2>1. Sessions!Close(p)
    BY <1>7 DEF CloseWrite, Session, Sessions!Close
  <2> QED
    BY <2>1 DEF Sessions!Next
<1>8. ASSUME NEW p \in Process, Leave(p) \/ Crash(p)
      PROVE  Sessions!Next
  <2>1. Session' = [Session EXCEPT ![p] = {}]
    BY <1>8 DEF Leave, Crash, Session
  <2>2. writing' = [writing EXCEPT ![p] = {}]
    BY <1>8 DEF Leave, Crash
  <2>3. Sessions!End(p)
    BY <2>1, <2>2 DEF Sessions!End, Session
  <2> QED
    BY <2>3 DEF Sessions!Next
<1> QED
  BY <1>1, <1>2, <1>3, <1>4, <1>5, <1>6, <1>7, <1>8 DEF Next, Step

(* Every behaviour of the locks is a behaviour of the abstract sessions.   *)
THEOREM ImplementsSessions == Spec => SessionsSpec
<1>1. IInv /\ IInv' /\ [Next]_vars => [Sessions!Next]_(Sessions!vars)
  BY SessionStep
<1> QED
  BY <1>1, SessionInit, Inductive, PTL DEF Spec, SessionsSpec, Sessions!Spec
=============================================================================
