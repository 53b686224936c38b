--------------------------- MODULE StoreSessions ---------------------------
(***************************************************************************)
(* What quant_data.stores promises to the rest of the system about write    *)
(* sessions: a caller is given a whole set of stores at one instant, no two *)
(* sessions ever share a store, and a store is written only by the caller   *)
(* whose session covers it.  How the stores are gathered, one advisory lock *)
(* at a time and under a deadline, is StoreLocks, which implements this     *)
(* module.                                                                  *)
(***************************************************************************)
CONSTANTS Process, Store

VARIABLES session,   \* the stores each process may write now
          writing    \* the stores each process has an open transaction on

vars == <<session, writing>>

TypeOK ==
  /\ session \in [Process -> SUBSET Store]
  /\ writing \in [Process -> SUBSET Store]

Init ==
  /\ session = [p \in Process |-> {}]
  /\ writing = [p \in Process |-> {}]

(* A session begins with all of its stores, each of them free.             *)
Begin(p) ==
  /\ session[p] = {}
  /\ \E S \in (SUBSET Store) \ {{}} :
       /\ \A q \in Process : session[q] \cap S = {}
       /\ session' = [session EXCEPT ![p] = S]
  /\ UNCHANGED writing

Open(p) ==
  \E s \in session[p] : /\ writing' = [writing EXCEPT ![p] = @ \cup {s}]
                        /\ UNCHANGED session

Close(p) ==
  \E s \in writing[p] : /\ writing' = [writing EXCEPT ![p] = @ \ {s}]
                        /\ UNCHANGED session

(* The caller leaves, or dies: nothing of its session is left.             *)
End(p) ==
  /\ session' = [session EXCEPT ![p] = {}]
  /\ writing' = [writing EXCEPT ![p] = {}]

Next == \E p \in Process : Begin(p) \/ Open(p) \/ Close(p) \/ End(p)

Spec == Init /\ [][Next]_vars
=============================================================================
