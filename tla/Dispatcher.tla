----------------------------- MODULE Dispatcher -----------------------------
(***************************************************************************)
(* The HTTP service over the read-only tools.  ThreadingHTTPServer gives    *)
(* every connection a thread of its own and HTTP/1.0 gives it one request;  *)
(* the threads share the pool of execution slots of the dispatcher's class, *)
(* which is taken without waiting, and each has the times of its last call  *)
(* in a thread-local, from which receipt_for takes them for the receipt.    *)
(*                                                                          *)
(* A request is one of Request: the place where the code turns it down, or  *)
(* the kind of tool it asks for.  What a tool computes is not told apart,   *)
(* only how the call may end; the deadline of an operation graph is read at *)
(* checkpoints around the computation and never interrupts it.              *)
(***************************************************************************)
EXTENDS FiniteSets, Naturals

CONSTANTS Thread, Slots, None

ASSUME SlotsAssumption == Slots \in Nat \ {0}

VARIABLES
  free,      \* what is left of the pool
  at,        \* where the thread of a connection is
  request,   \* what its connection asks for
  acquired,  \* whether its call has a slot
  outcome,   \* how its call ended
  timing,    \* the thread-local: the thread whose call was timed, or None
  answer     \* what it writes back: an outcome and the times in the receipt

serviceVars == <<free, at, request, acquired, outcome, timing, answer>>

\* The envelope does not parse; it is of another api_version; the tool's name
\* is empty; it is unknown, or its arguments are outside the input schema or
\* the workload bounds; a Stage 1 tool; an operation graph.
Request == {"unparsed", "outdated", "nameless", "rejected", "table", "graph"}

\* Requests the dispatcher is called for, and those it lets through to a tool.
Called == Request \ {"unparsed", "outdated"}
Admitted == {"table", "graph"}

\* A receipt that has the registry revision and nothing else; other receipts
\* carry a thread whose call they time, or None: the epoch.
Bare == "bare"

ServiceInit ==
  /\ free = Slots
  /\ at = [t \in Thread |-> "idle"]
  /\ request = [t \in Thread |-> None]
  /\ acquired = [t \in Thread |-> FALSE]
  /\ outcome = [t \in Thread |-> None]
  /\ timing = [t \in Thread |-> None]
  /\ answer = [t \in Thread |-> None]

GoTo(t, place) == at' = [at EXCEPT ![t] = place]

\* A connection is accepted on a new thread, whose thread-local is empty.
Accept(t) ==
  /\ at[t] = "idle"
  /\ GoTo(t, "reading")
  /\ \E r \in Request: request' = [request EXCEPT ![t] = r]
  /\ UNCHANGED <<free, acquired, outcome, timing, answer>>

\* The body is read for as long as the client takes to send it.
Read(t) ==
  /\ at[t] = "reading"
  /\ GoTo(t, "handling")
  /\ UNCHANGED <<free, request, acquired, outcome, timing, answer>>

\* handle answers an envelope it cannot read; the version is refused with a
\* receipt, and without a call.
TurnDown(t) ==
  /\ at[t] = "handling"
  /\ request[t] \notin Called
  /\ outcome' = [outcome EXCEPT ![t] = "refused"]
  /\ GoTo(t, "called")
  /\ UNCHANGED <<free, request, acquired, timing, answer>>

\* A call that waits for its slot.
AcquireSlot_Waiting(t) ==
  /\ at[t] = "handling"
  /\ request[t] \in Called
  /\ free > 0
  /\ free' = free - 1
  /\ acquired' = [acquired EXCEPT ![t] = TRUE]
  /\ GoTo(t, "checking")
  /\ UNCHANGED <<request, outcome, timing, answer>>

\* acquire(blocking=False): the call has a slot, or ends for want of one.
AcquireSlot(t) ==
  /\ at[t] = "handling"
  /\ request[t] \in Called
  /\ IF free > 0
       THEN /\ free' = free - 1
            /\ acquired' = [acquired EXCEPT ![t] = TRUE]
            /\ GoTo(t, "checking")
            /\ UNCHANGED outcome
       ELSE /\ outcome' = [outcome EXCEPT ![t] = "concurrency_limit"]
            /\ GoTo(t, "leaving")
            /\ UNCHANGED <<free, acquired>>
  /\ UNCHANGED <<request, timing, answer>>

\* The declaration, the input schema and the preflight bounds.
Check(t) ==
  /\ at[t] = "checking"
  /\ IF request[t] \in Admitted
       THEN GoTo(t, "computing") /\ UNCHANGED outcome
       ELSE GoTo(t, "leaving") /\ outcome' = [outcome EXCEPT ![t] = "refused"]
  /\ UNCHANGED <<free, request, acquired, timing, answer>>

\* The tool returns a result that passes its output schema, or it raises; a
\* graph is refused at a checkpoint past its deadline.
Compute(t) ==
  /\ at[t] = "computing"
  /\ \E o \in {"succeeded", "failed"} \cup
              (IF request[t] = "graph" THEN {"deadline_exceeded"} ELSE {}):
       outcome' = [outcome EXCEPT ![t] = o]
  /\ GoTo(t, "leaving")
  /\ UNCHANGED <<free, request, acquired, timing, answer>>

\* The finally block of call: the slot goes back if there is one, and the
\* times are kept with the thread.
GivenBack_Returned(t) == IF outcome[t] = "succeeded" THEN free + 1 ELSE free
GivenBack(t) == IF acquired[t] THEN free + 1 ELSE free

\* The times of the dispatcher, and not of the thread.
Timed_Shared(t) == [x \in Thread |-> t]
Timed(t) == [timing EXCEPT ![t] = t]

Leave(t) ==
  /\ at[t] = "leaving"
  /\ free' = GivenBack(t)
  /\ acquired' = [acquired EXCEPT ![t] = FALSE]
  /\ timing' = Timed(t)
  /\ GoTo(t, "called")
  /\ UNCHANGED <<request, outcome, answer>>

\* receipt_for takes the times away as it reads them; for an empty name it
\* raises before that, and the answer goes out with the revision alone.
ReceiptFor(t) ==
  /\ at[t] = "called"
  /\ IF request[t] \in {"unparsed", "nameless"}
       THEN /\ answer' = [answer EXCEPT ![t] = [outcome |-> outcome[t], timing |-> Bare]]
            /\ UNCHANGED timing
       ELSE /\ answer' = [answer EXCEPT ![t] = [outcome |-> outcome[t], timing |-> timing[t]]]
            /\ timing' = [timing EXCEPT ![t] = None]
  /\ GoTo(t, "answering")
  /\ UNCHANGED <<free, request, acquired, outcome>>

\* The response has been written, however long the client took to read it, or
\* the client has gone; the thread ends, and its thread-local with it.
Respond(t) ==
  /\ at[t] = "answering"
  /\ GoTo(t, "idle")
  /\ request' = [request EXCEPT ![t] = None]
  /\ outcome' = [outcome EXCEPT ![t] = None]
  /\ timing' = [timing EXCEPT ![t] = None]
  /\ answer' = [answer EXCEPT ![t] = None]
  /\ UNCHANGED <<free, acquired>>

Handle(t) ==
  \/ TurnDown(t) \/ AcquireSlot(t) \/ Check(t) \/ Compute(t)
  \/ Leave(t) \/ ReceiptFor(t)

ServiceNext == \E t \in Thread: Accept(t) \/ Read(t) \/ Handle(t) \/ Respond(t)

\* A thread that has its request goes on until it has an answer: nothing it
\* does waits for another.  Clients owe nothing, neither a request nor the rest
\* of a body, nor that they read: the socket has no timeout, and a write may
\* wait for ever.
Fairness == \A t \in Thread: WF_serviceVars(Handle(t))

ServiceSpec == ServiceInit /\ [][ServiceNext]_serviceVars /\ Fairness

-----------------------------------------------------------------------------
ServiceTypeOK ==
  /\ free \in 0..Slots
  /\ at \in [Thread -> {"idle", "reading", "handling", "checking", "computing",
                        "leaving", "called", "answering"}]
  /\ request \in [Thread -> Request \cup {None}]
  /\ acquired \in [Thread -> BOOLEAN]
  /\ timing \in [Thread -> Thread \cup {None}]

\* Every slot is in the pool or with a call that has not left: no way out of a
\* call keeps one, none gives one back that it has not got, and a client that
\* is slow to send or to read holds none.
SlotsConserved ==
  /\ free + Cardinality({t \in Thread: acquired[t]}) = Slots
  /\ \A t \in Thread: acquired[t] => at[t] \in {"checking", "computing", "leaving"}

\* The times in a receipt are those of the call it is the receipt of, whatever
\* calls other threads make between that call and its receipt; a request that
\* was turned down before any call has the epoch.
ReceiptIsOwn ==
  \A t \in Thread: at[t] = "answering" =>
    answer[t].timing = CASE request[t] \in {"unparsed", "nameless"} -> Bare
                         [] request[t] = "outdated" -> None
                         [] OTHER -> t

\* Every request that has been read gets an answer, at capacity too and with
\* clients that never read theirs: nobody waits for a slot, and nobody in a
\* call waits for anything else.  It ends where the write begins.
RequestAnswered == \A t \in Thread: at[t] = "handling" ~> at[t] = "answering"
=============================================================================
