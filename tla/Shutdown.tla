------------------------------ MODULE Shutdown ------------------------------
(***************************************************************************)
(* Graceful shutdown: trackRequest counts the handlers that run, and every *)
(* SIGTERM or SIGINT starts a shutdown that refuses new connections, waits *)
(* for the handlers, then polls server.pendingRequests until the responses *)
(* are sent, all of it in a race with SHUTDOWN_DRAIN_TIMEOUT_MS.  A second *)
(* signal starts a second shutdown beside the first.                       *)
(*                                                                         *)
(* Bun is external: it refuses connections after server.stop(false), may   *)
(* still take a request from a connection that is open, counts a request   *)
(* in pendingRequests until its response is sent, and closes everything    *)
(* on server.stop(true).                                                   *)
(***************************************************************************)
EXTENDS Naturals, FiniteSets

CONSTANTS
    Request,     \* requests clients may send
    Signal       \* signals the process may receive, each with its shutdown

ASSUME RequestAssumption == IsFiniteSet(Request)

VARIABLES
    request,         \* request -> how far it got
    listening,       \* new connections are accepted
    activeRequests,  \* handlers counted
    drainWaiters,    \* shutdowns waiting for activeRequests to be 0
    shutdown         \* signal -> where its shutdown is

vars == <<request, listening, activeRequests, drainWaiters, shutdown>>

TypeOK ==
    /\ request \in [Request -> {"unsent", "refused", "handler", "sending", "sent", "cut"}]
    /\ listening \in BOOLEAN
    /\ activeRequests \in 0..Cardinality(Request)
    /\ drainWaiters \subseteq Signal
    /\ shutdown \in [Signal -> {"off", "handlers", "poll", "drained", "timedout"}]

Init ==
    /\ request = [r \in Request |-> "unsent"]
    /\ listening = TRUE
    /\ activeRequests = 0
    /\ drainWaiters = {}
    /\ shutdown = [s \in Signal |-> "off"]

exited == \E s \in Signal : shutdown[s] \in {"drained", "timedout"}

(* server.pendingRequests: streamed responses are counted until sent.      *)
pendingRequests == Cardinality({r \in Request : request[r] \in {"handler", "sending"}})

(* trackRequest: the counter goes up before the handler runs.              *)
RequestStarts(r) ==
    /\ ~exited
    /\ request[r] = "unsent"
    /\ request' = [request EXCEPT ![r] = "handler"]
    /\ activeRequests' = activeRequests + 1
    /\ UNCHANGED <<listening, drainWaiters, shutdown>>

ConnectionRefused(r) ==
    /\ ~listening /\ request[r] = "unsent"
    /\ request' = [request EXCEPT ![r] = "refused"]
    /\ UNCHANGED <<listening, activeRequests, drainWaiters, shutdown>>

(* Mutant: requestFinished in then() instead of finally(): a handler that  *)
(* rejects is never counted down.                                          *)
HandlerSettles_Then(r) ==
    /\ ~exited
    /\ request[r] = "handler"
    /\ request' = [request EXCEPT ![r] = "sending"]
    /\ \E rejected \in BOOLEAN :
        /\ activeRequests' = IF rejected THEN activeRequests ELSE activeRequests - 1
        /\ IF activeRequests' = 0
              THEN /\ drainWaiters' = {}
                   /\ shutdown' = [s \in Signal |->
                                     IF s \in drainWaiters THEN "poll" ELSE shutdown[s]]
              ELSE UNCHANGED <<drainWaiters, shutdown>>
    /\ UNCHANGED listening

(* Mutant: the waiters that are woken are the first one only.              *)
HandlerSettles_One(r) ==
    /\ ~exited
    /\ request[r] = "handler"
    /\ request' = [request EXCEPT ![r] = "sending"]
    /\ activeRequests' = activeRequests - 1
    /\ IF activeRequests' = 0 /\ drainWaiters # {}
          THEN \E s \in drainWaiters :
                  /\ drainWaiters' = {}
                  /\ shutdown' = [shutdown EXCEPT ![s] = "poll"]
          ELSE UNCHANGED <<drainWaiters, shutdown>>
    /\ UNCHANGED listening

(* A handler resolves or rejects: requestFinished wakes every waiter when  *)
(* none is left, and the response is sent afterwards.                      *)
HandlerSettles(r) ==
    /\ ~exited
    /\ request[r] = "handler"
    /\ request' = [request EXCEPT ![r] = "sending"]
    /\ activeRequests' = activeRequests - 1
    /\ IF activeRequests' = 0
          THEN /\ drainWaiters' = {}
               /\ shutdown' = [s \in Signal |->
                                 IF s \in drainWaiters THEN "poll" ELSE shutdown[s]]
          ELSE UNCHANGED <<drainWaiters, shutdown>>
    /\ UNCHANGED listening

(* The last byte of the response is sent.                                  *)
ResponseSent(r) ==
    /\ ~exited
    /\ request[r] = "sending"
    /\ request' = [request EXCEPT ![r] = "sent"]
    /\ UNCHANGED <<listening, activeRequests, drainWaiters, shutdown>>

(* A signal: waitForRequestsToDrain resolves at once or leaves a waiter.   *)
ShutdownStarts(s) ==
    /\ ~exited
    /\ shutdown[s] = "off"
    /\ listening' = FALSE
    /\ \/ /\ activeRequests = 0
          /\ shutdown' = [shutdown EXCEPT ![s] = "poll"]
          /\ UNCHANGED drainWaiters
       \/ /\ activeRequests > 0
          /\ shutdown' = [shutdown EXCEPT ![s] = "handlers"]
          /\ drainWaiters' = drainWaiters \cup {s}
    /\ UNCHANGED <<request, activeRequests>>

(* server.stop(true) and process.exit(0).                                  *)
Exit(s, how) ==
    /\ shutdown' = [shutdown EXCEPT ![s] = how]
    /\ request' = [r \in Request |->
          IF request[r] \in {"handler", "sending"} THEN "cut" ELSE request[r]]
    /\ UNCHANGED <<listening, activeRequests, drainWaiters>>

(* Mutant: only the handlers are waited for, not the streamed responses.   *)
Polled_HandlersOnly(s) ==
    /\ ~exited
    /\ shutdown[s] = "poll"
    /\ Exit(s, "drained")

(* A poll that finds nothing pending wins the race; from the reading of    *)
(* the counter to server.stop(true) the event loop does not turn.          *)
Polled(s) ==
    /\ ~exited
    /\ shutdown[s] = "poll"
    /\ pendingRequests = 0
    /\ Exit(s, "drained")

(* Mutant: the timeout bounds the wait for the handlers only.              *)
TimesOut_HandlersOnly(s) ==
    /\ ~exited
    /\ shutdown[s] = "handlers"
    /\ Exit(s, "timedout")

(* SHUTDOWN_DRAIN_TIMEOUT_MS elapses first.                                *)
TimesOut(s) ==
    /\ ~exited
    /\ shutdown[s] \in {"handlers", "poll"}
    /\ Exit(s, "timedout")

Next ==
    \/ \E r \in Request : RequestStarts(r) \/ ConnectionRefused(r)
                             \/ HandlerSettles(r) \/ ResponseSent(r)
    \/ \E s \in Signal : ShutdownStarts(s) \/ Polled(s) \/ TimesOut(s)

Spec == Init /\ [][Next]_vars

(* The poll of a shutdown that has no handler to wait for goes on.         *)
FairSpec == Spec /\ \A s \in Signal : WF_vars(Polled(s))

(* The drain timeout fires; clients and storage may stall for ever.        *)
TimeoutFires == \A s \in Signal : WF_vars(TimesOut(s))

(* Requests that were taken are served; the timeout may be far away.       *)
RequestsEnd ==
    \A r \in Request : WF_vars(HandlerSettles(r)) /\ WF_vars(ResponseSent(r))

-----------------------------------------------------------------------------
(***************************************************************************)
(* A shutdown that did not time out cuts no request: neither a handler nor *)
(* a response that is being streamed, also when the request came over an   *)
(* open connection during the drain, or a second signal came (main.ts:     *)
(* 270-286).                                                               *)
(***************************************************************************)
DrainCutsNothing ==
    (\E s \in Signal : shutdown[s] = "drained") => \A r \in Request : request[r] # "cut"

(***************************************************************************)
(* No lost wakeup: a shutdown that waits for the handlers is in            *)
(* drainWaiters and some handler is left to wake it (main.ts:169-179).     *)
(***************************************************************************)
WaitersAreWoken ==
    /\ drainWaiters = {s \in Signal : shutdown[s] = "handlers"} \/ exited
    /\ \A s \in drainWaiters : \E r \in Request : request[r] \in {"handler", "cut"}

(* A signal arrived.                                                       *)
signalled == \E s \in Signal : shutdown[s] # "off"

(***************************************************************************)
(* "A stalled client cannot hold the process open indefinitely"            *)
(* (configuration.md:65): the timeout ends the process after a signal,     *)
(* whether a handler or a streamed response stalls (main.ts:283-293).      *)
(***************************************************************************)
TimeoutEndsProcess == TimeoutFires => (signalled ~> exited)

(***************************************************************************)
(* The drain itself succeeds: when the requests end, the exit does not     *)
(* have to wait for the timeout, also if handlers reject (main.ts:171-183, *)
(* 279-286).                                                               *)
(***************************************************************************)
DrainEndsProcess == RequestsEnd => (signalled ~> exited)
=============================================================================
