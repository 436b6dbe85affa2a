----------------------------- MODULE PollThread -----------------------------
(***************************************************************************)
(* The life of the combined service's polling thread: ServiceRuntime       *)
(* (service/runtime.py), VaultService (service/facade.py) and              *)
(* RepositorySyncCoordinator (service/coordinator.py) each have a closed   *)
(* flag under a lock of their own; request threads ask for a pass while    *)
(* one thread starts the service and another closes it.  An action is one  *)
(* section under a lock, or one step of the polling thread without a lock. *)
(* What a pass does is the subject of RepositorySync.                      *)
(***************************************************************************)
EXTENDS Naturals

VARIABLES
    runtimeClosed,   \* ServiceRuntime._closed
    facadeClosed,    \* VaultService._closed
    started,         \* VaultService._started
    syncClosed,      \* RepositorySyncCoordinator._closed
    stopEvent, syncEvent,
    retry,           \* _retry_pending_embeddings
    poll,            \* where the polling thread stands
    starter, closer, \* where the calls of start() and of the first close() stand
    owed             \* history: a request was accepted that no pass took up

events == <<stopEvent, syncEvent, retry>>
pollVars == <<runtimeClosed, facadeClosed, started, syncClosed, events,
              poll, starter, closer, owed>>

PollInit ==
    /\ runtimeClosed = FALSE /\ facadeClosed = FALSE
    /\ started = FALSE /\ syncClosed = FALSE
    /\ stopEvent = FALSE /\ syncEvent = FALSE /\ retry = FALSE
    /\ poll = "none" /\ starter = "idle" /\ closer = "idle"
    /\ owed = FALSE

Alive == poll \notin {"none", "ended"}

----------------------------------------------------------------------------
(* start(): the runtime looks at its flag and lets go of its lock; the     *)
(* facade keeps its own over the coordinator's start.                      *)

StartRuntime ==
    /\ starter = "idle" /\ ~runtimeClosed
    /\ starter' = "service"
    /\ UNCHANGED <<runtimeClosed, facadeClosed, started, syncClosed, events, poll, closer, owed>>

StartService ==
    /\ starter = "service"
    /\ starter' = "idle"
    /\ IF facadeClosed \/ started
       THEN UNCHANGED <<started, poll>>
       ELSE /\ started' = TRUE
            /\ poll' = IF syncClosed \/ Alive THEN poll ELSE "top"
    /\ UNCHANGED <<runtimeClosed, facadeClosed, syncClosed, events, closer, owed>>

(* request_sync(), of any number of request threads.                       *)
Request ==
    /\ ~facadeClosed /\ ~syncClosed
    /\ retry' = TRUE /\ syncEvent' = TRUE
    /\ owed' = TRUE
    /\ UNCHANGED <<runtimeClosed, facadeClosed, started, syncClosed, stopEvent,
                   poll, starter, closer>>

(* close(): runtime, facade and coordinator are closed one after another,  *)
(* the thread is joined, then the resources its passes use are closed.     *)
(* A second close() returns at once.                                       *)
CloseRuntime ==
    /\ closer = "idle"
    /\ closer' = "service" /\ runtimeClosed' = TRUE
    /\ UNCHANGED <<facadeClosed, started, syncClosed, events, poll, starter, owed>>

CloseService ==
    /\ closer = "service"
    /\ closer' = "coordinator" /\ facadeClosed' = TRUE
    /\ UNCHANGED <<runtimeClosed, started, syncClosed, events, poll, starter, owed>>

CloseCoordinator ==
    /\ closer = "coordinator"
    /\ closer' = "join" /\ syncClosed' = TRUE
    /\ stopEvent' = TRUE /\ syncEvent' = TRUE
    /\ UNCHANGED <<runtimeClosed, facadeClosed, started, retry, poll, starter, owed>>

StopIsEnough == stopEvent          \* variant: join() with a timeout
Joined == ~Alive

CloseResources ==
    /\ closer = "join" /\ Joined
    /\ closer' = "closed"
    /\ UNCHANGED <<runtimeClosed, facadeClosed, started, syncClosed, events, poll, starter, owed>>

----------------------------------------------------------------------------
(* _poll().  A pass swallows every exception (run_once), so that the       *)
(* thread ends only where it looks at the stop event.                      *)

PollOnly(from, to) ==
    /\ poll = from /\ poll' = to
    /\ UNCHANGED <<runtimeClosed, facadeClosed, started, syncClosed, starter, closer>>

Loop ==
    /\ PollOnly("top", IF stopEvent THEN "ended" ELSE "consume")
    /\ UNCHANGED <<events, owed>>

(* _consume_pending_retry; the pass begins.                                *)
ConsumeRetry ==
    /\ PollOnly("consume", "pass")
    /\ retry' = FALSE
    /\ owed' = (owed /\ ~retry)
    /\ UNCHANGED <<stopEvent, syncEvent>>

EndPassClearing ==                 \* variant: cleared before the wait, not after
    /\ PollOnly("pass", IF stopEvent THEN "ended" ELSE "wait")
    /\ syncEvent' = FALSE
    /\ UNCHANGED <<stopEvent, retry, owed>>

EndPass ==
    /\ PollOnly("pass", IF stopEvent THEN "ended" ELSE "wait")
    /\ UNCHANGED <<events, owed>>

Woken ==
    /\ syncEvent
    /\ PollOnly("wait", "clear")
    /\ UNCHANGED <<events, owed>>

IntervalPasses ==
    /\ ~syncEvent
    /\ PollOnly("wait", "clear")
    /\ UNCHANGED <<events, owed>>

ClearEvent ==
    /\ PollOnly("clear", "top")
    /\ syncEvent' = FALSE
    /\ UNCHANGED <<stopEvent, retry, owed>>

----------------------------------------------------------------------------
PollSteps == Loop \/ ConsumeRetry \/ EndPass \/ Woken \/ ClearEvent
CloseSteps == CloseService \/ CloseCoordinator \/ CloseResources

PollNext ==
    \/ StartRuntime \/ StartService \/ Request \/ CloseRuntime
    \/ CloseSteps \/ PollSteps \/ IntervalPasses

(* Threads that are not blocked go on, and passes end.  The interval may   *)
(* be of any length: nothing may depend on the end of it.                  *)
PollFairness == WF_pollVars(PollSteps) /\ WF_pollVars(CloseSteps)

PollSpec == PollInit /\ [][PollNext]_pollVars /\ PollFairness

(* Every call takes effect without waiting for the interval: a request is  *)
(* taken up by a pass that begins after it, also one that comes between    *)
(* two steps of the thread, unless the service closes; and close()         *)
(* returns, wherever the thread stands when it is called.                  *)
CallsTakeEffect ==
    /\ (owed /\ started) ~> (~owed \/ facadeClosed)
    /\ runtimeClosed ~> (closer = "closed")

(* Once the stores and the HTTP client are closed no polling thread lives, *)
(* and no start() that overlapped the close brings one up later.           *)
ClosedForGood == closer = "closed" => ~Alive
=============================================================================
