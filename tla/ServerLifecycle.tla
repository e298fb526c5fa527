--------------------------- MODULE ServerLifecycle -------------------------
(***************************************************************************)
(* Run: one server process from its start to its exit, the requests it     *)
(* serves and the database connections they hold, and the timers that end  *)
(* each of them. Time advances in steps of five seconds, of which every    *)
(* limit is a multiple; a timer that is due fires before the next step.    *)
(***************************************************************************)
EXTENDS Naturals, FiniteSets

CONSTANTS
    Requests,
    None,
    PoolSize,       \* connections of the pool
    HeaderLimit,    \* ReadHeaderTimeout (5)
    HandlerLimit,   \* the context of a request (15)
    RollbackLimit,  \* the context of a rollback (5)
    CleanupLimit,   \* what pgx takes at most to close a connection (15)
    WriteLimit,     \* WriteTimeout (20)
    ShutdownLimit,  \* the context of Shutdown (15)
    LastSignal, MaxClock    \* bounds of the runs

ASSUME LifecycleAssumption ==
    /\ PoolSize \in Nat \ {0}
    /\ {HeaderLimit, HandlerLimit, RollbackLimit, CleanupLimit, WriteLimit,
        ShutdownLimit, LastSignal, MaxClock} \subseteq Nat
    /\ None \notin Nat \cup {"ok", "startup", "listener", "timeout"}

VARIABLES
    clock,
    stage,      \* where Run is
    result,     \* what Run returns: "ok" or why not, None before
    signal,     \* when SIGINT or SIGTERM came, or None
    request,    \* request -> where its connection or handler is
    since,      \* request -> when that began
    start,      \* request -> when its handler began, None before
    holds,      \* requests that hold a connection of the pool
    closing     \* request -> when the pool began to close its connection, or None

pool == <<holds, closing>>
vars == <<clock, stage, result, signal, request, since, start, pool>>

Stages == {"starting", "serving", "draining", "closed", "failed", "exited"}
Busy == {"headers", "handling", "rollback"}
Ended == {"answered", "unheard", "dropped", "cut"}

(* Connections that are not to be had: pgx frees the slot of one it closes  *)
(* only when that is done.                                                  *)
Taken == holds \cup {r \in Requests : closing[r] # None}

TypeOK ==
    /\ clock \in 0..MaxClock
    /\ stage \in Stages
    /\ result \in {None, "ok", "startup", "listener", "timeout"}
    /\ signal \in 0..MaxClock \cup {None}
    /\ request \in [Requests -> {"none"} \cup Busy \cup Ended]
    /\ since \in [Requests -> 0..MaxClock]
    /\ start \in [Requests -> 0..MaxClock \cup {None}]
    /\ holds \subseteq {r \in Requests : request[r] \in {"handling", "rollback"}}
    /\ closing \in [Requests -> 0..MaxClock \cup {None}]
    /\ IsFiniteSet(Taken) /\ Cardinality(Taken) <= PoolSize

Init ==
    /\ clock = 0 /\ stage = "starting" /\ result = None /\ signal = None
    /\ request = [r \in Requests |-> "none"]
    /\ since = [r \in Requests |-> 0]
    /\ start = [r \in Requests |-> None]
    /\ holds = {} /\ closing = [r \in Requests |-> None]

-----------------------------------------------------------------------------
Active == {r \in Requests : request[r] \in Busy}

(* The connections the server still reads from and answers on. A listener   *)
(* that fails leaves them be.                                               *)
Connected == stage \in {"serving", "draining", "failed"}
PoolOpen == stage \in {"serving", "draining"}

Enter(r, state) ==
    /\ request' = [request EXCEPT ![r] = state]
    /\ since' = [since EXCEPT ![r] = clock]

(* The server listens; or an error before it does: flags, config, migration *)
(* (which a signal cancels), listen.                                        *)
Ready ==
    /\ stage = "starting" /\ stage' = "serving"
    /\ UNCHANGED <<clock, result, signal, request, since, start, pool>>
StartFails ==
    /\ stage = "starting" /\ stage' = "closed" /\ result' = "startup"
    /\ UNCHANGED <<clock, signal, request, since, start, pool>>

Signal ==
    /\ signal = None /\ stage # "exited" /\ clock <= LastSignal
    /\ signal' = clock
    /\ UNCHANGED <<clock, stage, result, request, since, start, pool>>

(* select: the listener failed, or the signal came. Shutdown first closes   *)
(* the listener and the idle connections.                                   *)
ListenerFails ==
    /\ stage = "serving" /\ stage' = "failed" /\ result' = "listener"
    /\ UNCHANGED <<clock, signal, request, since, start, pool>>
BeginShutdown ==
    /\ stage = "serving" /\ signal # None /\ stage' = "draining"
    /\ UNCHANGED <<clock, result, signal, request, since, start, pool>>

(* Faulty variant: the requests in flight are not waited for.               *)
NoWait == TRUE
Drained == Active = {}
ShutdownEnds ==
    /\ stage = "draining" /\ Drained
    /\ stage' = "closed" /\ result' = "ok"
    /\ UNCHANGED <<clock, signal, request, since, start, pool>>

(* Shutdown gives up and Close closes the connections: nobody hears what    *)
(* their handlers still do, and their contexts are cancelled.               *)
Late == clock >= signal + ShutdownLimit
ShutdownTimesOut ==
    /\ stage = "draining" /\ Late
    /\ stage' = "closed" /\ result' = "timeout"
    /\ request' = [r \in Requests |->
                     IF request[r] = "headers" THEN "dropped" ELSE request[r]]
    /\ UNCHANGED <<clock, signal, since, start, pool>>

(* The deferred pool.Close waits for every connection to come back, and for *)
(* those that pgx is closing; then the process exits and takes with it the  *)
(* handlers that still run. An idle connection closes without a wait.       *)
PoolEmpty == Taken = {}
Exit ==
    /\ stage \in {"closed", "failed"} /\ PoolEmpty
    /\ stage' = "exited"
    /\ request' = [r \in Requests |->
                     CASE request[r] = "headers" -> "dropped"
                       [] request[r] \in {"handling", "rollback"} -> "cut"
                       [] OTHER -> request[r]]
    /\ UNCHANGED <<clock, result, signal, since, start, pool>>

-----------------------------------------------------------------------------
Connect(r) ==
    /\ stage = "serving" /\ request[r] = "none"
    /\ Enter(r, "headers")
    /\ UNCHANGED <<clock, stage, result, signal, start, pool>>

(* The headers arrive, in time or not; a server that drains still answers.  *)
Dispatch(r) ==
    /\ Connected /\ request[r] = "headers"
    /\ Enter(r, "handling")
    /\ start' = [start EXCEPT ![r] = clock]
    /\ UNCHANGED <<clock, stage, result, signal, pool>>
HeadersLate(r) == request[r] = "headers" /\ clock >= since[r] + HeaderLimit
DropConnection(r) ==
    /\ HeadersLate(r)
    /\ Enter(r, "dropped")
    /\ UNCHANGED <<clock, stage, result, signal, start, pool>>

(* The request's context is over: its time is, or its connection.           *)
(* Faulty variant: only the end of the connection cancels the request.      *)
Untimed(r) == request[r] = "handling" /\ stage = "closed"
Cancelled(r) ==
    request[r] = "handling" /\ (clock >= start[r] + HandlerLimit \/ stage = "closed")

Acquire(r) ==
    /\ PoolOpen /\ ~Cancelled(r) /\ request[r] = "handling" /\ r \notin holds
    /\ Cardinality(Taken) < PoolSize
    /\ holds' = holds \cup {r}
    /\ UNCHANGED <<clock, stage, result, signal, request, since, start, closing>>

(* A healthy connection goes back to the pool. Faulty variant: it does not. *)
Keep(r) == UNCHANGED pool
GiveBack(r) == holds' = holds \ {r} /\ UNCHANGED closing

(* A connection whose statement was cancelled or failed is closed; the pool *)
(* waits for pgx to cancel the statement and hang up.                       *)
Discard(r) == holds' = holds \ {r} /\ closing' = [closing EXCEPT ![r] = clock]
CleanupLate(r) == closing[r] # None /\ clock >= closing[r] + CleanupLimit
CleanedUp(r) ==
    /\ closing[r] # None
    /\ closing' = [closing EXCEPT ![r] = None]
    /\ UNCHANGED <<clock, stage, result, signal, request, since, start, holds>>

Release(r) ==
    /\ request[r] = "handling" /\ r \in holds
    /\ GiveBack(r)
    /\ UNCHANGED <<clock, stage, result, signal, request, since, start>>

(* The handler returns. The client hears of it unless the server has closed *)
(* its connection or the time to write on it is over.                       *)
WriteLate(r) == clock >= start[r] + WriteLimit
Return(r) ==
    /\ Enter(r, IF ~Connected THEN "cut" ELSE IF WriteLate(r) THEN "unheard" ELSE "answered")
    /\ UNCHANGED <<clock, stage, result, signal, start>>
Answer(r) == request[r] = "handling" /\ r \notin holds /\ Return(r) /\ UNCHANGED pool

(* A statement fails, cancelled by the request's context or by itself: the  *)
(* deferred rollback finds the connection closed and returns at once.       *)
Break(r) == request[r] = "handling" /\ r \in holds /\ Return(r) /\ Discard(r)

(* The handler gives up between two statements, for a reason of its own or  *)
(* because its context is over: the rollback has a context of its own.      *)
GiveUp(r) ==
    /\ request[r] = "handling" /\ r \in holds
    /\ Enter(r, "rollback")
    /\ UNCHANGED <<clock, stage, result, signal, start, pool>>

(* It succeeds, or fails at the latest when that context is over.           *)
(* Faulty variant: the rollback has no context of its own to end it.        *)
NeverLate(r) == FALSE
RollbackLate(r) == request[r] = "rollback" /\ clock >= since[r] + RollbackLimit
RolledBack(r) == request[r] = "rollback" /\ Return(r) /\ (GiveBack(r) \/ Discard(r))

(* A timer that is due: nothing may take longer.                            *)
Due ==
    \/ \E r \in Requests :
         HeadersLate(r) \/ Cancelled(r) \/ RollbackLate(r) \/ CleanupLate(r)
    \/ stage \in {"starting", "serving"} /\ signal # None
    \/ stage = "draining" /\ Late
    \/ stage \in {"closed", "failed"} /\ PoolEmpty
Tick ==
    /\ clock < MaxClock /\ ~Due
    /\ clock' = clock + 1
    /\ UNCHANGED <<stage, result, signal, request, since, start, pool>>

Lifecycle ==
    Ready \/ StartFails \/ BeginShutdown \/ ShutdownEnds \/ ShutdownTimesOut \/ Exit
Handler(r) ==
    \/ DropConnection(r) \/ Release(r) \/ Answer(r)
    \/ Break(r) \/ GiveUp(r) \/ RolledBack(r)
Next ==
    \/ Lifecycle \/ Signal \/ ListenerFails \/ Tick
    \/ \E r \in Requests :
         Connect(r) \/ Dispatch(r) \/ Acquire(r) \/ Handler(r) \/ CleanedUp(r)

Spec == Init /\ [][Next]_vars

(* Goroutines that can go on do, and time passes; no client has to connect, *)
(* send its headers or take a connection, and no signal has to come.        *)
FairSpec ==
    /\ Spec
    /\ WF_vars(Lifecycle) /\ WF_vars(Tick)
    /\ \A r \in Requests : WF_vars(Handler(r)) /\ WF_vars(CleanedUp(r))
-----------------------------------------------------------------------------
(* Only requests that began just before the signal, or after it, are ever   *)
(* cut short by a shutdown: any other has run into its own timeout and had  *)
(* the time to roll back by then (server.go, Shutdown and Close).           *)
CutOnlyLate ==
    \A r \in Requests : request[r] = "cut" /\ result # "listener" =>
        start[r] + HandlerLimit + RollbackLimit >= signal + ShutdownLimit

(* Run returns no error only when every request that reached a handler was  *)
(* answered, and heard of it unless its handler and rollback took all the   *)
(* time there is to write (server.go, Shutdown and WriteTimeout).           *)
CleanExitAnswersAll ==
    result = "ok" => \A r \in Requests : start[r] # None =>
        \/ request[r] = "answered"
        \/ request[r] = "unheard" /\ since[r] >= start[r] + WriteLimit

(* A process that has served is gone within the time of Shutdown, of a      *)
(* rollback and of the closing of its connection after the signal, although *)
(* pool.Close waits for connections without a timeout (server.go, the       *)
(* deferred Close).                                                         *)
ExitsInTime ==
    stage \in {"serving", "draining", "closed"} /\ signal # None /\ result # "startup" =>
        clock <= signal + ShutdownLimit + RollbackLimit + CleanupLimit

(* What Run returns is decided when it leaves its select or its startup;    *)
(* before it serves there are no requests, and after a startup that failed  *)
(* none either.                                                             *)
ResultTells ==
    /\ result = None <=> stage \in {"starting", "serving", "draining"}
    /\ stage = "failed" => result = "listener"
    /\ stage = "closed" => result # "listener"
    /\ stage = "starting" \/ result = "startup" => \A r \in Requests : request[r] = "none"
    /\ result = "ok" => \A r \in Requests : request[r] \in {"none"} \cup (Ended \ {"cut"})

(* A connection is cut only once the server has closed it, no handler       *)
(* outlives the process, a rollback has a connection, and pgx closes those  *)
(* of handlers that have returned.                                          *)
RequestTells ==
    \A r \in Requests :
        /\ start[r] # None <=>
             request[r] \in {"handling", "rollback", "answered", "unheard", "cut"}
        /\ Connected => request[r] # "cut"
        /\ stage = "exited" => request[r] \notin Busy
        /\ request[r] = "unheard" => since[r] >= start[r] + WriteLimit
        /\ request[r] = "rollback" => r \in holds
        /\ closing[r] # None => request[r] \in {"answered", "unheard", "cut"}

(* Handlers and rollbacks last no longer than their contexts, and the       *)
(* closing of a connection no longer than pgx allows.                       *)
Timers ==
    \A r \in Requests :
        /\ request[r] = "handling" => start[r] <= clock /\ clock <= start[r] + HandlerLimit
        /\ request[r] = "rollback" =>
             /\ since[r] <= clock /\ clock <= since[r] + RollbackLimit
             /\ since[r] <= start[r] + HandlerLimit
        /\ closing[r] # None =>
             closing[r] <= clock /\ clock <= closing[r] + CleanupLimit

(* The signal is answered at once, and Shutdown keeps to its context.       *)
SignalTimes ==
    /\ signal # None => signal <= clock
    /\ stage = "draining" \/ result \in {"ok", "timeout"} => signal # None
    /\ stage \in {"starting", "serving"} /\ signal # None => clock = signal
    /\ stage = "draining" => clock <= signal + ShutdownLimit

(* Once Close has closed the connections, handlers stop at once, and what   *)
(* pool.Close waits for are rollbacks that had begun by then, and           *)
(* connections that a handler or such a rollback has left broken. All cut   *)
(* requests had started late.                                               *)
Closing ==
    \A r \in Requests :
        /\ stage = "closed" /\ closing[r] # None =>
             closing[r] <= signal + ShutdownLimit + RollbackLimit
        /\ result = "timeout" =>
             /\ stage = "closed" /\ request[r] = "handling" => clock <= signal + ShutdownLimit
             /\ stage = "closed" /\ request[r] = "rollback" =>
                  since[r] <= signal + ShutdownLimit
             /\ request[r] \in {"handling", "rollback", "cut"} =>
                  start[r] + HandlerLimit + RollbackLimit >= signal + ShutdownLimit

IInv ==
    /\ TypeOK /\ ResultTells /\ RequestTells /\ Timers /\ SignalTimes /\ Closing
    /\ ExitsInTime

(* After the signal the process ends: the pool's Close comes back and the   *)
(* connections it waits for do (server.go, the deferred Close).             *)
SignalEnds == signal # None ~> stage = "exited"
=============================================================================
