------------------------ MODULE ServerLifecycleProofs ----------------------
(***************************************************************************)
(* Run, for any number of requests and connections and any limits: who may *)
(* be cut, what the exit says and when it comes.                           *)
(***************************************************************************)
EXTENDS ServerLifecycle, FiniteSetTheorems, TLAPS

(* What the prover needs to know of the numbers.                            *)
LEMMA Numbers ==
    ASSUME TypeOK
    PROVE  /\ PoolSize \in Nat \ {0} /\ MaxClock \in Nat
           /\ HeaderLimit \in Nat /\ HandlerLimit \in Nat
           /\ RollbackLimit \in Nat /\ ShutdownLimit \in Nat
           /\ CleanupLimit \in Nat /\ WriteLimit \in Nat
           /\ None \notin Nat /\ None \notin {"ok", "startup", "listener", "timeout"}
           /\ clock \in Nat /\ clock <= MaxClock
           /\ signal # None => signal \in Nat
           /\ \A r \in Requests :
                /\ since[r] \in Nat
                /\ start[r] # None => start[r] \in Nat
                /\ closing[r] # None => closing[r] \in Nat
BY LifecycleAssumption DEF TypeOK

(* The parts that speak of the process alone.                               *)
LEMMA ProcessUnchanged ==
    ASSUME SignalTimes, ExitsInTime, UNCHANGED <<clock, stage, result, signal>>
    PROVE  SignalTimes' /\ ExitsInTime'
BY DEF SignalTimes, ExitsInTime

LEMMA InitInvariant == Init => IInv
<1> SUFFICES ASSUME Init PROVE IInv
  OBVIOUS
<1>1. IsFiniteSet(Taken) /\ Cardinality(Taken) = 0
  BY FS_EmptySet DEF Init, Taken
<1>2. TypeOK
  BY <1>1, LifecycleAssumption DEF Init, TypeOK, Stages
<1>3. ResultTells /\ RequestTells /\ Timers
  BY DEF Init, ResultTells, RequestTells, Timers
<1>4. SignalTimes /\ Closing /\ ExitsInTime
  BY LifecycleAssumption DEF Init, SignalTimes, Closing, ExitsInTime
<1> QED BY <1>2, <1>3, <1>4 DEF IInv

-----------------------------------------------------------------------------

(* The server begins to serve: nobody has connected.                        *)
LEMMA ReadyStep ==
    ASSUME IInv, Ready
    PROVE  IInv'
<1>0. TypeOK /\ ResultTells /\ RequestTells /\ Timers /\ SignalTimes /\ Closing /\ ExitsInTime
  BY DEF IInv
<1>1. /\ stage = "starting" /\ stage' = "serving"
      /\ UNCHANGED <<clock, result, signal, request, since, start, holds, closing>>
  BY DEF Ready, pool
<1>2. TypeOK'
  BY <1>0, <1>1 DEF TypeOK, Stages, Taken
<1>3. ResultTells'
  BY <1>0, <1>1 DEF ResultTells, Ended
<1>4. RequestTells'
  BY <1>0, <1>1 DEF RequestTells, ResultTells
<1>5. Timers'
  BY <1>0, <1>1 DEF Timers
<1>6. SignalTimes' /\ ExitsInTime'
  BY <1>0, <1>1, Numbers DEF SignalTimes, ExitsInTime
<1>7. Closing'
  BY <1>0, <1>1 DEF Closing
<1> QED BY <1>2, <1>3, <1>4, <1>5, <1>6, <1>7 DEF IInv

(* It does not get so far.                                                  *)
LEMMA StartFailsStep ==
    ASSUME IInv, StartFails
    PROVE  IInv'
<1>0. TypeOK /\ ResultTells /\ RequestTells /\ Timers /\ SignalTimes /\ Closing /\ ExitsInTime
  BY DEF IInv
<1>1. /\ stage = "starting" /\ stage' = "closed" /\ result' = "startup"
      /\ UNCHANGED <<clock, signal, request, since, start, holds, closing>>
  BY DEF StartFails, pool
<1>2. TypeOK'
  BY <1>0, <1>1 DEF TypeOK, Stages, Taken
<1>3. ResultTells'
  BY <1>0, <1>1, Numbers DEF ResultTells, Ended
<1>4. RequestTells'
  BY <1>0, <1>1 DEF RequestTells, Connected
<1>5. Timers'
  BY <1>0, <1>1 DEF Timers
<1>6. SignalTimes' /\ ExitsInTime'
  BY <1>0, <1>1 DEF SignalTimes, ExitsInTime
<1>7. Closing'
  BY <1>0, <1>1, Numbers DEF Closing, ResultTells, RequestTells
<1> QED BY <1>2, <1>3, <1>4, <1>5, <1>6, <1>7 DEF IInv

(* The signal comes.                                                        *)
LEMMA SignalStep ==
    ASSUME IInv, Signal
    PROVE  IInv'
<1>0. TypeOK /\ ResultTells /\ RequestTells /\ Timers /\ SignalTimes /\ Closing /\ ExitsInTime
  BY DEF IInv
<1>1. /\ signal = None /\ stage # "exited" /\ signal' = clock
      /\ UNCHANGED <<clock, stage, result, request, since, start, holds, closing>>
  BY DEF Signal, pool
<1>2. TypeOK'
  BY <1>0, <1>1 DEF TypeOK, Taken
<1>3. ResultTells'
  BY <1>0, <1>1 DEF ResultTells, Ended
<1>4. RequestTells'
  BY <1>0, <1>1 DEF RequestTells, Connected
<1>5. Timers'
  BY <1>0, <1>1 DEF Timers
<1>6. SignalTimes' /\ ExitsInTime'
  BY <1>0, <1>1, Numbers DEF SignalTimes, ExitsInTime
<1>7. Closing'
  BY <1>0, <1>1 DEF Closing, SignalTimes, ResultTells, RequestTells, TypeOK
<1> QED BY <1>2, <1>3, <1>4, <1>5, <1>6, <1>7 DEF IInv

(* The listener fails.                                                      *)
LEMMA ListenerFailsStep ==
    ASSUME IInv, ListenerFails
    PROVE  IInv'
<1>0. TypeOK /\ ResultTells /\ RequestTells /\ Timers /\ SignalTimes /\ Closing /\ ExitsInTime
  BY DEF IInv
<1>1. /\ stage = "serving" /\ stage' = "failed" /\ result' = "listener"
      /\ UNCHANGED <<clock, signal, request, since, start, holds, closing>>
  BY DEF ListenerFails, pool
<1>2. TypeOK'
  BY <1>0, <1>1 DEF TypeOK, Stages, Taken
<1>3. ResultTells'
  BY <1>0, <1>1, Numbers DEF ResultTells, Ended
<1>4. RequestTells'
  BY <1>0, <1>1 DEF RequestTells, Connected
<1>5. Timers'
  BY <1>0, <1>1 DEF Timers
<1>6. SignalTimes' /\ ExitsInTime'
  BY <1>0, <1>1 DEF SignalTimes, ExitsInTime
<1>7. Closing'
  BY <1>1 DEF Closing
<1> QED BY <1>2, <1>3, <1>4, <1>5, <1>6, <1>7 DEF IInv

(* Shutdown begins in the second of the signal.                             *)
LEMMA BeginShutdownStep ==
    ASSUME IInv, BeginShutdown
    PROVE  IInv'
<1>0. TypeOK /\ ResultTells /\ RequestTells /\ Timers /\ SignalTimes /\ Closing /\ ExitsInTime
  BY DEF IInv
<1>1. /\ stage = "serving" /\ signal # None /\ stage' = "draining"
      /\ UNCHANGED <<clock, result, signal, request, since, start, holds, closing>>
  BY DEF BeginShutdown, pool
<1>2. TypeOK'
  BY <1>0, <1>1 DEF TypeOK, Stages, Taken
<1>3. ResultTells'
  BY <1>0, <1>1 DEF ResultTells, Ended
<1>4. RequestTells'
  BY <1>0, <1>1 DEF RequestTells, Connected
<1>5. Timers'
  BY <1>0, <1>1 DEF Timers
<1>6. SignalTimes' /\ ExitsInTime'
  BY <1>0, <1>1, Numbers DEF SignalTimes, ExitsInTime
<1>7. Closing'
  BY <1>0, <1>1 DEF Closing
<1> QED BY <1>2, <1>3, <1>4, <1>5, <1>6, <1>7 DEF IInv

(* Shutdown has seen every connection idle.                                 *)
LEMMA ShutdownEndsStep ==
    ASSUME IInv, ShutdownEnds
    PROVE  IInv'
<1>0. TypeOK /\ ResultTells /\ RequestTells /\ Timers /\ SignalTimes /\ Closing /\ ExitsInTime
  BY DEF IInv
<1>1. /\ stage = "draining" /\ \A r \in Requests : request[r] \notin Busy
      /\ stage' = "closed" /\ result' = "ok"
      /\ UNCHANGED <<clock, signal, request, since, start, holds, closing>>
  BY DEF ShutdownEnds, Drained, Active, pool
<1>2. TypeOK'
  BY <1>0, <1>1 DEF TypeOK, Stages, Taken
<1>3. ResultTells'
  BY <1>0, <1>1, Numbers DEF TypeOK, ResultTells, RequestTells, Connected, Ended
<1>4. RequestTells'
  BY <1>0, <1>1 DEF RequestTells, Connected
<1>5. Timers'
  BY <1>0, <1>1 DEF Timers
<1>6. SignalTimes' /\ ExitsInTime'
  BY <1>0, <1>1, Numbers DEF SignalTimes, ExitsInTime
<1>7. Closing'
  BY <1>0, <1>1, Numbers DEF Closing, SignalTimes, Timers
<1> QED BY <1>2, <1>3, <1>4, <1>5, <1>6, <1>7 DEF IInv

(* Shutdown's time is over: whoever is still in a handler or a rollback has *)
(* started less than their limits before.                                   *)
LEMMA ShutdownTimesOutStep ==
    ASSUME IInv, ShutdownTimesOut
    PROVE  IInv'
<1>0. TypeOK /\ ResultTells /\ RequestTells /\ Timers /\ SignalTimes /\ Closing /\ ExitsInTime
  BY DEF IInv
<1>1. /\ stage = "draining" /\ clock >= signal + ShutdownLimit
      /\ stage' = "closed" /\ result' = "timeout"
      /\ request' = [r \in Requests |->
                       IF request[r] = "headers" THEN "dropped" ELSE request[r]]
      /\ UNCHANGED <<clock, signal, since, start, holds, closing>>
  BY DEF ShutdownTimesOut, Late, pool
<1>2. TypeOK'
  BY <1>0, <1>1 DEF TypeOK, Stages, Ended, Taken
<1>3. ResultTells'
  BY <1>0, <1>1, Numbers DEF ResultTells, Ended
<1>4. RequestTells'
  BY <1>0, <1>1 DEF RequestTells, Connected
<1>5. Timers'
  BY <1>0, <1>1 DEF Timers
<1>6. SignalTimes' /\ ExitsInTime'
  BY <1>0, <1>1, Numbers DEF SignalTimes, ExitsInTime
<1>7. Closing'
  BY <1>0, <1>1, Numbers DEF Closing, Timers, RequestTells, SignalTimes, Connected
<1> QED BY <1>2, <1>3, <1>4, <1>5, <1>6, <1>7 DEF IInv

(* The process exits, and cuts what still runs.                             *)
LEMMA ExitStep ==
    ASSUME IInv, Exit
    PROVE  IInv'
<1>0. TypeOK /\ ResultTells /\ RequestTells /\ Timers /\ SignalTimes /\ Closing /\ ExitsInTime
  BY DEF IInv
<1>1. /\ stage \in {"closed", "failed"} /\ Taken = {} /\ stage' = "exited"
      /\ request' = [r \in Requests |->
                       CASE request[r] = "headers" -> "dropped"
                         [] request[r] \in {"handling", "rollback"} -> "cut"
                         [] OTHER -> request[r]]
      /\ UNCHANGED <<clock, result, signal, since, start, holds, closing>>
  BY DEF Exit, PoolEmpty, pool
<1>2. TypeOK'
  BY <1>0, <1>1 DEF TypeOK, Stages, Ended, Taken
<1>3. ResultTells'
  BY <1>0, <1>1 DEF ResultTells, Ended
<1>4. RequestTells'
  BY <1>0, <1>1 DEF RequestTells, Connected, Busy
<1>5. Timers'
  BY <1>0, <1>1 DEF Timers
<1>6. SignalTimes' /\ ExitsInTime'
  BY <1>0, <1>1 DEF SignalTimes, ExitsInTime
<1>7. Closing'
  BY <1>0, <1>1 DEF Closing
<1> QED BY <1>2, <1>3, <1>4, <1>5, <1>6, <1>7 DEF IInv

-----------------------------------------------------------------------------

(* A client connects.                                                       *)
LEMMA ConnectStep ==
    ASSUME IInv, NEW r \in Requests, Connect(r)
    PROVE  IInv'
<1>0. TypeOK /\ ResultTells /\ RequestTells /\ Timers /\ SignalTimes /\ Closing /\ ExitsInTime
  BY DEF IInv
<1>1. /\ stage = "serving" /\ request[r] = "none"
      /\ request' = [request EXCEPT ![r] = "headers"] /\ since' = [since EXCEPT ![r] = clock]
      /\ UNCHANGED <<clock, stage, result, signal, start, holds, closing>>
  BY DEF Connect, Enter, pool
<1>2. TypeOK'
  BY <1>0, <1>1 DEF TypeOK, Busy, Taken
<1>3. ResultTells'
  BY <1>0, <1>1, Numbers DEF ResultTells, Ended
<1>4. RequestTells'
  BY <1>0, <1>1 DEF RequestTells, Connected
<1>5. Timers'
  BY <1>0, <1>1 DEF Timers
<1>6. SignalTimes' /\ ExitsInTime'
  BY <1>0, <1>1, ProcessUnchanged
<1>7. Closing'
  BY <1>0, <1>1 DEF Closing
<1> QED BY <1>2, <1>3, <1>4, <1>5, <1>6, <1>7 DEF IInv

(* A handler starts.                                                        *)
LEMMA DispatchStep ==
    ASSUME IInv, NEW r \in Requests, Dispatch(r)
    PROVE  IInv'
<1>0. TypeOK /\ ResultTells /\ RequestTells /\ Timers /\ SignalTimes /\ Closing /\ ExitsInTime
  BY DEF IInv
<1>1. /\ Connected /\ request[r] = "headers"
      /\ request' = [request EXCEPT ![r] = "handling"] /\ since' = [since EXCEPT ![r] = clock]
      /\ start' = [start EXCEPT ![r] = clock]
      /\ UNCHANGED <<clock, stage, result, signal, holds, closing>>
  BY DEF Dispatch, Enter, pool
<1>2. TypeOK'
  BY <1>0, <1>1 DEF TypeOK, Busy, Taken
<1>3. ResultTells'
  BY <1>0, <1>1 DEF ResultTells, Ended
<1>4. RequestTells'
  BY <1>0, <1>1, Numbers DEF TypeOK, RequestTells, Busy
<1>5. Timers'
  BY <1>0, <1>1, Numbers DEF TypeOK, Timers
<1>6. SignalTimes' /\ ExitsInTime'
  BY <1>0, <1>1, ProcessUnchanged
<1>7. Closing'
  BY <1>0, <1>1, Numbers DEF Closing, ResultTells, Connected
<1> QED BY <1>2, <1>3, <1>4, <1>5, <1>6, <1>7 DEF IInv

(* The headers were late.                                                   *)
LEMMA DropConnectionStep ==
    ASSUME IInv, NEW r \in Requests, DropConnection(r)
    PROVE  IInv'
<1>0. TypeOK /\ ResultTells /\ RequestTells /\ Timers /\ SignalTimes /\ Closing /\ ExitsInTime
  BY DEF IInv
<1>1. /\ request[r] = "headers"
      /\ request' = [request EXCEPT ![r] = "dropped"] /\ since' = [since EXCEPT ![r] = clock]
      /\ UNCHANGED <<clock, stage, result, signal, start, holds, closing>>
  BY DEF DropConnection, Enter, HeadersLate, pool
<1>2. TypeOK'
  BY <1>0, <1>1 DEF TypeOK, Ended, Taken
<1>3. ResultTells'
  BY <1>0, <1>1 DEF ResultTells, Ended
<1>4. RequestTells'
  BY <1>0, <1>1 DEF RequestTells, Connected, Busy
<1>5. Timers'
  BY <1>0, <1>1 DEF Timers
<1>6. SignalTimes' /\ ExitsInTime'
  BY <1>0, <1>1, ProcessUnchanged
<1>7. Closing'
  BY <1>0, <1>1 DEF Closing
<1> QED BY <1>2, <1>3, <1>4, <1>5, <1>6, <1>7 DEF IInv

(* A handler takes a connection that is free.                               *)
LEMMA AcquireStep ==
    ASSUME IInv, NEW r \in Requests, Acquire(r)
    PROVE  IInv'
<1>0. TypeOK /\ ResultTells /\ RequestTells /\ Timers /\ SignalTimes /\ Closing /\ ExitsInTime
  BY DEF IInv
<1>1. /\ request[r] = "handling" /\ r \notin holds /\ Cardinality(Taken) < PoolSize
      /\ holds' = holds \cup {r}
      /\ UNCHANGED <<clock, stage, result, signal, request, since, start, closing>>
  BY DEF Acquire
<1>2. IsFiniteSet(Taken') /\ Cardinality(Taken') <= PoolSize
  <2>1. Taken' = Taken \cup {r} /\ r \notin Taken
    BY <1>0, <1>1 DEF Taken, RequestTells
  <2>2. IsFiniteSet(Taken') /\ Cardinality(Taken') = Cardinality(Taken) + 1
    BY <1>0, <2>1, FS_AddElement DEF TypeOK
  <2> QED BY <1>0, <1>1, <2>2, FS_CardinalityType, Numbers DEF TypeOK
<1>3. TypeOK'
  BY <1>0, <1>1, <1>2 DEF TypeOK
<1>4. ResultTells' /\ RequestTells' /\ Timers' /\ Closing'
  BY <1>0, <1>1 DEF ResultTells, RequestTells, Timers, Closing, Connected
<1> QED BY <1>0, <1>1, <1>3, <1>4, ProcessUnchanged DEF IInv

(* Connections that are given back, or kept, are no more than before.       *)
LEMMA FewerTaken ==
    ASSUME TypeOK, NEW S \in SUBSET Taken
    PROVE  IsFiniteSet(S) /\ Cardinality(S) <= PoolSize
<1>1. IsFiniteSet(S) /\ Cardinality(S) <= Cardinality(Taken)
  BY FS_Subset DEF TypeOK
<1> QED BY <1>1, FS_CardinalityType, Numbers DEF TypeOK

LEMMA ReleaseStep ==
    ASSUME IInv, NEW r \in Requests, Release(r)
    PROVE  IInv'
<1>0. TypeOK /\ ResultTells /\ RequestTells /\ Timers /\ SignalTimes /\ Closing /\ ExitsInTime
  BY DEF IInv
<1>1. /\ request[r] = "handling" /\ holds' = holds \ {r}
      /\ UNCHANGED <<clock, stage, result, signal, request, since, start, closing>>
  BY DEF Release, GiveBack
<1>2. TypeOK'
  <2>1. Taken' \subseteq Taken
    BY <1>1 DEF Taken
  <2> QED BY <1>0, <1>1, <2>1, FewerTaken DEF TypeOK
<1>3. ResultTells' /\ RequestTells' /\ Timers' /\ Closing'
  BY <1>0, <1>1 DEF ResultTells, RequestTells, Timers, Closing, Connected
<1> QED BY <1>0, <1>1, <1>2, <1>3, ProcessUnchanged DEF IInv

(* pgx has closed a connection.                                             *)
LEMMA CleanedUpStep ==
    ASSUME IInv, NEW r \in Requests, CleanedUp(r)
    PROVE  IInv'
<1>0. TypeOK /\ ResultTells /\ RequestTells /\ Timers /\ SignalTimes /\ Closing /\ ExitsInTime
  BY DEF IInv
<1>1. /\ closing' = [closing EXCEPT ![r] = None]
      /\ UNCHANGED <<clock, stage, result, signal, request, since, start, holds>>
  BY DEF CleanedUp
<1>2. closing'[r] = None /\ \A q \in Requests \ {r} : closing'[q] = closing[q]
  BY <1>0, <1>1 DEF TypeOK
<1>3. TypeOK'
  <2>1. Taken' \subseteq Taken
    BY <1>1, <1>2 DEF Taken
  <2> QED BY <1>0, <1>1, <2>1, FewerTaken DEF TypeOK
<1>4. ResultTells' /\ RequestTells' /\ Timers' /\ Closing'
  BY <1>0, <1>1, <1>2 DEF ResultTells, RequestTells, Timers, Closing, Connected
<1> QED BY <1>0, <1>1, <1>3, <1>4, ProcessUnchanged DEF IInv

(* A handler gives up: its rollback has a time of its own, and the          *)
(* handler's was not over while time passed.                                *)
LEMMA GiveUpStep ==
    ASSUME IInv, NEW r \in Requests, GiveUp(r)
    PROVE  IInv'
<1>0. TypeOK /\ ResultTells /\ RequestTells /\ Timers /\ SignalTimes /\ Closing /\ ExitsInTime
  BY DEF IInv
<1>1. /\ request[r] = "handling" /\ r \in holds
      /\ request' = [request EXCEPT ![r] = "rollback"] /\ since' = [since EXCEPT ![r] = clock]
      /\ UNCHANGED <<clock, stage, result, signal, start, holds, closing>>
  BY DEF GiveUp, Enter, pool
<1>2. TypeOK'
  BY <1>0, <1>1, Numbers DEF TypeOK, Busy, Ended, Taken
<1>3. ResultTells'
  BY <1>0, <1>1 DEF ResultTells, TypeOK, Ended
<1>4. RequestTells'
  BY <1>0, <1>1 DEF TypeOK, RequestTells, Connected, Busy
<1>5. Timers'
  BY <1>0, <1>1, Numbers DEF TypeOK, Timers
<1>6. Closing'
  BY <1>0, <1>1, Numbers DEF TypeOK, Closing
<1> QED BY <1>0, <1>1, <1>2, <1>3, <1>4, <1>5, <1>6, ProcessUnchanged DEF IInv

(* A handler that returns is answered while the server is connected to its  *)
(* client and in time to write, and cut when it is not connected. What it   *)
(* holds, if anything, goes back or is closed from now on.                  *)
LEMMA ReturnStep ==
    ASSUME IInv, NEW r \in Requests, request[r] \in {"handling", "rollback"}, Return(r),
           \/ r \notin holds /\ UNCHANGED pool
           \/ r \in holds /\ (GiveBack(r) \/ Discard(r))
    PROVE  IInv'
<1> DEFINE outcome == IF ~Connected THEN "cut" ELSE IF WriteLate(r) THEN "unheard" ELSE "answered"
<1>0. TypeOK /\ ResultTells /\ RequestTells /\ Timers /\ SignalTimes /\ Closing /\ ExitsInTime
  BY DEF IInv
<1>1. /\ request' = [request EXCEPT ![r] = outcome] /\ since' = [since EXCEPT ![r] = clock]
      /\ UNCHANGED <<clock, stage, result, signal, start>>
  BY DEF Return, Enter
<1>2. /\ holds' = holds \ {r}
      /\ \/ closing' = closing
         \/ r \in holds /\ closing' = [closing EXCEPT ![r] = clock]
  BY DEF GiveBack, Discard, pool
<1>3. /\ closing'[r] \in {closing[r], clock}
      /\ \A q \in Requests \ {r} : closing'[q] = closing[q]
      /\ closing' \in [Requests -> 0..MaxClock \cup {None}]
  BY <1>0, <1>2 DEF TypeOK
<1>4. closing[r] = None
  BY <1>0 DEF RequestTells
<1>5. /\ request'[r] = outcome /\ since'[r] = clock
      /\ \A q \in Requests \ {r} : request'[q] = request[q] /\ since'[q] = since[q]
  BY <1>0, <1>1 DEF TypeOK
<1>6. /\ outcome \in {"cut", "unheard", "answered"}
      /\ outcome = "cut" <=> ~Connected
      /\ outcome = "unheard" => clock >= start[r] + WriteLimit
  BY DEF WriteLate
<1> HIDE DEF outcome
<1>7. TypeOK'
  <2>1. Taken' \subseteq Taken
    BY <1>2, <1>3 DEF Taken
  <2>2. IsFiniteSet(Taken') /\ Cardinality(Taken') <= PoolSize
    BY <1>0, <2>1, FewerTaken
  <2> QED BY <1>0, <1>1, <1>2, <1>3, <1>6, <2>2, Numbers DEF TypeOK, Busy, Ended
<1>8. ResultTells'
  BY <1>0, <1>1, <1>5, <1>6 DEF ResultTells, Ended
<1>9. RequestTells'
  BY <1>0, <1>1, <1>2, <1>3, <1>5, <1>6 DEF RequestTells, Connected, Busy
<1>10. Timers'
  BY <1>0, <1>1, <1>3, <1>4, <1>5, <1>6, Numbers DEF Timers
<1>11. Closing'
  <2>1. stage = "closed" => result = "timeout"
    BY <1>0 DEF ResultTells, TypeOK, Ended
  <2>2. stage = "closed" => clock <= signal + ShutdownLimit + RollbackLimit
    BY <1>0, <2>1, Numbers DEF Closing, Timers, SignalTimes
  <2> QED BY <1>0, <1>1, <1>3, <1>4, <1>5, <1>6, <2>2 DEF Closing
<1> QED BY <1>0, <1>1, <1>7, <1>8, <1>9, <1>10, <1>11, ProcessUnchanged DEF IInv

-----------------------------------------------------------------------------
(* Time passes when no timer is due: no handler is at its end, a closed     *)
(* server has none and waits for a rollback, or for the closing of a        *)
(* connection, that has time left.                                          *)
LEMMA TickStep ==
    ASSUME IInv, Tick
    PROVE  IInv'
<1>0. TypeOK /\ ResultTells /\ RequestTells /\ Timers /\ SignalTimes /\ Closing /\ ExitsInTime
  BY DEF IInv
<1>1. /\ clock < MaxClock /\ clock' = clock + 1
      /\ UNCHANGED <<stage, result, signal, request, since, start, holds, closing>>
  BY DEF Tick, pool
<1>2. /\ \A r \in Requests : request[r] = "handling" =>
            stage # "closed" /\ ~(clock >= start[r] + HandlerLimit)
      /\ \A r \in Requests : request[r] = "rollback" => ~(clock >= since[r] + RollbackLimit)
      /\ ~(stage \in {"starting", "serving"} /\ signal # None)
      /\ ~(stage = "draining" /\ clock >= signal + ShutdownLimit)
      /\ \A r \in Requests : closing[r] # None => ~(clock >= closing[r] + CleanupLimit)
      /\ ~(stage \in {"closed", "failed"} /\ Taken = {})
  BY DEF Tick, Due, Cancelled, RollbackLate, CleanupLate, Late, PoolEmpty
<1>3. TypeOK'
  BY <1>0, <1>1, Numbers DEF TypeOK, Taken
<1>4. ResultTells' /\ RequestTells'
  BY <1>0, <1>1 DEF ResultTells, RequestTells, Connected
<1>5. Timers'
  <2> SUFFICES ASSUME NEW r \in Requests
               PROVE  /\ request[r] = "handling" =>
                            start[r] <= clock' /\ clock' <= start[r] + HandlerLimit
                      /\ request[r] = "rollback" =>
                            /\ since[r] <= clock' /\ clock' <= since[r] + RollbackLimit
                            /\ since[r] <= start[r] + HandlerLimit
                      /\ closing[r] # None =>
                            closing[r] <= clock' /\ clock' <= closing[r] + CleanupLimit
    BY <1>1 DEF Timers
  <2>1. request[r] \in {"handling", "rollback"} => start[r] # None
    BY <1>0 DEF RequestTells
  <2> QED BY <1>0, <1>1, <1>2, <2>1, Numbers DEF Timers
<1>6. SignalTimes'
  BY <1>0, <1>1, <1>2, Numbers DEF SignalTimes
<1>7. Closing'
  BY <1>0, <1>1, <1>2 DEF Closing
<1>8. ExitsInTime'
  <2> SUFFICES ASSUME stage \in {"serving", "draining", "closed"}, signal # None,
                      result # "startup"
               PROVE  clock' <= signal + ShutdownLimit + RollbackLimit + CleanupLimit
    BY <1>1 DEF ExitsInTime
  <2>1. CASE stage = "serving"
    BY <1>2, <2>1
  <2>2. CASE stage = "draining"
    BY <1>0, <1>1, <1>2, <2>2, Numbers
  <2>3. CASE stage = "closed"
    <3>1. PICK r \in Taken : TRUE
      BY <1>2, <2>3
    <3>2. CASE r \in holds
      <4>1. r \in Requests /\ request[r] = "rollback"
        BY <1>0, <1>2, <2>3, <3>2 DEF TypeOK
      <4>2. result = "timeout"
        BY <1>0, <2>3, <4>1 DEF TypeOK, ResultTells, Ended
      <4>3. since[r] <= signal + ShutdownLimit
        BY <1>0, <2>3, <4>1, <4>2 DEF Closing
      <4> QED BY <1>0, <1>1, <1>2, <4>1, <4>3, Numbers
    <3>3. CASE r \in Requests /\ closing[r] # None
      <4>1. closing[r] <= signal + ShutdownLimit + RollbackLimit
        BY <1>0, <2>3, <3>3 DEF Closing
      <4> QED BY <1>0, <1>1, <1>2, <3>3, <4>1, Numbers
    <3> QED BY <3>1, <3>2, <3>3 DEF Taken
  <2> QED BY <2>1, <2>2, <2>3
<1> QED BY <1>3, <1>4, <1>5, <1>6, <1>7, <1>8 DEF IInv

-----------------------------------------------------------------------------
(* The inductive invariant: what each stage has decided, how long each      *)
(* request may still take, and what pool.Close waits for (server.go, Run).  *)
THEOREM LifecycleInvariant == Spec => []IInv
<1>1. Init => IInv
  BY InitInvariant
<1>2. IInv /\ [Next]_vars => IInv'
  <2> SUFFICES ASSUME IInv, [Next]_vars
               PROVE  IInv'
    OBVIOUS
  <2>1. CASE Lifecycle
    BY <2>1, ReadyStep, StartFailsStep, BeginShutdownStep, ShutdownEndsStep,
       ShutdownTimesOutStep, ExitStep DEF Lifecycle
  <2>2. CASE Signal \/ ListenerFails
    BY <2>2, SignalStep, ListenerFailsStep
  <2>3. CASE Tick
    BY <2>3, TickStep
  <2>4. ASSUME NEW r \in Requests,
               Connect(r) \/ Dispatch(r) \/ Acquire(r) \/ Handler(r) \/ CleanedUp(r)
        PROVE  IInv'
    <3>1. CASE Connect(r) \/ Dispatch(r) \/ Acquire(r) \/ CleanedUp(r)
      BY <3>1, ConnectStep, DispatchStep, AcquireStep, CleanedUpStep
    <3>2. CASE DropConnection(r) \/ Release(r) \/ GiveUp(r)
      BY <3>2, DropConnectionStep, ReleaseStep, GiveUpStep
    <3>3. CASE Answer(r) \/ Break(r) \/ RolledBack(r)
      <4>1. request[r] = "rollback" => r \in holds
        BY DEF IInv, RequestTells
      <4> QED BY <3>3, <4>1, ReturnStep DEF Answer, Break, RolledBack
    <3> QED BY <2>4, <3>1, <3>2, <3>3 DEF Handler
  <2>5. CASE UNCHANGED vars
    BY <2>5 DEF vars, pool, IInv, TypeOK, Taken, ResultTells, RequestTells, Timers,
       SignalTimes, Closing, ExitsInTime, Connected
  <2> QED BY <2>1, <2>2, <2>3, <2>4, <2>5 DEF Next
<1> QED BY <1>1, <1>2, PTL DEF Spec

(* Only requests that began shortly before the signal, or after it, are cut *)
(* short by a shutdown (server.go, Shutdown and Close).                     *)
THEOREM OnlyLateRequestsCut == Spec => []CutOnlyLate
<1>1. IInv => CutOnlyLate
  <2> SUFFICES ASSUME IInv, NEW r \in Requests, request[r] = "cut", result # "listener"
               PROVE  start[r] + HandlerLimit + RollbackLimit >= signal + ShutdownLimit
    BY DEF CutOnlyLate
  <2>1. TypeOK /\ ResultTells /\ RequestTells /\ Closing
    BY DEF IInv
  <2>2. result = "timeout"
    BY <2>1 DEF TypeOK, ResultTells, RequestTells, Connected
  <2> QED BY <2>1, <2>2 DEF Closing
<1> QED BY <1>1, LifecycleInvariant, PTL

(* Run returns no error only when every request that reached a handler was  *)
(* answered, and heard of it unless its time to write was over (server.go,  *)
(* Shutdown and WriteTimeout).                                              *)
THEOREM CleanExitAlwaysAnswersAll == Spec => []CleanExitAnswersAll
<1>1. IInv => CleanExitAnswersAll
  BY DEF IInv, ResultTells, RequestTells, CleanExitAnswersAll, Ended
<1> QED BY <1>1, LifecycleInvariant, PTL

(* A process that has served is gone within the time of Shutdown, of one    *)
(* rollback and of the closing of one connection after the signal           *)
(* (server.go, the deferred Close).                                         *)
THEOREM AlwaysExitsInTime == Spec => []ExitsInTime
<1>1. IInv => ExitsInTime
  BY DEF IInv
<1> QED BY <1>1, LifecycleInvariant, PTL
=============================================================================
