------------------------- MODULE CeremonyClockProofs -----------------------
(***************************************************************************)
(* The two ends of a ceremony, for any nodes and finishes, any lifetime,   *)
(* any deadline and any skew of their clocks.                              *)
(***************************************************************************)
EXTENDS CeremonyClock, TLAPS

Ends == SuccessInTime /\ NoEarlyEnd

(* What the prover needs to know of the numbers.                            *)
LEMMA Numbers ==
    ASSUME TypeOK
    PROVE  /\ TTL \in Nat /\ Deadline \in Nat /\ Skew \in Nat /\ End \in Nat
           /\ now \in Nat /\ begun \in Nat /\ session \in Int
           /\ decided \in Nat /\ ended \in Nat
           /\ \A c \in Nodes \cup {DB} : off[c] \in Int /\ -Skew <= off[c] /\ off[c] <= Skew
           /\ \A f \in Finishes : call[f].since \in Nat /\ call[f].read \in Nat
<1>1. TTL \in Nat /\ Deadline \in Nat /\ Skew \in Nat /\ End \in Nat
  BY TimesAssumption
<1>2. now \in Nat /\ begun \in Nat /\ session \in Int /\ decided \in Nat /\ ended \in Nat
  BY <1>1 DEF TypeOK
<1>3. \A c \in Nodes \cup {DB} : off[c] \in -Skew..Skew
  BY DEF TypeOK
<1>4. \A f \in Finishes : call[f].since \in 0..End /\ call[f].read \in 0..End
  BY DEF TypeOK, Call
<1> QED BY <1>1, <1>2, <1>3, <1>4

LEMMA IdleIsCall == Idle \in Call /\ 0 \in 0..End
<1>1. 0 \in 0..End
  BY TimesAssumption
<1> QED BY <1>1 DEF Idle, Call

LEMMA InitInvariant == Init => IInv
<1> SUFFICES ASSUME Init PROVE IInv
  OBVIOUS
<1>1. TypeOK
  <2>1. call \in [Finishes -> Call]
    BY IdleIsCall DEF Init
  <2>2. /\ now \in 0..End /\ off \in [Nodes \cup {DB} -> -Skew..Skew]
        /\ begun \in 0..End /\ session \in Int /\ decided \in 0..End /\ ended \in 0..End
    BY IdleIsCall DEF Init
  <2>3. /\ home \in Nodes \cup {None} /\ (expires = None \/ expires \in Int)
        /\ state \in {"pending"} \cup Outcomes /\ told \in BOOLEAN
    BY DEF Init
  <2> QED BY <2>1, <2>2, <2>3 DEF TypeOK
<1>2. Busy = {}
  BY DEF Init, Busy, Idle
<1>3. RowExclusive /\ Dated /\ SessionFirst /\ SuccessInTime /\ NoEarlyEnd
  BY <1>2 DEF Init, Idle, RowExclusive, Dated, SessionFirst, SuccessInTime, NoEarlyEnd
<1>4. Verdicts
  <2>1. \A f \in Finishes : call[f].at = "idle" /\ call[f].since = 0
    BY DEF Init, Idle
  <2>2. now = 0
    BY DEF Init
  <2> QED BY <2>1, <2>2 DEF Verdicts
<1> QED BY <1>1, <1>3, <1>4 DEF IInv

-----------------------------------------------------------------------------
(* A node begins the session; there is no row yet, and no finish.           *)
LEMMA BeginStep ==
    ASSUME IInv, NEW n \in Nodes, Begin(n)
    PROVE  IInv'
<1>0. TypeOK /\ RowExclusive /\ Dated /\ SessionFirst /\ Verdicts
  BY DEF IInv
<1>1. /\ home = None /\ home' = n /\ begun' = now /\ session' = now + off[n] + TTL
      /\ UNCHANGED <<now, off, expires, state, decided, ended, told, call>>
  BY DEF Begin, SessionEnd, Clock, row
<1>2. expires = None /\ state = "pending" /\ Busy = {} /\ Busy' = {}
  BY <1>0, <1>1 DEF Dated, Busy
<1>3. TypeOK'
  BY <1>0, <1>1, Numbers DEF TypeOK
<1>4. n # None
  BY ClocksAssumption
<1>5. RowExclusive' /\ Dated'
  BY <1>0, <1>1, <1>2 DEF RowExclusive, Dated
<1>6. SessionFirst'
  BY <1>0, <1>1, <1>2, Numbers DEF SessionFirst
<1>7. SuccessInTime' /\ NoEarlyEnd'
  BY <1>1, <1>2 DEF SuccessInTime, NoEarlyEnd
<1>8. Verdicts'
  BY <1>0, <1>1, <1>2 DEF Verdicts, Busy
<1> QED BY <1>3, <1>5, <1>6, <1>7, <1>8 DEF IInv

(* The row is dated after the session, by the same clock.                   *)
LEMMA InsertStep ==
    ASSUME IInv, Insert
    PROVE  IInv'
<1>0. TypeOK /\ RowExclusive /\ Dated /\ SessionFirst /\ Verdicts
  BY DEF IInv
<1>1. /\ home \in Nodes /\ expires = None /\ expires' = now + off[home] + TTL
      /\ UNCHANGED <<now, off, home, begun, session, state, decided, ended, told, call>>
  BY <1>0 DEF Insert, Clock, TypeOK, row
<1>2. state = "pending" /\ Busy = {} /\ Busy' = {}
  BY <1>0, <1>1 DEF Dated, Busy
<1>3. off[home] \in Int /\ expires' \in Int
  BY <1>0, <1>1, Numbers
<1>4. TypeOK'
  BY <1>0, <1>1, <1>3 DEF TypeOK
<1>5. RowExclusive' /\ Dated'
  BY <1>0, <1>1, <1>2, ClocksAssumption DEF RowExclusive, Dated
<1>6. SessionFirst'
  BY <1>0, <1>1, <1>3, Numbers, ClocksAssumption DEF SessionFirst
<1>7. SuccessInTime' /\ NoEarlyEnd'
  BY <1>1, <1>2 DEF SuccessInTime, NoEarlyEnd
<1>8. Verdicts'
  BY <1>0, <1>1 DEF Verdicts
<1> QED BY <1>4, <1>5, <1>6, <1>7, <1>8 DEF IInv

-----------------------------------------------------------------------------
InRow == {"check", "verify", "decided", "inDoubt"}

(* A finish may become whatever keeps to the row: it has the row already,   *)
(* or takes it from nobody while it is pending, or does not have it; and    *)
(* what it has decided, if it has, it decided rightly.                      *)
LEMMA BecomeStep ==
    ASSUME IInv, NEW f \in Finishes, NEW x \in Call, Become(f, x),
           x.at # "idle" => expires # None,
           x.at \in InRow => f \in Busy \/ (Busy = {} /\ state = "pending"),
           x.since <= now,
           x.at \in {"decided", "inDoubt"} =>
             /\ x.since <= x.read /\ x.read <= now
             /\ x.outcome = "succeeded" => x.read - begun <= TTL + 2 * Skew
             /\ x.outcome \in {"expired", "failed"} => x.read - begun >= TTL - 2 * Skew
             /\ x.outcome # None
    PROVE  IInv'
<1>0. TypeOK /\ RowExclusive /\ Dated /\ SessionFirst /\ Verdicts /\ Ends
  BY DEF IInv, Ends
<1>1. /\ call' = [call EXCEPT ![f] = x]
      /\ UNCHANGED <<now, off, home, begun, session, expires, state, decided, ended, told>>
  BY DEF Become, start, row
<1>2. TypeOK'
  BY <1>0, <1>1 DEF TypeOK
<1>3. call'[f] = x /\ \A g \in Finishes \ {f} : call'[g] = call[g]
  BY <1>0, <1>1 DEF TypeOK
<1>4. Busy' = IF x.at \in InRow THEN Busy \cup {f} ELSE Busy \ {f}
  BY <1>3 DEF Busy, InRow
<1>5. RowExclusive' /\ Dated'
  BY <1>0, <1>1, <1>3, <1>4 DEF RowExclusive, Dated
<1>6. SessionFirst' /\ Ends'
  BY <1>0, <1>1 DEF SessionFirst, Ends, SuccessInTime, NoEarlyEnd
<1>7. Verdicts'
  BY <1>0, <1>1, <1>3 DEF Verdicts
<1> QED BY <1>2, <1>5, <1>6, <1>7 DEF IInv, Ends

(* It gives up, or has nothing to do.                                       *)
LEMMA IdleStep ==
    ASSUME IInv, NEW f \in Finishes, Become(f, Idle)
    PROVE  IInv'
<1>1. Idle \in Call /\ Idle.at = "idle" /\ Idle.since = 0
  BY IdleIsCall DEF Idle
<1>2. 0 <= now
  BY Numbers DEF IInv
<1> QED BY <1>1, <1>2, BecomeStep DEF InRow

LEMMA ArriveStep ==
    ASSUME IInv, NEW f \in Finishes, Arrive(f)
    PROVE  IInv'
<1> DEFINE x == [at |-> "called", since |-> now, outcome |-> None, read |-> 0]
<1>1. x \in Call /\ x.at = "called" /\ x.since = now
  <2>1. now \in 0..End /\ 0 \in 0..End
    BY IdleIsCall DEF IInv, TypeOK
  <2> QED BY <2>1 DEF Call
<1>2. now <= now
  BY Numbers DEF IInv
<1>3. Become(f, x)
  BY DEF Arrive
<1>4. expires # None
  BY DEF Arrive
<1> HIDE DEF x
<1> QED BY <1>1, <1>2, <1>3, <1>4, BecomeStep DEF InRow

(* It goes on to the next statement; what it decided stands.                *)
LEMMA GotoStep ==
    ASSUME IInv, NEW f \in Finishes, NEW label \in {"check", "verify", "inDoubt"},
           Goto(f, label),
           \/ f \in Busy
           \/ Busy = {} /\ state = "pending" /\ expires # None,
           label = "inDoubt" => call[f].at = "decided"
    PROVE  IInv'
<1> DEFINE x == [call[f] EXCEPT !.at = label]
<1>0. TypeOK /\ Dated /\ Verdicts
  BY DEF IInv
<1>1. call[f] \in Call
  BY <1>0 DEF TypeOK
<1>2. /\ x \in Call /\ x.at = label
      /\ x.since = call[f].since /\ x.read = call[f].read /\ x.outcome = call[f].outcome
  BY <1>1 DEF Call
<1>3. Become(f, x)
  BY DEF Goto
<1>4. expires # None
  BY <1>0 DEF Dated, Busy
<1>5. x.since <= now
  BY <1>0, <1>2 DEF Verdicts
<1>6. label = "inDoubt" =>
        /\ x.since <= x.read /\ x.read <= now
        /\ x.outcome = "succeeded" => x.read - begun <= TTL + 2 * Skew
        /\ x.outcome \in {"expired", "failed"} => x.read - begun >= TTL - 2 * Skew
        /\ x.outcome # None
  BY <1>0, <1>2 DEF Verdicts
<1> HIDE DEF x
<1> QED BY <1>2, <1>3, <1>4, <1>5, <1>6, BecomeStep

(* What a decision has to show, by the clock it is made by.                 *)
LEMMA DecideStep ==
    ASSUME IInv, NEW f \in Busy, NEW result \in Outcomes, Decide(f, result),
           result = "succeeded" => now - begun <= TTL + 2 * Skew,
           result # "succeeded" => now - begun >= TTL - 2 * Skew
    PROVE  IInv'
<1> DEFINE x == [call[f] EXCEPT !.at = "decided", !.outcome = result, !.read = now]
<1>0. f \in Finishes /\ TypeOK /\ Dated /\ Verdicts
  BY DEF IInv, Busy
<1>1. call[f] \in Call /\ now \in 0..End
  BY <1>0 DEF TypeOK
<1>2. /\ x \in Call /\ x.at = "decided"
      /\ x.since = call[f].since /\ x.read = now /\ x.outcome = result
  BY <1>1 DEF Call
<1>3. Become(f, x)
  BY DEF Decide
<1>4. expires # None /\ result # None
  BY <1>0, ClocksAssumption DEF Dated, Busy, Outcomes
<1>5. x.since <= now /\ x.since <= x.read /\ x.read <= now
  BY <1>0, <1>2, Numbers DEF Verdicts
<1> HIDE DEF x
<1> QED BY <1>0, <1>2, <1>3, <1>4, <1>5, BecomeStep DEF Outcomes

-----------------------------------------------------------------------------
(* Where a finish stands, the session's end is known.                       *)
LEMMA SessionKnown ==
    ASSUME IInv, NEW f \in Busy
    PROVE  /\ home \in Nodes /\ session = begun + off[home] + TTL
           /\ expires \in Int /\ session <= expires
BY DEF IInv, TypeOK, Dated, SessionFirst, Busy

(* A finish takes the row only when nobody has it.                          *)
LEMMA LockStep ==
    ASSUME IInv, NEW f \in Finishes, Lock(f)
    PROVE  IInv'
<1>1. CASE Become(f, Idle)
  BY <1>1, IdleStep
<1>2. CASE state = "pending" /\ Goto(f, "check")
  <2>1. expires # None
    BY DEF Lock, IInv, Dated
  <2>2. Busy = {}
    BY DEF Lock, RowFree
  <2> QED BY <1>2, <2>1, <2>2, GotoStep
<1> QED BY <1>1, <1>2 DEF Lock

LEMMA CheckStep ==
    ASSUME IInv, NEW f \in Finishes, Check(f)
    PROVE  IInv'
<1>0. f \in Busy /\ TypeOK
  BY DEF Check, Busy, IInv
<1>1. CASE now + off[DB] >= expires /\ Decide(f, "expired")
  <2>1. now - begun >= TTL - 2 * Skew
    BY <1>0, <1>1, SessionKnown, Numbers
  <2> QED BY <1>0, <1>1, <2>1, DecideStep DEF Outcomes
<1>2. CASE Goto(f, "verify")
  BY <1>0, <1>2, GotoStep
<1> QED BY <1>1, <1>2 DEF Check, Clock

LEMMA AcceptStep ==
    ASSUME IInv, NEW f \in Finishes, NEW n \in Nodes, Accept(f, n)
    PROVE  IInv'
<1>1. f \in Busy /\ TypeOK /\ now + off[n] <= session /\ Decide(f, "succeeded")
  BY DEF Accept, Busy, IInv, SessionHolds, Clock
<1>2. now - begun <= TTL + 2 * Skew
  BY <1>1, SessionKnown, Numbers
<1> QED BY <1>1, <1>2, DecideStep DEF Outcomes

LEMMA RefuseStep ==
    ASSUME IInv, NEW f \in Finishes, NEW n \in Nodes, Refuse(f, n)
    PROVE  IInv'
<1>1. f \in Busy /\ TypeOK /\ ~(now + off[n] <= session) /\ Decide(f, "failed")
  BY DEF Refuse, Busy, IInv, SessionHolds, Clock
<1>2. now - begun >= TTL - 2 * Skew
  BY <1>1, SessionKnown, Numbers
<1> QED BY <1>1, <1>2, DecideStep DEF Outcomes

-----------------------------------------------------------------------------
(* A decision is committed, in time when it is confirmed.                   *)
LEMMA CompleteStep ==
    ASSUME IInv, NEW f \in Finishes, call[f].at \in {"decided", "inDoubt"},
           NEW confirmed \in BOOLEAN, Complete(f, confirmed),
           confirmed => InTime(f)
    PROVE  IInv'
<1>0. TypeOK /\ RowExclusive /\ Dated /\ SessionFirst /\ Verdicts
  BY DEF IInv
<1>1. /\ state' = call[f].outcome /\ decided' = call[f].read
      /\ ended' = now /\ told' = confirmed /\ call' = [call EXCEPT ![f] = Idle]
      /\ UNCHANGED <<now, off, home, begun, session, expires>>
  BY DEF Complete, start
<1>2. /\ call[f].since <= call[f].read
      /\ call[f].outcome = "succeeded" => call[f].read - begun <= TTL + 2 * Skew
      /\ call[f].outcome \in {"expired", "failed"} => call[f].read - begun >= TTL - 2 * Skew
      /\ call[f].outcome # None
  BY <1>0 DEF Verdicts
<1>3. TypeOK'
  <2>1. call[f] \in Call /\ Idle \in Call
    BY <1>0, TimesAssumption DEF TypeOK, Idle, Call
  <2>2. call[f].outcome \in Outcomes /\ call[f].read \in 0..End
    BY <1>2, <2>1 DEF Call
  <2> QED BY <1>0, <1>1, <2>1, <2>2 DEF TypeOK
<1>4. call'[f] = Idle /\ \A g \in Finishes \ {f} : call'[g] = call[g]
  BY <1>0, <1>1 DEF TypeOK
<1>5. Busy = {f} /\ Busy' = {}
  <2>1. Busy = {f}
    BY <1>0 DEF Busy, RowExclusive
  <2> QED BY <1>4, <2>1 DEF Busy, Idle
<1>6. RowExclusive' /\ Dated'
  BY <1>0, <1>1, <1>4, <1>5 DEF RowExclusive, Dated, Idle, Busy
<1>7. SessionFirst'
  BY <1>0, <1>1 DEF SessionFirst
<1>8. Verdicts'
  <2>1. Idle.at = "idle" /\ Idle.since = 0
    BY DEF Idle
  <2> QED BY <1>0, <1>1, <1>4, <2>1, Numbers DEF Verdicts
<1>9. SuccessInTime' /\ NoEarlyEnd'
  <2>1. confirmed => now <= call[f].since + Deadline
    BY DEF InTime
  <2> QED BY <1>0, <1>1, <1>2, <2>1, Numbers DEF SuccessInTime, NoEarlyEnd
<1> QED BY <1>3, <1>6, <1>7, <1>8, <1>9 DEF IInv

LEMMA EndStep ==
    ASSUME IInv, NEW f \in Finishes,
           Commit(f) \/ CommitUnknown(f) \/ Resolve(f) \/ Rollback(f)
    PROVE  IInv'
<1>1. CASE Commit(f)
  BY <1>1, CompleteStep DEF Commit
<1>2. CASE CommitUnknown(f)
  BY <1>2, GotoStep DEF CommitUnknown, Busy
<1>3. CASE Resolve(f)
  BY <1>3, CompleteStep, IdleStep DEF Resolve
<1>4. CASE Rollback(f)
  BY <1>4, IdleStep DEF Rollback
<1> QED BY <1>1, <1>2, <1>3, <1>4

LEMMA TickStep ==
    ASSUME IInv, Tick
    PROVE  IInv'
<1>0. TypeOK /\ RowExclusive /\ Dated /\ SessionFirst /\ Verdicts /\ Ends
  BY DEF IInv, Ends
<1>1. /\ now < End /\ now' = now + 1
      /\ UNCHANGED <<off, home, begun, session, expires, state, decided, ended, told, call>>
  BY DEF Tick, start, row
<1>2. TypeOK'
  BY <1>0, <1>1, TimesAssumption DEF TypeOK
<1>3. RowExclusive' /\ Dated'
  BY <1>0, <1>1 DEF RowExclusive, Dated, Busy
<1>4. SessionFirst'
  BY <1>0, <1>1, Numbers DEF SessionFirst
<1>5. Verdicts'
  BY <1>0, <1>1, Numbers DEF Verdicts
<1>6. Ends'
  BY <1>0, <1>1 DEF Ends, SuccessInTime, NoEarlyEnd
<1> QED BY <1>2, <1>3, <1>4, <1>5, <1>6 DEF IInv, Ends

-----------------------------------------------------------------------------
(* One finish at a time has the row, the row does not end before the        *)
(* session, and every decision and every completion keeps to the lifetime,  *)
(* in every reachable state (postgres.go, Finish; service.go, Start;        *)
(* webauthn.go, Begin).                                                     *)
THEOREM ClockInvariant == Spec => []IInv
<1>1. Init => IInv
  BY InitInvariant
<1>2. IInv /\ [Next]_vars => IInv'
  <2> SUFFICES ASSUME IInv, [Next]_vars
               PROVE  IInv'
    OBVIOUS
  <2>1. CASE Insert
    BY <2>1, InsertStep
  <2>2. CASE Tick
    BY <2>2, TickStep
  <2>3. ASSUME NEW n \in Nodes, Begin(n) PROVE IInv'
    BY <2>3, BeginStep
  <2>4. ASSUME NEW f \in Finishes, Arrive(f) \/ Lock(f) PROVE IInv'
    BY <2>4, ArriveStep, LockStep
  <2>5. ASSUME NEW f \in Finishes, Check(f) PROVE IInv'
    BY <2>5, CheckStep
  <2>6. ASSUME NEW f \in Finishes, NEW n \in Nodes, Accept(f, n) \/ Refuse(f, n)
        PROVE  IInv'
    BY <2>6, AcceptStep, RefuseStep
  <2>7. ASSUME NEW f \in Finishes,
               Commit(f) \/ CommitUnknown(f) \/ Resolve(f) \/ Rollback(f)
        PROVE  IInv'
    BY <2>7, EndStep
  <2>8. CASE UNCHANGED vars
    BY <2>8 DEF vars, start, row, IInv, TypeOK, RowExclusive, Dated, SessionFirst,
       Verdicts, SuccessInTime, NoEarlyEnd, Busy
  <2> QED BY <2>1, <2>2, <2>3, <2>4, <2>5, <2>6, <2>7, <2>8 DEF Next
<1> QED BY <1>1, <1>2, PTL DEF Spec

(* The clock reading that makes a ceremony a success comes within its       *)
(* lifetime, the clocks apart, and an answered success within one request's *)
(* time more (webauthn.go, the enforced timeout; postgres.go, Finish).      *)
THEOREM SuccessAlwaysInTime == Spec => []SuccessInTime
<1>1. IInv => SuccessInTime
  BY DEF IInv
<1> QED BY <1>1, ClockInvariant, PTL

(* No ceremony is ended for its age by a reading taken before its lifetime  *)
(* is over, the clocks apart (ceremony.go, Check; webauthn.go).             *)
THEOREM NeverEndedEarly == Spec => []NoEarlyEnd
<1>1. IInv => NoEarlyEnd
  BY DEF IInv
<1> QED BY <1>1, ClockInvariant, PTL
=============================================================================
