--------------------------- MODULE CeremonyClock ---------------------------
(***************************************************************************)
(* When a ceremony ends, by clocks that differ: the WebAuthn library's     *)
(* session ends by the clocks of the nodes that begin and verify it, the   *)
(* ceremony's row by the clock of the node that starts it and the          *)
(* database's clock. One ceremony, and the finishes that compete for it:   *)
(* each reads the clocks at one time and commits at another.               *)
(***************************************************************************)
EXTENDS Integers

CONSTANTS
    Nodes, DB,  \* the clocks: one per server node, and the database's
    Finishes,   \* calls in progress that finish the ceremony
    TTL,        \* CeremonyTTL
    Deadline,   \* the context of a request
    Skew,       \* how far a clock may be from the time
    End,        \* the time at which a behaviour stops (a bound)
    None

ASSUME ClocksAssumption ==
    DB \notin Nodes /\ None \notin Nodes \cup {"succeeded", "failed", "expired"}
ASSUME TimesAssumption == {TTL, Deadline, Skew, End} \subseteq Nat

VARIABLES
    now,        \* the time
    off,        \* clock -> how far it is ahead of the time
    home,       \* the node that starts the ceremony, None before
    begun,      \* the time at which it began the library's session
    session,    \* when that session ends, in the library's data
    expires,    \* expires_at of the row, None until it is inserted
    state,      \* state of the row
    decided,    \* the time of the clock reading that decided that state
    ended,      \* the time at which that state was committed
    told,       \* whether its COMMIT was confirmed, and the caller answered
    call        \* finish -> where it is

start == <<home, begun, session, expires>>
row == <<state, decided, ended, told>>
vars == <<now, off, start, row, call>>

(* since: when the call came; outcome, read: what it has decided, and the   *)
(* time of the clock reading it decided by.                                 *)
Outcomes == {"succeeded", "failed", "expired"}
Call == [at : {"idle", "called", "check", "verify", "decided", "inDoubt"},
         since : 0..End, outcome : Outcomes \cup {None}, read : 0..End]
Idle == [at |-> "idle", since |-> 0, outcome |-> None, read |-> 0]

TypeOK ==
    /\ now \in 0..End /\ off \in [Nodes \cup {DB} -> -Skew..Skew]
    /\ home \in Nodes \cup {None} /\ begun \in 0..End
    /\ session \in Int /\ (expires = None \/ expires \in Int)
    /\ state \in {"pending"} \cup Outcomes
    /\ decided \in 0..End /\ ended \in 0..End /\ told \in BOOLEAN
    /\ call \in [Finishes -> Call]

Init ==
    /\ now = 0 /\ off \in [Nodes \cup {DB} -> -Skew..Skew]
    /\ home = None /\ begun = 0 /\ session = 0 /\ expires = None
    /\ state = "pending" /\ decided = 0 /\ ended = 0 /\ told = FALSE
    /\ call = [f \in Finishes |-> Idle]

Clock(c) == now + off[c]

-----------------------------------------------------------------------------
(* The end of a session that begins on node n.                              *)
(* Faulty variant: the configuration leaves the timeout out.                *)
NoTimeout(n) == Clock(n)
SessionEnd(n) == Clock(n) + TTL

Begin(n) ==
    /\ home = None
    /\ home' = n /\ begun' = now /\ session' = SessionEnd(n)
    /\ UNCHANGED <<now, off, expires, row, call>>

(* Service.Start reads its clock again for the row.                         *)
Insert ==
    /\ home # None /\ expires = None
    /\ expires' = Clock(home) + TTL
    /\ UNCHANGED <<now, off, home, begun, session, row, call>>

-----------------------------------------------------------------------------
(* The finish that has the row, until its transaction is over.              *)
Busy == {f \in Finishes : call[f].at \in {"check", "verify", "decided", "inDoubt"}}

(* No statement is sent, or waited for, when the request's context is over. *)
InTime(f) == now <= call[f].since + Deadline

(* Finish f goes on; only the call changes.                                 *)
Become(f, x) ==
    /\ call' = [call EXCEPT ![f] = x]
    /\ UNCHANGED <<now, off, start, row>>
Goto(f, label) == Become(f, [call[f] EXCEPT !.at = label])

(* A caller has the token once the row is there, and may retry.             *)
Arrive(f) ==
    /\ expires # None /\ call[f] = Idle
    /\ Become(f, [at |-> "called", since |-> now, outcome |-> None, read |-> 0])

(* Faulty variant: the ceremony is selected without FOR UPDATE.             *)
NoLock == TRUE
RowFree == Busy = {}

(* The finish has the row and the subject to itself, after any wait. One    *)
(* that finds the row completed ends with a conflict.                       *)
Lock(f) ==
    /\ call[f].at = "called" /\ InTime(f) /\ RowFree
    /\ \/ state = "pending" /\ Goto(f, "check")
       \/ state # "pending" /\ Become(f, Idle)

(* The outcome stands, by the clock as it is now; the credential, the       *)
(* ceremony and the event have yet to be written and committed.             *)
Decide(f, result) ==
    Become(f, [call[f] EXCEPT !.at = "decided", !.outcome = result, !.read = now])

(* Ceremony.Check against the database's clock.                             *)
Check(f) ==
    /\ call[f].at = "check" /\ InTime(f)
    /\ \/ Clock(DB) >= expires /\ Decide(f, "expired")
       \/ Clock(DB) < expires /\ Goto(f, "verify")

(* Verify on node n, of a credential that is otherwise valid: the library   *)
(* compares its session's end with the node's clock.                        *)
(* Faulty variant: Enforce is not set.                                      *)
NotEnforced(n) == TRUE
SessionHolds(n) == Clock(n) <= session
Accept(f, n) == call[f].at = "verify" /\ SessionHolds(n) /\ Decide(f, "succeeded")
Refuse(f, n) == call[f].at = "verify" /\ ~SessionHolds(n) /\ Decide(f, "failed")

-----------------------------------------------------------------------------
Complete(f, confirmed) ==
    /\ state' = call[f].outcome /\ decided' = call[f].read
    /\ ended' = now /\ told' = confirmed
    /\ call' = [call EXCEPT ![f] = Idle]
    /\ UNCHANGED <<now, off, start>>

(* The writes, which may wait for the unique index, and a COMMIT that is    *)
(* confirmed before the request's context is over.                          *)
Commit(f) == call[f].at = "decided" /\ InTime(f) /\ Complete(f, TRUE)

(* The COMMIT was sent and not confirmed: the database completes it at any  *)
(* later time, or not at all.                                               *)
CommitUnknown(f) == call[f].at = "decided" /\ InTime(f) /\ Goto(f, "inDoubt")
Resolve(f) == call[f].at = "inDoubt" /\ (Complete(f, FALSE) \/ Become(f, Idle))

(* A statement fails, or the node: the row stays as it was.                 *)
Rollback(f) ==
    /\ call[f].at \in {"called", "check", "verify", "decided"}
    /\ Become(f, Idle)

Tick ==
    /\ now < End
    /\ now' = now + 1 /\ UNCHANGED <<off, start, row, call>>

Next ==
    \/ Insert \/ Tick
    \/ \E n \in Nodes : Begin(n)
    \/ \E f \in Finishes :
        \/ Arrive(f) \/ Lock(f) \/ Check(f)
        \/ \E n \in Nodes : Accept(f, n) \/ Refuse(f, n)
        \/ Commit(f) \/ CommitUnknown(f) \/ Resolve(f) \/ Rollback(f)

Spec == Init /\ [][Next]_vars
-----------------------------------------------------------------------------
(* However long a finish waits after its Check, the library's clock reading *)
(* that makes it a success comes within five minutes of the beginning, the  *)
(* clocks of the two nodes apart; and a success that is answered, writes,   *)
(* waits and COMMIT included, comes within one request's time more          *)
(* (webauthn.go, the enforced timeout; postgres.go, Finish).                *)
SuccessInTime ==
    state = "succeeded" =>
        /\ decided - begun <= TTL + 2 * Skew
        /\ told => ended - begun <= TTL + 2 * Skew + Deadline

(* No ceremony is ended for its age by a reading taken before it is five    *)
(* minutes old, the two clocks that were compared apart (ceremony.go,       *)
(* Check; webauthn.go).                                                     *)
NoEarlyEnd ==
    state \in {"expired", "failed"} => decided - begun >= TTL - 2 * Skew

(* Only the finish that has the row works on it, while it is pending, until *)
(* its transaction is over (postgres.go, Finish).                           *)
RowExclusive == \A f \in Busy : Busy = {f} /\ state = "pending"

(* Nothing is finished, or being finished, before both ends are written.    *)
Dated ==
    /\ state # "pending" => expires # None
    /\ \A f \in Finishes : call[f].at # "idle" => expires # None
    /\ expires # None => home # None

(* The session's end is counted from its beginning by the clock of the node *)
(* that started the ceremony, and the row never ends before the session     *)
(* does (webauthn.go, Begin; service.go, Start).                            *)
SessionFirst ==
    /\ home # None => session = begun + off[home] + TTL /\ begun <= now
    /\ expires # None => session <= expires

(* What a finish has decided but not committed was right when it read the   *)
(* clock, and it read it during its call (postgres.go, Finish).             *)
Verdicts ==
    \A f \in Finishes :
        LET c == call[f] IN
        /\ c.since <= now
        /\ c.at \in {"decided", "inDoubt"} =>
             /\ c.since <= c.read /\ c.read <= now
             /\ c.outcome = "succeeded" => c.read - begun <= TTL + 2 * Skew
             /\ c.outcome \in {"expired", "failed"} => c.read - begun >= TTL - 2 * Skew
             /\ c.outcome # None

IInv ==
    /\ TypeOK /\ RowExclusive /\ Dated /\ SessionFirst /\ Verdicts
    /\ SuccessInTime /\ NoEarlyEnd
=============================================================================
