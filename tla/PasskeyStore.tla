---------------------------- MODULE PasskeyStore ---------------------------
(***************************************************************************)
(* What the Repository interface promises: every operation is one atomic   *)
(* change of ceremonies, credentials and history together, in some order.  *)
(* There are no transactions, locks or connections here; PasskeyServer,    *)
(* which has them, implements this specification.                          *)
(***************************************************************************)
EXTENDS PasskeyData

VARIABLES
    ceremonies,     \* tables registration and authentication, by token
    credentials,    \* table credential, by id
    history,        \* table history, by what its rows are about
    clock           \* the database's clock

tables == <<ceremonies, credentials, history>>
vars == <<ceremonies, credentials, history, clock>>

TypeOK ==
    /\ ceremonies \in CeremonyTable
    /\ credentials \in CredentialTable
    /\ history \in HistoryTable
    /\ clock \in Nat

Init ==
    /\ ceremonies = Seed.ceremonies
    /\ credentials = Seed.credentials
    /\ history = Seed.history
    /\ clock = 0

Pending(t) == ceremonies[t] # None /\ ceremonies[t].state = "pending"

Record(key, event) ==
    history' = [history EXCEPT ![key] = Append(@, event)]

(* A ceremony appears, pending, with at most a full lifetime ahead of it.   *)
Start(t, row) ==
    /\ ceremonies[t] = None
    /\ ceremonies' = [ceremonies EXCEPT ![t] = row]
    /\ Record(t, StartEvent(row))
    /\ UNCHANGED <<credentials, clock>>

(* A pending registration creates a credential nobody else has, under an    *)
(* identifier never used before.                                            *)
NeverUsed(c) == credentials[c] = None /\ history[c] = <<>>

Register(t, c, w, n) ==
    /\ Pending(t) /\ ceremonies[t].kind = "registration"
    /\ NeverUsed(c)
    /\ \A d \in CredIds :
          credentials[d] # None =>
            ~(credentials[d].rp = ceremonies[t].rp /\ credentials[d].wid = w)
    /\ ceremonies' = [ceremonies EXCEPT ![t].state = "succeeded"]
    /\ credentials' = [credentials EXCEPT ![c] =
          [scope |-> ceremonies[t].scope, rp |-> ceremonies[t].rp,
           wid |-> w, count |-> n]]
    /\ Record(t, FinishEvent(ceremonies[t], c, "ok"))
    /\ UNCHANGED clock

(* A pending authentication succeeds with a credential that still exists,   *)
(* belongs to its scope and relying party, was allowed at its start, and    *)
(* whose counter moves on from the value stored now.                        *)
Authenticate(t, c, n) ==
    /\ Pending(t) /\ ceremonies[t].kind = "authentication"
    /\ credentials[c] # None
    /\ credentials[c].scope = ceremonies[t].scope
    /\ credentials[c].rp = ceremonies[t].rp
    /\ credentials[c].wid \in ceremonies[t].allowed
    /\ Advances(credentials[c].count, n)
    /\ ceremonies' = [ceremonies EXCEPT ![t].state = "succeeded",
                                        ![t].credential = c]
    /\ credentials' = [credentials EXCEPT ![c].count = n]
    /\ Record(t, FinishEvent(ceremonies[t], c, "ok"))
    /\ UNCHANGED clock

(* A verification error or a duplicate credential consumes the ceremony.    *)
Reject(t, code) ==
    /\ Pending(t)
    /\ code = Invalid(ceremonies[t].kind)
         \/ (code = "conflict" /\ ceremonies[t].kind = "registration")
    /\ ceremonies' = [ceremonies EXCEPT ![t].state = "failed"]
    /\ Record(t, FinishEvent(ceremonies[t], None, code))
    /\ UNCHANGED <<credentials, clock>>

Expire(t) ==
    /\ Pending(t)
    /\ clock >= ceremonies[t].expires
    /\ ceremonies' = [ceremonies EXCEPT ![t].state = "expired"]
    /\ Record(t, FinishEvent(ceremonies[t], None, Expired(ceremonies[t].kind)))
    /\ UNCHANGED <<credentials, clock>>

Delete(c) ==
    /\ credentials[c] # None
    /\ credentials' = [credentials EXCEPT ![c] = None]
    /\ Record(c, DeleteEvent(credentials[c].scope, c))
    /\ UNCHANGED <<ceremonies, clock>>

Tick ==
    /\ clock < MaxTime
    /\ clock' = clock + 1
    /\ UNCHANGED tables

Next ==
    \/ \E t \in Tokens :
         \/ \E k \in Kinds, s \in Scopes, rp \in RPs, allowed \in SUBSET Authenticators,
               expires \in 0..(clock + TTL) :
              Start(t, NewCeremony(k, s, rp, allowed, expires))
         \/ \E c \in CredIds, w \in Authenticators, n \in Counts : Register(t, c, w, n)
         \/ \E c \in CredIds, n \in Counts : Authenticate(t, c, n)
         \/ \E code \in Codes : Reject(t, code)
         \/ Expire(t)
    \/ \E c \in CredIds : Delete(c)
    \/ Tick

Spec == Init /\ [][Next]_vars

-----------------------------------------------------------------------------
(* At most one credential row exists per authenticator credential and       *)
(* relying party, whichever scopes race to register it.                     *)
OneOwnerPerAuthenticator == OneOwner(credentials)

(* The three tables tell one story: see LogAgrees.                          *)
LogMatchesTables == LogAgrees(ceremonies, credentials, history)

(* A completed ceremony never changes again, and a deleted credential never *)
(* comes back.                                                              *)
KeepsTerminal ==
    /\ \A t \in Tokens :
         ceremonies[t] # None /\ ceremonies[t].state # "pending" =>
           ceremonies'[t] = ceremonies[t] /\ history'[t] = history[t]
    /\ \A c \in CredIds :
         history[c] # <<>> => credentials'[c] = None /\ history'[c] = history[c]
TerminalIsFinal == [][KeepsTerminal]_vars

(* A stored signature counter changes only forward, and only in the step    *)
(* in which one authentication succeeds with that credential.               *)
CounterStep ==
    \A c \in CredIds :
        credentials[c] # None /\ credentials'[c] # None /\ credentials'[c] # credentials[c] =>
          /\ Advances(credentials[c].count, credentials'[c].count)
          /\ credentials'[c].scope = credentials[c].scope
          /\ credentials'[c].rp = credentials[c].rp
          /\ credentials'[c].wid = credentials[c].wid
          /\ \E t \in Tokens : /\ Pending(t) /\ ceremonies'[t].state = "succeeded"
                               /\ ceremonies'[t].credential = c
CounterAdvances == [][CounterStep]_vars
=============================================================================
