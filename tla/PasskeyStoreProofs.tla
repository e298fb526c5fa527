-------------------------- MODULE PasskeyStoreProofs -----------------------
(***************************************************************************)
(* What the repository's atomic promise guarantees for any configuration,  *)
(* any number of ceremonies and credentials and any seed that satisfies    *)
(* SeedAssumption.                                                         *)
(***************************************************************************)
EXTENDS PasskeyStore, SequenceTheorems, TLAPS

(* The rows event() writes are history rows: of a start,                    *)
LEMMA StartEventType == \A row \in Ceremony : StartEvent(row) \in Event
BY DEF StartEvent, Event, Ceremony, CeremonyStates

(* of a finish, whatever its outcome,                                       *)
LEMMA FinishEventType ==
    \A row \in Ceremony, id \in CredIds \cup {None}, outcome \in Codes \cup {"ok"} :
        FinishEvent(row, id, outcome) \in Event
<1>1. \A k, outcome : StateOf(k, outcome) \in CeremonyStates
  BY DEF StateOf, CeremonyStates
<1> QED BY <1>1 DEF FinishEvent, Event, Ceremony

(* and of a deletion.                                                       *)
LEMMA DeleteEventType ==
    \A scope \in Scopes, c \in CredIds : DeleteEvent(scope, c) \in Event
BY DEF DeleteEvent, Event, CeremonyStates

(* Recording an event leaves the history well typed.                        *)
LEMMA RecordTypes ==
    ASSUME history \in HistoryTable, NEW key \in Tokens \cup CredIds,
           NEW event \in Event, Record(key, event)
    PROVE  history' \in HistoryTable
<1>1. Append(history[key], event) \in Seq(Event)
  BY DEF HistoryTable
<1> QED BY <1>1 DEF Record, HistoryTable

(* Tables keep their types: no state outside the four the schema's CHECK    *)
(* allows, no row without its scope, no ill-formed history.                 *)
THEOREM StoreTypeCorrect == Spec => []TypeOK
<1>1. Init => TypeOK
  BY SeedAssumption DEF Init, TypeOK
<1>2. TypeOK /\ [Next]_vars => TypeOK'
  <2> SUFFICES ASSUME TypeOK, [Next]_vars PROVE TypeOK'
    OBVIOUS
  <2>1. ASSUME NEW t \in Tokens, NEW k \in Kinds, NEW s \in Scopes, NEW rp \in RPs,
               NEW allowed \in SUBSET Authenticators, NEW expires \in 0..(clock + TTL),
               Start(t, NewCeremony(k, s, rp, allowed, expires))
        PROVE TypeOK'
    <3>1. NewCeremony(k, s, rp, allowed, expires) \in Ceremony
      BY DEF NewCeremony, Ceremony, CeremonyStates
    <3>2. StartEvent(NewCeremony(k, s, rp, allowed, expires)) \in Event
      BY <3>1, StartEventType
    <3>3. history' \in HistoryTable
      BY <2>1, <3>2, RecordTypes DEF Start, TypeOK
    <3> QED BY <2>1, <3>1, <3>3 DEF Start, TypeOK, CeremonyTable
  <2>2. ASSUME NEW t \in Tokens, NEW c \in CredIds, NEW w \in Authenticators,
               NEW n \in Counts, Register(t, c, w, n)
        PROVE TypeOK'
    <3>1. ceremonies[t] \in Ceremony
      BY <2>2 DEF Register, Pending, TypeOK, CeremonyTable
    <3>2. history' \in HistoryTable
      BY <2>2, <3>1, FinishEventType, RecordTypes DEF Register, TypeOK
    <3>3. [ceremonies[t] EXCEPT !.state = "succeeded"] \in Ceremony
      BY <3>1 DEF Ceremony, CeremonyStates
    <3>4. [scope |-> ceremonies[t].scope, rp |-> ceremonies[t].rp,
           wid |-> w, count |-> n] \in Credential
      BY <3>1 DEF Ceremony, Credential
    <3>5. ceremonies' \in CeremonyTable /\ credentials' \in CredentialTable /\ clock' \in Nat
      BY <2>2, <3>3, <3>4 DEF Register, TypeOK, CeremonyTable, CredentialTable
    <3> QED BY <3>2, <3>5 DEF TypeOK
  <2>3. ASSUME NEW t \in Tokens, NEW c \in CredIds, NEW n \in Counts, Authenticate(t, c, n)
        PROVE TypeOK'
    <3>1. ceremonies[t] \in Ceremony /\ credentials[c] \in Credential
      BY <2>3 DEF Authenticate, Pending, TypeOK, CeremonyTable, CredentialTable
    <3>2. history' \in HistoryTable
      BY <2>3, <3>1, FinishEventType, RecordTypes DEF Authenticate, TypeOK
    <3>3. [ceremonies[t] EXCEPT !.state = "succeeded", !.credential = c] \in Ceremony
      BY <3>1 DEF Ceremony, CeremonyStates
    <3>4. [credentials[c] EXCEPT !.count = n] \in Credential
      BY <3>1 DEF Credential
    <3>5. /\ ceremonies' = [ceremonies EXCEPT ![t] =
                [ceremonies[t] EXCEPT !.state = "succeeded", !.credential = c]]
          /\ credentials' = [credentials EXCEPT ![c] = [credentials[c] EXCEPT !.count = n]]
      BY <2>3 DEF Authenticate, TypeOK, CeremonyTable, CredentialTable
    <3>6. ceremonies' \in CeremonyTable /\ credentials' \in CredentialTable /\ clock' \in Nat
      BY <2>3, <3>3, <3>4, <3>5 DEF Authenticate, TypeOK, CeremonyTable, CredentialTable
    <3> QED BY <3>2, <3>6 DEF TypeOK
  <2>4. ASSUME NEW t \in Tokens, NEW code \in Codes, Reject(t, code)
        PROVE TypeOK'
    <3>1. ceremonies[t] \in Ceremony
      BY <2>4 DEF Reject, Pending, TypeOK, CeremonyTable
    <3>2. FinishEvent(ceremonies[t], None, code) \in Event
      BY <3>1, FinishEventType
    <3>3. history' \in HistoryTable
      BY <2>4, <3>2, RecordTypes DEF Reject, TypeOK
    <3>4. [ceremonies[t] EXCEPT !.state = "failed"] \in Ceremony
      BY <3>1 DEF Ceremony, CeremonyStates
    <3> QED BY <2>4, <3>3, <3>4 DEF Reject, TypeOK, CeremonyTable
  <2>5. ASSUME NEW t \in Tokens, Expire(t)
        PROVE TypeOK'
    <3>1. ceremonies[t] \in Ceremony
      BY <2>5 DEF Expire, Pending, TypeOK, CeremonyTable
    <3>2. Expired(ceremonies[t].kind) \in Codes
      BY DEF Expired, Codes
    <3>3. FinishEvent(ceremonies[t], None, Expired(ceremonies[t].kind)) \in Event
      BY <3>1, <3>2, FinishEventType
    <3>4. history' \in HistoryTable
      BY <2>5, <3>3, RecordTypes DEF Expire, TypeOK
    <3>5. [ceremonies[t] EXCEPT !.state = "expired"] \in Ceremony
      BY <3>1 DEF Ceremony, CeremonyStates
    <3> QED BY <2>5, <3>4, <3>5 DEF Expire, TypeOK, CeremonyTable
  <2>6. ASSUME NEW c \in CredIds, Delete(c)
        PROVE TypeOK'
    <3>1. credentials[c] \in Credential
      BY <2>6 DEF Delete, TypeOK, CredentialTable
    <3>2. DeleteEvent(credentials[c].scope, c) \in Event
      BY <3>1, DeleteEventType DEF Credential
    <3>3. history' \in HistoryTable
      BY <2>6, <3>2, RecordTypes DEF Delete, TypeOK
    <3> QED BY <2>6, <3>3 DEF Delete, TypeOK, CredentialTable
  <2>7. CASE Tick
    BY <2>7 DEF Tick, tables, TypeOK
  <2>8. CASE UNCHANGED vars
    BY <2>8 DEF vars, TypeOK
  <2> QED BY <2>1, <2>2, <2>3, <2>4, <2>5, <2>6, <2>7, <2>8 DEF Next
<1> QED BY <1>1, <1>2, PTL DEF Spec
-----------------------------------------------------------------------------
(* The second history row of a ceremony is the one appended to its first.   *)
LEMMA AppendSecond ==
    ASSUME NEW log \in Seq(Event), NEW event \in Event
    PROVE  Len(log) = 1 => /\ Len(Append(log, event)) = 2
                           /\ Append(log, event)[1] = log[1]
                           /\ Append(log, event)[2] = event
<1> DEFINE next == Append(log, event)
<1>1. /\ Len(next) = Len(log) + 1
      /\ \A i \in 1..Len(log) : next[i] = log[i]
      /\ next[Len(log) + 1] = event
  BY AppendProperties
<1> QED BY <1>1

(* One finish, recorded after the start of a pending ceremony, makes the    *)
(* history of the completed one.                                            *)
LEMMA FinishLogged ==
    ASSUME NEW row \in Ceremony, NEW log \in Seq(Event), NEW done \in Ceremony,
           NEW id \in CredIds \cup {None}, NEW outcome \in Codes \cup {"ok"},
           row.state = "pending", CeremonyLogged(row, log),
           outcome = "ok" => id \in CredIds,
           done.kind = row.kind, done.scope = row.scope,
           done.state = StateOf(row.kind, outcome),
           row.kind = "authentication" =>
             done.credential = FinishEvent(row, id, outcome).credential
    PROVE  CeremonyLogged(done, Append(log, FinishEvent(row, id, outcome)))
<1> DEFINE event == FinishEvent(row, id, outcome)
           next == Append(log, event)
<1>1. event \in Event
  BY FinishEventType
<1>2. row # None /\ done # None /\ None \notin CredIds /\ None \notin Codes
  BY NoneAssumption
<1>3. Len(log) = 1 /\ log[1] = StartEvent(row)
  BY <1>2 DEF CeremonyLogged
<1>4. Len(next) = 2 /\ next[1] = log[1] /\ next[2] = event
  BY <1>1, <1>3, AppendSecond
<1>5. done.state # "pending" /\ (done.state = "succeeded" <=> outcome = "ok")
  BY DEF StateOf
<1>6. StartEvent(done) = StartEvent(row)
  BY DEF StartEvent
<1>7. /\ event.step = "finish" /\ event.kind = row.kind /\ event.scope = row.scope
      /\ event.result = StateOf(row.kind, outcome)
      /\ event.error = IF outcome = "ok" THEN None ELSE outcome
      /\ event.credential = IF outcome = "ok" THEN id ELSE None
  BY DEF FinishEvent
<1>8. (outcome = "ok") <=> (event.error = None)
  BY <1>7, <1>2 DEF Codes
<1>9. (outcome = "ok") <=> (event.credential # None)
  BY <1>7, <1>2
<1> HIDE DEF next, event
<1>10. CeremonyLogged(done, next)
  BY <1>2, <1>3, <1>4, <1>5, <1>6, <1>7, <1>8, <1>9 DEF CeremonyLogged, event
<1> QED BY <1>10 DEF next, event

(* A step that leaves one ceremony pending or not a successful registration *)
(* and keeps all others does not change what anyone registered.             *)
LEMMA RegisteredStable ==
    ASSUME NEW c \in CredIds, NEW t \in Tokens,
           \A u \in Tokens \ {t} : ceremonies'[u] = ceremonies[u] /\ history'[u] = history[u],
           ~(/\ ceremonies[t] # None /\ ceremonies[t].kind = "registration"
             /\ ceremonies[t].state = "succeeded"),
           ~(/\ ceremonies'[t] # None /\ ceremonies'[t].kind = "registration"
             /\ ceremonies'[t].state = "succeeded")
    PROVE  Registered(c, ceremonies', history') = Registered(c, ceremonies, history)
BY DEF Registered

(* Such a step, when it deletes nothing and keeps the owner of each         *)
(* credential, keeps the credentials' part of the history.                  *)
LEMMA CredentialLogStable ==
    ASSUME NEW c \in CredIds, NEW t \in Tokens,
           CredentialLogged(c, ceremonies, credentials, history),
           Registered(c, ceremonies', history') = Registered(c, ceremonies, history),
           \A u \in Tokens \ {t} : ceremonies'[u] = ceremonies[u],
           t \notin Registered(c, ceremonies, history),
           history'[c] = history[c],
           credentials'[c] = None <=> credentials[c] = None,
           credentials[c] # None => /\ credentials'[c].scope = credentials[c].scope
                                    /\ credentials'[c].rp = credentials[c].rp
    PROVE  CredentialLogged(c, ceremonies', credentials', history')
<1>1. \A u \in Registered(c, ceremonies, history) : u \in Tokens \ {t}
  BY DEF Registered
<1> QED BY <1>1 DEF CredentialLogged

-----------------------------------------------------------------------------
(* Committed rows never break the unique index: each Next step inserts at   *)
(* most one credential, whose key no other row has.                         *)
THEOREM StoreOneOwner == Spec => []OneOwnerPerAuthenticator
<1>1. Init => OneOwnerPerAuthenticator
  BY SeedAssumption DEF Init, OneOwnerPerAuthenticator
<1>2. TypeOK /\ OneOwnerPerAuthenticator /\ [Next]_vars => OneOwnerPerAuthenticator'
  <2> SUFFICES ASSUME TypeOK, OneOwnerPerAuthenticator, [Next]_vars
               PROVE OneOwnerPerAuthenticator'
    OBVIOUS
  <2> USE DEF OneOwnerPerAuthenticator, OneOwner, TypeOK, CredentialTable
  <2>1. ASSUME NEW t \in Tokens, NEW c \in CredIds, NEW w \in Authenticators,
               NEW n \in Counts, Register(t, c, w, n)
        PROVE OneOwnerPerAuthenticator'
    <3> DEFINE new == [scope |-> ceremonies[t].scope, rp |-> ceremonies[t].rp,
                       wid |-> w, count |-> n]
    <3>1. /\ credentials' = [credentials EXCEPT ![c] = new]
          /\ \A d \in CredIds : credentials[d] # None =>
                ~(credentials[d].rp = new.rp /\ credentials[d].wid = new.wid)
      BY <2>1 DEF Register
    <3> QED BY <3>1
  <2>2. ASSUME NEW t \in Tokens, NEW c \in CredIds, NEW n \in Counts, Authenticate(t, c, n)
        PROVE OneOwnerPerAuthenticator'
    <3>1. /\ credentials[c] \in Credential
          /\ credentials' = [credentials EXCEPT ![c] = [credentials[c] EXCEPT !.count = n]]
      BY <2>2 DEF Authenticate
    <3>2. /\ credentials'[c].rp = credentials[c].rp /\ credentials'[c].wid = credentials[c].wid
          /\ \A d \in CredIds \ {c} : credentials'[d] = credentials[d]
      BY <3>1 DEF Credential
    <3> QED BY <2>2, <3>2 DEF Authenticate
  <2>3. ASSUME NEW c \in CredIds, Delete(c)
        PROVE OneOwnerPerAuthenticator'
    BY <2>3 DEF Delete
  <2>4. ASSUME UNCHANGED credentials
        PROVE OneOwnerPerAuthenticator'
    BY <2>4
  <2> QED BY <2>1, <2>2, <2>3, <2>4 DEF Next, Start, Reject, Expire, Tick, tables, vars
<1> QED BY <1>1, <1>2, StoreTypeCorrect, PTL DEF Spec

(* After a step that completes ceremony t with "outcome", every ceremony's  *)
(* history is as it should be.                                              *)
LEMMA CompletionLogged ==
    ASSUME TypeOK, LogMatchesTables, NEW t \in Tokens, Pending(t),
           NEW id \in CredIds \cup {None}, NEW outcome \in Codes \cup {"ok"},
           outcome = "ok" => id \in CredIds,
           NEW done \in Ceremony,
           done.kind = ceremonies[t].kind, done.scope = ceremonies[t].scope,
           done.state = StateOf(ceremonies[t].kind, outcome),
           ceremonies[t].kind = "authentication" =>
             done.credential = FinishEvent(ceremonies[t], id, outcome).credential,
           ceremonies' = [ceremonies EXCEPT ![t] = done],
           Record(t, FinishEvent(ceremonies[t], id, outcome))
    PROVE  /\ \A u \in Tokens : CeremonyLogged(ceremonies'[u], history'[u])
           /\ \A u \in Tokens \ {t} : ceremonies'[u] = ceremonies[u] /\ history'[u] = history[u]
           /\ \A c \in CredIds : history'[c] = history[c]
           /\ ceremonies'[t] = done
           /\ history'[t][2] = FinishEvent(ceremonies[t], id, outcome)
<1> DEFINE event == FinishEvent(ceremonies[t], id, outcome)
<1>1. ceremonies[t] \in Ceremony /\ history[t] \in Seq(Event)
  BY DEF TypeOK, CeremonyTable, HistoryTable, Pending
<1>2. CeremonyLogged(ceremonies[t], history[t])
  BY DEF LogMatchesTables, LogAgrees
<1>3. event \in Event
  BY <1>1, FinishEventType
<1>4. CeremonyLogged(done, Append(history[t], event))
  BY <1>1, <1>2, FinishLogged DEF Pending
<1>5. history'[t] = Append(history[t], event)
  BY DEF Record, TypeOK, HistoryTable
<1>6. \A u \in Tokens \ {t} : ceremonies'[u] = ceremonies[u] /\ history'[u] = history[u]
  BY DEF Record, TypeOK, HistoryTable, CeremonyTable
<1>7. \A c \in CredIds : history'[c] = history[c]
  BY KeysAssumption DEF Record, TypeOK, HistoryTable
<1>8. ceremonies'[t] = done
  BY DEF TypeOK, CeremonyTable
<1>9. Len(history[t]) = 1
  BY <1>2 DEF CeremonyLogged, Pending
<1>10. history'[t][2] = event
  BY <1>1, <1>3, <1>5, <1>9, AppendSecond
<1>11. \A u \in Tokens : CeremonyLogged(ceremonies'[u], history'[u])
  BY <1>4, <1>5, <1>6, <1>8 DEF LogMatchesTables, LogAgrees
<1> QED BY <1>6, <1>7, <1>8, <1>10, <1>11

(* Ceremonies, credentials and history tell one story in every state.       *)
THEOREM StoreLogMatches == Spec => []LogMatchesTables
<1>1. Init => LogMatchesTables
  BY SeedAssumption DEF Init, LogMatchesTables
<1>2. TypeOK /\ LogMatchesTables /\ [Next]_vars => LogMatchesTables'
  <2> SUFFICES ASSUME TypeOK, LogMatchesTables, [Next]_vars PROVE LogMatchesTables'
    OBVIOUS
  <2>1. ASSUME NEW t \in Tokens, NEW k \in Kinds, NEW s \in Scopes, NEW rp \in RPs,
               NEW allowed \in SUBSET Authenticators, NEW expires \in 0..(clock + TTL),
               Start(t, NewCeremony(k, s, rp, allowed, expires))
        PROVE LogMatchesTables'
    <3> DEFINE row == NewCeremony(k, s, rp, allowed, expires)
    <3>1. row \in Ceremony /\ row.state = "pending" /\ row.credential = None
      BY DEF NewCeremony, Ceremony, CeremonyStates
    <3>2. row # None /\ StartEvent(row) \in Event
      BY <3>1, NoneAssumption, StartEventType
    <3>3. ceremonies[t] = None /\ history[t] = <<>>
      BY <2>1 DEF Start, LogMatchesTables, LogAgrees, CeremonyLogged
    <3>4. ceremonies'[t] = row /\ history'[t] = <<StartEvent(row)>>
      BY <2>1, <3>2, <3>3 DEF Start, Record, TypeOK, CeremonyTable, HistoryTable
    <3>5. /\ \A u \in Tokens \ {t} : ceremonies'[u] = ceremonies[u] /\ history'[u] = history[u]
          /\ \A c \in CredIds : history'[c] = history[c] /\ credentials'[c] = credentials[c]
      BY <2>1, KeysAssumption DEF Start, Record, TypeOK, CeremonyTable, HistoryTable
    <3> HIDE DEF row
    <3>6. CeremonyLogged(ceremonies'[t], history'[t])
      BY <3>1, <3>2, <3>4 DEF CeremonyLogged
    <3>7. \A u \in Tokens : CeremonyLogged(ceremonies'[u], history'[u])
      BY <3>5, <3>6 DEF LogMatchesTables, LogAgrees
    <3>8. ASSUME NEW c \in CredIds
          PROVE CredentialLogged(c, ceremonies', credentials', history')
      <4>1. Registered(c, ceremonies', history') = Registered(c, ceremonies, history)
        BY <3>1, <3>2, <3>3, <3>4, <3>5, RegisteredStable
      <4>2. t \notin Registered(c, ceremonies, history)
        BY <3>3 DEF Registered
      <4>3. CredentialLogged(c, ceremonies, credentials, history)
        BY DEF LogMatchesTables, LogAgrees
      <4> QED BY <3>5, <4>1, <4>2, <4>3, CredentialLogStable
    <3> QED BY <3>7, <3>8 DEF LogMatchesTables, LogAgrees
  <2>2. ASSUME NEW t \in Tokens, NEW c \in CredIds, NEW w \in Authenticators,
               NEW n \in Counts, Register(t, c, w, n)
        PROVE LogMatchesTables'
    <3> DEFINE done == [ceremonies[t] EXCEPT !.state = "succeeded"]
    <3>1. ceremonies[t] \in Ceremony /\ Pending(t) /\ ceremonies[t].kind = "registration"
      BY <2>2 DEF Register, Pending, TypeOK, CeremonyTable
    <3>2. /\ done \in Ceremony /\ done.kind = ceremonies[t].kind
          /\ done.scope = ceremonies[t].scope /\ done.rp = ceremonies[t].rp
          /\ done.state = "succeeded"
      BY <3>1 DEF Ceremony, CeremonyStates
    <3>3. ceremonies' = [ceremonies EXCEPT ![t] = done]
      BY <2>2 DEF Register
    <3> HIDE DEF done
    <3>4. /\ \A u \in Tokens : CeremonyLogged(ceremonies'[u], history'[u])
          /\ \A u \in Tokens \ {t} : ceremonies'[u] = ceremonies[u] /\ history'[u] = history[u]
          /\ \A d \in CredIds : history'[d] = history[d]
          /\ ceremonies'[t] = done
          /\ history'[t][2] = FinishEvent(ceremonies[t], c, "ok")
      <4>1. done.state = StateOf(ceremonies[t].kind, "ok")
        BY <3>2 DEF StateOf
      <4>2. ceremonies[t].kind = "authentication" =>
              done.credential = FinishEvent(ceremonies[t], c, "ok").credential
        BY <3>1
      <4>3. Record(t, FinishEvent(ceremonies[t], c, "ok"))
        BY <2>2 DEF Register
      <4>4. c \in CredIds \cup {None} /\ "ok" \in Codes \cup {"ok"}
        OBVIOUS
      <4> QED BY <3>1, <3>2, <3>3, <4>1, <4>2, <4>3, <4>4, CompletionLogged
    <3>5. history'[t][2].credential = c
      BY <3>4 DEF FinishEvent
    <3>6. done # None
      BY <3>2, NoneAssumption
    <3>7. Registered(c, ceremonies', history') = {t}
      <4>1. CredentialLogged(c, ceremonies, credentials, history)
        BY DEF LogMatchesTables, LogAgrees
      <4>2. Registered(c, ceremonies, history) = {}
        BY <2>2, <4>1 DEF Register, NeverUsed, CredentialLogged
      <4> QED BY <3>1, <3>2, <3>4, <3>5, <3>6, <4>2 DEF Registered
    <3>8. CredentialLogged(c, ceremonies', credentials', history')
      <4> DEFINE new == [scope |-> ceremonies[t].scope, rp |-> ceremonies[t].rp,
                         wid |-> w, count |-> n]
      <4>1. credentials'[c] = new /\ new \in Credential
        BY <2>2, <3>1 DEF Register, TypeOK, CredentialTable, Ceremony, Credential
      <4>2. new # None /\ new.scope = done.scope /\ new.rp = done.rp
        BY <4>1, <3>2, NoneAssumption
      <4>3. CredentialLogged(c, ceremonies, credentials, history)
        BY DEF LogMatchesTables, LogAgrees
      <4>4. history'[c] = <<>>
        BY <2>2, <3>4, <4>3 DEF Register, NeverUsed, CredentialLogged
      <4> HIDE DEF new
      <4> QED BY <3>4, <3>7, <4>1, <4>2, <4>4 DEF CredentialLogged
    <3>9. ASSUME NEW d \in CredIds \ {c}
          PROVE CredentialLogged(d, ceremonies', credentials', history')
      <4>1. t \notin Registered(d, ceremonies, history)
        BY <3>1 DEF Registered, Pending
      <4>2. Registered(d, ceremonies', history') = Registered(d, ceremonies, history)
        BY <4>1, <3>4, <3>5 DEF Registered
      <4>3. CredentialLogged(d, ceremonies, credentials, history)
        BY DEF LogMatchesTables, LogAgrees
      <4>4. credentials'[d] = credentials[d]
        BY <2>2 DEF Register, TypeOK, CredentialTable
      <4> QED BY <3>4, <4>1, <4>2, <4>3, <4>4, CredentialLogStable
    <3> QED BY <3>4, <3>8, <3>9 DEF LogMatchesTables, LogAgrees
  <2>3. ASSUME NEW t \in Tokens, NEW c \in CredIds, NEW n \in Counts, Authenticate(t, c, n)
        PROVE LogMatchesTables'
    <3> DEFINE done == [ceremonies[t] EXCEPT !.state = "succeeded", !.credential = c]
    <3>1. ceremonies[t] \in Ceremony /\ Pending(t) /\ ceremonies[t].kind = "authentication"
      BY <2>3 DEF Authenticate, Pending, TypeOK, CeremonyTable
    <3>2. /\ done \in Ceremony /\ done.kind = ceremonies[t].kind
          /\ done.scope = ceremonies[t].scope /\ done.state = "succeeded"
          /\ done.credential = c
      BY <3>1 DEF Ceremony, CeremonyStates
    <3>3. ceremonies' = [ceremonies EXCEPT ![t] = done]
      BY <2>3 DEF Authenticate, TypeOK, CeremonyTable
    <3> HIDE DEF done
    <3>4. /\ \A u \in Tokens : CeremonyLogged(ceremonies'[u], history'[u])
          /\ \A u \in Tokens \ {t} : ceremonies'[u] = ceremonies[u] /\ history'[u] = history[u]
          /\ \A d \in CredIds : history'[d] = history[d]
          /\ ceremonies'[t] = done
      <4>1. done.state = StateOf(ceremonies[t].kind, "ok")
        BY <3>2 DEF StateOf
      <4>2. ceremonies[t].kind = "authentication" =>
              done.credential = FinishEvent(ceremonies[t], c, "ok").credential
        BY <3>2 DEF FinishEvent
      <4>3. Record(t, FinishEvent(ceremonies[t], c, "ok"))
        BY <2>3 DEF Authenticate
      <4>4. c \in CredIds \cup {None} /\ "ok" \in Codes \cup {"ok"}
        OBVIOUS
      <4> QED BY <3>1, <3>2, <3>3, <4>1, <4>2, <4>3, <4>4, CompletionLogged
    <3>5. /\ \A d \in CredIds \ {c} : credentials'[d] = credentials[d]
          /\ credentials[c] # None /\ credentials'[c] # None
          /\ credentials'[c].scope = credentials[c].scope
          /\ credentials'[c].rp = credentials[c].rp
      <4>1. credentials[c] \in Credential /\ credentials[c] # None
        BY <2>3 DEF Authenticate, TypeOK, CredentialTable
      <4>2. credentials' = [credentials EXCEPT ![c] = [credentials[c] EXCEPT !.count = n]]
        BY <2>3 DEF Authenticate, TypeOK, CredentialTable
      <4>3. /\ [credentials[c] EXCEPT !.count = n] \in Credential
            /\ [credentials[c] EXCEPT !.count = n].scope = credentials[c].scope
            /\ [credentials[c] EXCEPT !.count = n].rp = credentials[c].rp
        BY <4>1 DEF Credential
      <4> QED BY <4>1, <4>2, <4>3, NoneAssumption DEF TypeOK, CredentialTable
    <3>6. ASSUME NEW d \in CredIds
          PROVE CredentialLogged(d, ceremonies', credentials', history')
      <4>1. t \notin Registered(d, ceremonies, history)
        BY <3>1 DEF Registered
      <4>2. Registered(d, ceremonies', history') = Registered(d, ceremonies, history)
        BY <3>1, <3>2, <3>4, RegisteredStable
      <4>3. CredentialLogged(d, ceremonies, credentials, history)
        BY DEF LogMatchesTables, LogAgrees
      <4>4. /\ credentials'[d] = None <=> credentials[d] = None
            /\ credentials[d] # None => /\ credentials'[d].scope = credentials[d].scope
                                        /\ credentials'[d].rp = credentials[d].rp
        BY <3>5
      <4> QED BY <3>4, <4>1, <4>2, <4>3, <4>4, CredentialLogStable
    <3> QED BY <3>4, <3>6 DEF LogMatchesTables, LogAgrees
  <2>4. ASSUME NEW t \in Tokens, NEW code \in Codes, NEW state \in {"failed", "expired"},
               Pending(t), state = StateOf(ceremonies[t].kind, code),
               ceremonies' = [ceremonies EXCEPT ![t].state = state],
               Record(t, FinishEvent(ceremonies[t], None, code)),
               UNCHANGED credentials
        PROVE LogMatchesTables'
    <3> DEFINE done == [ceremonies[t] EXCEPT !.state = state]
    <3>1. ceremonies[t] \in Ceremony /\ ceremonies[t] # None
      BY <2>4 DEF Pending, TypeOK, CeremonyTable
    <3>2. ceremonies[t].state = "pending" /\ ceremonies[t].credential = None
      BY <2>4 DEF Pending, LogMatchesTables, LogAgrees, CeremonyLogged
    <3>3. /\ done \in Ceremony /\ done.kind = ceremonies[t].kind
          /\ done.scope = ceremonies[t].scope /\ done.state = state
          /\ done.credential = None
      BY <3>1, <3>2 DEF Ceremony, CeremonyStates
    <3>4. ceremonies' = [ceremonies EXCEPT ![t] = done]
      BY <2>4 DEF TypeOK, CeremonyTable
    <3> HIDE DEF done
    <3>5. /\ \A u \in Tokens : CeremonyLogged(ceremonies'[u], history'[u])
          /\ \A u \in Tokens \ {t} : ceremonies'[u] = ceremonies[u] /\ history'[u] = history[u]
          /\ \A d \in CredIds : history'[d] = history[d]
          /\ ceremonies'[t] = done
      <4>1. code # "ok" /\ None \in CredIds \cup {None} /\ code \in Codes \cup {"ok"}
        BY DEF Codes
      <4>2. ceremonies[t].kind = "authentication" =>
              done.credential = FinishEvent(ceremonies[t], None, code).credential
        BY <3>3, <4>1 DEF FinishEvent
      <4>3. done.state = StateOf(ceremonies[t].kind, code)
        BY <2>4, <3>3
      <4>4. Record(t, FinishEvent(ceremonies[t], None, code)) /\ Pending(t)
        BY <2>4
      <4> QED BY <3>3, <3>4, <4>1, <4>2, <4>3, <4>4, CompletionLogged
    <3>6. ASSUME NEW d \in CredIds
          PROVE CredentialLogged(d, ceremonies', credentials', history')
      <4>1. t \notin Registered(d, ceremonies, history)
        BY <3>2 DEF Registered
      <4>2. Registered(d, ceremonies', history') = Registered(d, ceremonies, history)
        BY <3>2, <3>3, <3>5, RegisteredStable
      <4>3. CredentialLogged(d, ceremonies, credentials, history)
        BY DEF LogMatchesTables, LogAgrees
      <4>4. credentials'[d] = credentials[d]
        BY <2>4
      <4> QED BY <3>5, <4>1, <4>2, <4>3, <4>4, CredentialLogStable
    <3> QED BY <3>5, <3>6 DEF LogMatchesTables, LogAgrees
  <2>5. ASSUME NEW t \in Tokens, NEW code \in Codes, Reject(t, code)
        PROVE LogMatchesTables'
    <3>1. ceremonies[t].kind \in Kinds
      BY <2>5 DEF Reject, Pending, TypeOK, CeremonyTable, Ceremony
    <3>2. StateOf(ceremonies[t].kind, code) = "failed"
      BY <2>5, <3>1 DEF Reject, StateOf, Invalid, Expired, Kinds
    <3> QED BY <2>4, <2>5, <3>2 DEF Reject
  <2>6. ASSUME NEW t \in Tokens, Expire(t)
        PROVE LogMatchesTables'
    <3>1. /\ Expired(ceremonies[t].kind) \in Codes
          /\ StateOf(ceremonies[t].kind, Expired(ceremonies[t].kind)) = "expired"
      BY DEF StateOf, Expired, Codes
    <3> QED BY <2>4, <2>6, <3>1 DEF Expire
  <2>7. ASSUME NEW c \in CredIds, Delete(c)
        PROVE LogMatchesTables'
    <3> DEFINE event == DeleteEvent(credentials[c].scope, c)
    <3>1. credentials[c] \in Credential /\ credentials[c] # None
      BY <2>7 DEF Delete, TypeOK, CredentialTable
    <3>2. \A d \in CredIds : CredentialLogged(d, ceremonies, credentials, history)
      BY DEF LogMatchesTables, LogAgrees
    <3>3. history[c] = <<>>
      BY <3>1, <3>2 DEF CredentialLogged
    <3>4. history'[c] = <<event>>
      BY <2>7, <3>3 DEF Delete, Record, TypeOK, HistoryTable
    <3>5. /\ \A t \in Tokens : ceremonies'[t] = ceremonies[t] /\ history'[t] = history[t]
          /\ \A d \in CredIds \ {c} : history'[d] = history[d] /\ credentials'[d] = credentials[d]
          /\ credentials'[c] = None
      BY <2>7, KeysAssumption DEF Delete, Record, TypeOK, HistoryTable, CredentialTable
    <3>6. \A d \in CredIds :
            Registered(d, ceremonies', history') = Registered(d, ceremonies, history)
      BY <3>5 DEF Registered
    <3>7. PICK t \in Registered(c, ceremonies, history) : ceremonies[t].scope = credentials[c].scope
      BY <3>1, <3>2 DEF CredentialLogged
    <3>8. t \in Tokens
      BY <3>7 DEF Registered
    <3>9. CredentialLogged(c, ceremonies', credentials', history')
      BY <3>2, <3>4, <3>5, <3>6, <3>7, <3>8 DEF CredentialLogged
    <3>10. ASSUME NEW d \in CredIds \ {c}
           PROVE CredentialLogged(d, ceremonies', credentials', history')
      <4>1. Registered(d, ceremonies, history) \subseteq Tokens
        BY DEF Registered
      <4> QED BY <3>2, <3>5, <3>6, <4>1 DEF CredentialLogged
    <3> QED BY <3>5, <3>9, <3>10 DEF LogMatchesTables, LogAgrees
  <2>8. ASSUME UNCHANGED tables
        PROVE LogMatchesTables'
    BY <2>8 DEF tables, LogMatchesTables
  <2> QED BY <2>1, <2>2, <2>3, <2>5, <2>6, <2>7, <2>8 DEF Next, Tick, vars, tables
<1> QED BY <1>1, <1>2, StoreTypeCorrect, PTL DEF Spec
-----------------------------------------------------------------------------
(* Completed ceremonies and deletions are final: no step enabled on them    *)
(* changes them, because every step needs a pending ceremony, a live        *)
(* credential or an identifier that was never registered.                   *)
THEOREM StoreTerminalIsFinal == Spec => TerminalIsFinal
<1>1. TypeOK /\ LogMatchesTables /\ [Next]_vars => [KeepsTerminal]_vars
  <2> SUFFICES ASSUME TypeOK, LogMatchesTables, Next PROVE KeepsTerminal
    BY DEF vars, KeepsTerminal
  <2>1. \A c \in CredIds : history[c] # <<>> =>
          credentials[c] = None
    BY DEF LogMatchesTables, LogAgrees, CredentialLogged
  <2> USE DEF TypeOK, CeremonyTable, CredentialTable, HistoryTable, Record, KeepsTerminal, Pending
  <2>2. ASSUME NEW t \in Tokens, NEW row, Start(t, row) PROVE KeepsTerminal
    BY <2>1, <2>2, KeysAssumption DEF Start
  <2>3. ASSUME NEW t \in Tokens, NEW c \in CredIds, NEW w, NEW n, Register(t, c, w, n)
        PROVE KeepsTerminal
    BY <2>1, <2>3, KeysAssumption DEF Register, NeverUsed
  <2>4. ASSUME NEW t \in Tokens, NEW c \in CredIds, NEW n, Authenticate(t, c, n)
        PROVE KeepsTerminal
    BY <2>1, <2>4, KeysAssumption DEF Authenticate
  <2>5. ASSUME NEW t \in Tokens, NEW code, Reject(t, code) PROVE KeepsTerminal
    BY <2>1, <2>5, KeysAssumption DEF Reject
  <2>6. ASSUME NEW t \in Tokens, Expire(t) PROVE KeepsTerminal
    BY <2>1, <2>6, KeysAssumption DEF Expire
  <2>7. ASSUME NEW c \in CredIds, Delete(c) PROVE KeepsTerminal
    BY <2>1, <2>7, KeysAssumption DEF Delete
  <2>8. CASE Tick
    BY <2>1, <2>8 DEF Tick, tables
  <2> QED BY <2>2, <2>3, <2>4, <2>5, <2>6, <2>7, <2>8 DEF Next
<1> QED BY <1>1, StoreTypeCorrect, StoreLogMatches, PTL DEF Spec, TerminalIsFinal

(* A counter moves only forward, and only by an authentication.             *)
THEOREM StoreCounterAdvances == Spec => CounterAdvances
<1>1. TypeOK /\ [Next]_vars => [CounterStep]_vars
  <2> SUFFICES ASSUME TypeOK, Next PROVE CounterStep
    BY DEF vars, CounterStep
  <2>1. ASSUME NEW t \in Tokens, NEW c \in CredIds, NEW n \in Counts, Authenticate(t, c, n)
        PROVE CounterStep
    <3>1. credentials[c] \in Credential
      BY <2>1 DEF Authenticate, TypeOK, CredentialTable
    <3>2. /\ credentials' = [credentials EXCEPT ![c] = [credentials[c] EXCEPT !.count = n]]
          /\ Pending(t) /\ Advances(credentials[c].count, n)
      BY <2>1 DEF Authenticate, TypeOK, CredentialTable
    <3>3. /\ credentials'[c].scope = credentials[c].scope
          /\ credentials'[c].rp = credentials[c].rp
          /\ credentials'[c].wid = credentials[c].wid
          /\ credentials'[c].count = n
          /\ \A d \in CredIds \ {c} : credentials'[d] = credentials[d]
      BY <3>1, <3>2 DEF Credential, TypeOK, CredentialTable
    <3>4. ceremonies[t] \in Ceremony
      BY <3>2 DEF Pending, TypeOK, CeremonyTable
    <3>5. ceremonies'[t] = [ceremonies[t] EXCEPT !.state = "succeeded", !.credential = c]
      BY <2>1 DEF Authenticate, TypeOK, CeremonyTable
    <3>6. ceremonies'[t].state = "succeeded" /\ ceremonies'[t].credential = c
      BY <3>4, <3>5 DEF Ceremony
    <3> QED BY <3>2, <3>3, <3>6 DEF CounterStep
  <2>2. ASSUME NEW t \in Tokens, NEW c \in CredIds, NEW w, NEW n, Register(t, c, w, n)
        PROVE CounterStep
    BY <2>2 DEF Register, NeverUsed, CounterStep, TypeOK, CredentialTable
  <2>3. ASSUME NEW c \in CredIds, Delete(c)
        PROVE CounterStep
    BY <2>3 DEF Delete, CounterStep, TypeOK, CredentialTable
  <2>4. ASSUME UNCHANGED credentials
        PROVE CounterStep
    BY <2>4 DEF CounterStep
  <2> QED BY <2>1, <2>2, <2>3, <2>4 DEF Next, Start, Reject, Expire, Tick, tables
<1> QED BY <1>1, StoreTypeCorrect, PTL DEF Spec, CounterAdvances
=============================================================================
