---------------------------- MODULE PasskeyServer --------------------------
(***************************************************************************)
(* Requests to several server nodes over one PostgreSQL database: the      *)
(* ceremony service, its repository's READ COMMITTED transactions, row and *)
(* advisory locks, unique-index waits, connection pools, and the failures  *)
(* a statement, a COMMIT or a whole node can meet.                         *)
(*                                                                         *)
(* A request slot is one handler goroutine: it is idle, takes a call,      *)
(* walks the statements of that call and is idle again with an answer.     *)
(* Statements' effects stay in tx until COMMIT applies them to the tables. *)
(***************************************************************************)
EXTENDS PasskeyData

CONSTANTS
    Requests,       \* request slots
    PoolSize        \* connections in each node's pgxpool

ASSUME PoolAssumption == PoolSize \in Nat \ {0}
ASSUME RequestsAssumption == None \notin Requests /\ IsFiniteSet(Requests)

VARIABLES
    ceremonies, credentials, history, clock,    \* as in PasskeyStore
    rowLock,        \* token -> request whose FOR UPDATE holds the row
    subjectLock,    \* advisory key -> request that holds it
    pc,             \* request -> the statement it runs next
    req,            \* request -> the call it serves, None when idle
    tx,             \* request -> what its transaction has read and written
    answer          \* request -> the last answer it gave

tables == <<ceremonies, credentials, history>>
locks == <<rowLock, subjectLock>>
vars == <<tables, clock, locks, pc, req, tx, answer>>

Store == INSTANCE PasskeyStore

-----------------------------------------------------------------------------
Request ==
    [op : {"start", "finish", "delete"}, kind : Kinds \cup {None}, node : Nodes,
     fp : Fingerprints, scope : Scopes \cup {None}, token : Tokens \cup {None},
     id : CredIds \cup {None}]
ASSUME RequestAssumption == None \notin Request

(* row: the ceremony as read or as it will be inserted; outcome: None until *)
(* the statement that decides it has run; id, value: the credential row to  *)
(* write; lockedAt: the time at which the subject lock was granted, which   *)
(* only properties read.                                                    *)
Transaction ==
    [row : Ceremony \cup {None}, outcome : Codes \cup {"ok", None},
     id : CredIds \cup {None}, value : Credential \cup {None}, lockedAt : Nat]
NoTx == [row |-> None, outcome |-> None, id |-> None, value |-> None, lockedAt |-> 0]

(* Past pool.Begin; and of these, where the handler has given up on the     *)
(* transaction, which the database has yet to end.                          *)
InTransaction == {"select", "lock", "check", "verify", "write", "delete",
                  "commit", "inDoubt", "rollback"}
Working == {"list", "begin"} \cup (InTransaction \ {"inDoubt", "rollback"})
PC == {"idle"} \cup Working \cup InTransaction

TypeOK ==
    /\ ceremonies \in CeremonyTable
    /\ credentials \in CredentialTable
    /\ history \in HistoryTable
    /\ clock \in Nat
    /\ rowLock \in [Tokens -> Requests \cup {None}]
    /\ subjectLock \in [LockKeys -> Requests \cup {None}]
    /\ pc \in [Requests -> PC]
    /\ req \in [Requests -> Request \cup {None}]
    /\ tx \in [Requests -> Transaction]
    /\ answer \in [Requests -> Codes \cup {"ok", None}]

Init ==
    /\ ceremonies = Seed.ceremonies
    /\ credentials = Seed.credentials
    /\ history = Seed.history
    /\ clock = 0
    /\ rowLock = [t \in Tokens |-> None]
    /\ subjectLock = [k \in LockKeys |-> None]
    /\ pc = [r \in Requests |-> "idle"]
    /\ req = [r \in Requests |-> None]
    /\ tx = [r \in Requests |-> NoTx]
    /\ answer = [r \in Requests |-> None]

-----------------------------------------------------------------------------
(* Who makes whom wait. *)

Goto(r, label) == pc' = [pc EXCEPT ![r] = label]
Answer(r, code) == answer' = [answer EXCEPT ![r] = code]

SubjectKey(r) ==
    LockKey[IF req[r].op = "delete" THEN req[r].scope ELSE tx[r].row.scope]

(* Requests whose handler works on a connection of node n. One that has     *)
(* given up is not counted: a broken or cancelled connection is closed and  *)
(* its slot filled anew, while the database may still hold the locks of its *)
(* transaction; a rollback on a sound connection gives the slot back when   *)
(* it ends, waits for nobody, and may as well have ended.                   *)
Connected(n) ==
    {q \in Requests : pc[q] \in Working \ {"list", "begin"} /\ req[q].node = n}
PoolWaits(r) ==
    IF Cardinality(Connected(req[r].node)) < PoolSize THEN {}
    ELSE Connected(req[r].node)

(* Faulty variant of each wait below: the statement takes no lock.          *)
NoWait(r) == {}

(* SELECT ... FOR UPDATE waits for the finish that has the ceremony's row.  *)
RowWaits(r) == {rowLock[req[r].token]} \ {None}

(* pg_advisory_xact_lock waits for the transaction that has the subject.    *)
SubjectWaits(r) == {subjectLock[SubjectKey(r)]} \ {None}

(* A row that a transaction has inserted, updated or deleted makes every    *)
(* other writer of that row, or of its (rp_id, webauthn_id), wait for the   *)
(* end of the transaction.  (A DELETE that names another application or     *)
(* subject would pass the row by; letting it wait adds chances of a cycle.) *)
Wrote(q) == tx[q].outcome = "ok" /\ tx[q].value # None
SameKey(v, w) == v.rp = w.rp /\ v.wid = w.wid
WriteWaits(r) ==
    {q \in Requests \ {r} : /\ Wrote(q)
                            /\ \/ tx[q].id = tx[r].id
                               \/ SameKey(tx[q].value, tx[r].value)}
DeleteWaits(r) ==
    {q \in Requests \ {r} : Wrote(q) /\ tx[q].id = req[r].id}

(* The requests one of which must end before r's next statement returns.    *)
(* Faulty variant: finish reads the credentials through the pool.           *)
BlockersPoolRead(r) ==
    {q \in Requests :
        \/ pc[r] \in {"list", "begin", "verify"} /\ q \in PoolWaits(r)
        \/ pc[r] = "select" /\ q \in RowWaits(r)
        \/ pc[r] = "lock" /\ q \in SubjectWaits(r)
        \/ pc[r] = "write" /\ q \in WriteWaits(r)
        \/ pc[r] = "delete" /\ q \in DeleteWaits(r)}
Blockers(r) ==
    {q \in Requests :
        \/ pc[r] \in {"list", "begin"} /\ q \in PoolWaits(r)
        \/ pc[r] = "select" /\ q \in RowWaits(r)
        \/ pc[r] = "lock" /\ q \in SubjectWaits(r)
        \/ pc[r] = "write" /\ q \in WriteWaits(r)
        \/ pc[r] = "delete" /\ q \in DeleteWaits(r)}

-----------------------------------------------------------------------------
(* Identifiers come from a cryptographic generator: one a request draws is  *)
(* in no table, in no history row and in no other call.                     *)
FreshTokens ==
    {t \in Tokens : /\ ceremonies[t] = None
                    /\ \A q \in Requests : req[q] # None => req[q].token # t}
FreshIds ==
    {c \in CredIds : /\ credentials[c] = None /\ history[c] = <<>>
                     /\ \A q \in Requests : req[q] # None => req[q].id # c}
(* Drawn by a call in flight: nobody can present these yet.                 *)
Serving(op) == {q \in Requests : req[q] # None /\ req[q].op = op}
DrawnTokens == {req[q].token : q \in Serving("start")}
DrawnIds == {req[q].id : q \in Serving("finish")}

Call(r, call) ==
    /\ Goto(r, IF call.op = "start" THEN "list" ELSE "begin")
    /\ req' = [req EXCEPT ![r] = call]
    /\ Answer(r, None)
    /\ UNCHANGED <<tables, clock, locks, tx>>

(* A call that does not reach the repository.                               *)
TurnedAway(r, code) ==
    /\ Answer(r, code)
    /\ UNCHANGED <<tables, clock, locks, pc, req, tx>>

(* decode, fingerprint, scope and the validation at the head of each        *)
(* service method.                                                          *)
CallRefused(r) ==
    /\ pc[r] = "idle"
    /\ \E code \in {"invalid_request", "forbidden"} : TurnedAway(r, code)

CallStart(r) ==
    /\ pc[r] = "idle"
    /\ \E n \in Nodes, k \in Kinds, s \in Scopes, fp \in Fingerprints :
         LET code == Authorize(n, App(s), fp) IN
         \/ /\ code = "ok"
            /\ \E t \in FreshTokens :
                 Call(r, [op |-> "start", kind |-> k, node |-> n, fp |-> fp,
                          scope |-> s, token |-> t, id |-> None])
         \/ code # "ok" /\ TurnedAway(r, code)

(* The caller presents a token it was given or any other; a registration    *)
(* draws the identifier its credential row will have.                       *)
CallFinish(r) ==
    /\ pc[r] = "idle"
    /\ \E n \in Nodes, k \in Kinds, fp \in Fingerprints,
          t \in Tokens \ DrawnTokens, c \in FreshIds \cup {None} :
         /\ (k = "registration") <=> (c # None)
         /\ Call(r, [op |-> "finish", kind |-> k, node |-> n, fp |-> fp,
                     scope |-> None, token |-> t, id |-> c])

CallDelete(r) ==
    /\ pc[r] = "idle"
    /\ \E n \in Nodes, s \in Scopes, fp \in Fingerprints,
          c \in CredIds \ DrawnIds :
         LET code == Authorize(n, App(s), fp) IN
         \/ code = "ok" /\ Call(r, [op |-> "delete", kind |-> None, node |-> n,
                                    fp |-> fp, scope |-> s, token |-> None, id |-> c])
         \/ code # "ok" /\ TurnedAway(r, code)

-----------------------------------------------------------------------------
(* How a call ends. *)

(* Both locks end with the transaction.  Faulty variant: the advisory lock  *)
(* belongs to the session, which the pool keeps.                            *)
ReleaseRowOnly(r) ==
    /\ rowLock' = [t \in Tokens |-> IF rowLock[t] = r THEN None ELSE rowLock[t]]
    /\ UNCHANGED subjectLock
Release(r) ==
    /\ rowLock' = [t \in Tokens |-> IF rowLock[t] = r THEN None ELSE rowLock[t]]
    /\ subjectLock' = [k \in LockKeys |->
                         IF subjectLock[k] = r THEN None ELSE subjectLock[k]]

(* The transaction is over in the database and the slot is free.            *)
End(r) ==
    /\ Goto(r, "idle")
    /\ req' = [req EXCEPT ![r] = None]
    /\ tx' = [tx EXCEPT ![r] = NoTx]
    /\ Release(r)

(* The handler answers without a transaction.                               *)
Leave(r, code) == Answer(r, code) /\ End(r) /\ UNCHANGED <<tables, clock>>

(* The handler gives up its transaction; the database has yet to roll it    *)
(* back (deferred rollback, or the server noticing a dead connection).      *)
Abort(r, code) ==
    /\ Answer(r, code)
    /\ Goto(r, "rollback")
    /\ UNCHANGED <<tables, clock, subjectLock, req, tx>>

(* The handler goes on to the statement "label" with tx[r] = x.             *)
Continue(r, label, x) ==
    /\ Goto(r, label)
    /\ tx' = [tx EXCEPT ![r] = x]
    /\ UNCHANGED <<tables, clock, req, answer>>

-----------------------------------------------------------------------------
(* Start. *)

CredentialsOf(scope) ==
    {c \in CredIds : credentials[c] # None /\ credentials[c].scope = scope}
(* makeWebAuthnUser hides the credentials of another relying party.         *)
Usable(scope, rp) == {c \in CredentialsOf(scope) : credentials[c].rp = rp}

(* The credentials a ceremony's session allows: webauthn.Begin.             *)
Offer(k, scope, rp) ==
    IF k = "registration" THEN {} ELSE {credentials[c].wid : c \in Usable(scope, rp)}

(* repository.Credentials through the pool, then webauthn.Begin, NewToken   *)
(* and the expiry time.  The library refuses to begin a login for a user    *)
(* without credentials of the relying party, and that is no public error.   *)
ListCredentials(r) ==
    /\ pc[r] = "list" /\ Blockers(r) = {}
    /\ LET scope == req[r].scope
           k == req[r].kind
           rp == Config[req[r].node][App(scope)].rp
           usable == Usable(scope, rp)
       IN
       \/ /\ k = "authentication" /\ CredentialsOf(scope) = {}
          /\ Leave(r, Invalid(k))
       \/ /\ k = "authentication" /\ CredentialsOf(scope) # {} /\ usable = {}
          /\ Leave(r, "internal_error")
       \/ /\ k = "registration" \/ usable # {}
          /\ Continue(r, "begin", [tx[r] EXCEPT !.row =
                NewCeremony(k, scope, rp, Offer(k, scope, rp), clock + TTL)])
          /\ UNCHANGED locks

(* pool.Begin, and for a start the two INSERTs, which wait for nobody.      *)
Begin(r) ==
    /\ pc[r] = "begin" /\ Blockers(r) = {}
    /\ \/ req[r].op = "start" /\ Continue(r, "commit", [tx[r] EXCEPT !.outcome = "ok"])
       \/ req[r].op = "finish" /\ Continue(r, "select", tx[r])
       \/ req[r].op = "delete" /\ Continue(r, "lock", tx[r])
    /\ UNCHANGED locks

-----------------------------------------------------------------------------
(* Finish. *)

Found(r) == LET row == ceremonies[req[r].token] IN row # None /\ row.kind = req[r].kind

(* What Finish answers once it has the row, "ok" to go on.  Faulty variant: *)
(* the state is inspected before the caller is authorized.                  *)
AdmitStateFirst(r, row) ==
    IF row.state # "pending" THEN "conflict"
    ELSE AuthorizeFinish(req[r].node, row, req[r].fp)
Admit(r, row) ==
    LET code == AuthorizeFinish(req[r].node, row, req[r].fp) IN
    IF code # "ok" THEN code
    ELSE IF row.state # "pending" THEN "conflict"
    ELSE "ok"

(* SELECT ... FOR UPDATE, authorize, and the test of the state.             *)
SelectForUpdate(r) ==
    /\ pc[r] = "select" /\ Blockers(r) = {}
    /\ LET row == ceremonies[req[r].token] IN
       \/ /\ ~Found(r)
          /\ Abort(r, NotFound(req[r].kind))
          /\ UNCHANGED rowLock
       \/ /\ Found(r)
          /\ rowLock' = [rowLock EXCEPT ![req[r].token] = r]
          /\ \/ /\ Admit(r, row) # "ok"
                /\ Abort(r, Admit(r, row))
             \/ /\ Admit(r, row) = "ok"
                /\ Continue(r, "lock", [tx[r] EXCEPT !.row = row])
                /\ UNCHANGED subjectLock

(* lockSubject, for Finish and Delete.                                      *)
LockSubject(r) ==
    /\ pc[r] = "lock" /\ Blockers(r) = {}
    /\ subjectLock' = [subjectLock EXCEPT ![SubjectKey(r)] = r]
    /\ Continue(r, IF req[r].op = "finish" THEN "check" ELSE "delete",
                [tx[r] EXCEPT !.lockedAt = clock])
    /\ UNCHANGED rowLock

(* SELECT clock_timestamp() and Ceremony.Check on the row read earlier.     *)
CheckExpiry(r) ==
    /\ pc[r] = "check"
    /\ LET outcome == Check(tx[r].row, clock) IN
       IF outcome = "ok" THEN Continue(r, "verify", tx[r])
       ELSE Continue(r, "commit", [tx[r] EXCEPT !.outcome = outcome])
    /\ UNCHANGED locks

(* readCredentials in the transaction, then WebAuthnAdapter.Verify.  Its    *)
(* cryptography, origin and session checks may reject any response; it      *)
(* accepts no credential the session did not allow or the reader did not    *)
(* return, and no counter that does not advance.                            *)
Verify(r) ==
    /\ pc[r] = "verify" /\ Blockers(r) = {}
    /\ LET row == tx[r].row IN
       \/ Continue(r, "commit", [tx[r] EXCEPT !.outcome = Invalid(row.kind)])
       \/ /\ row.kind = "registration"
          /\ \E w \in Authenticators, n \in Counts :
               Continue(r, "write", [tx[r] EXCEPT
                  !.id = req[r].id,
                  !.value = [scope |-> row.scope, rp |-> row.rp, wid |-> w, count |-> n]])
       \/ /\ row.kind = "authentication"
          /\ \E c \in Usable(row.scope, row.rp), n \in Counts :
               /\ credentials[c].wid \in row.allowed
               /\ Advances(credentials[c].count, n)
               /\ Continue(r, "write", [tx[r] EXCEPT
                     !.id = c, !.value = [credentials[c] EXCEPT !.count = n]])
    /\ UNCHANGED locks

(* INSERT ... ON CONFLICT DO NOTHING, or UPDATE ... WHERE id and scope and  *)
(* relying party match; no row affected is an outcome, not an error.        *)
WriteOutcome(x) ==
    IF x.row.kind = "registration" THEN
        IF \E c \in CredIds : credentials[c] # None /\ SameKey(credentials[c], x.value)
        THEN "conflict" ELSE "ok"
    ELSE IF x.id \in Usable(x.row.scope, x.row.rp) THEN "ok"
    ELSE Invalid(x.row.kind)

Write(r) ==
    /\ pc[r] = "write" /\ Blockers(r) = {}
    /\ Continue(r, "commit", [tx[r] EXCEPT !.outcome = WriteOutcome(tx[r])])
    /\ UNCHANGED locks

-----------------------------------------------------------------------------
(* Delete. *)

DeleteCredential(r) ==
    /\ pc[r] = "delete" /\ Blockers(r) = {}
    /\ \/ /\ req[r].id \in CredentialsOf(req[r].scope)
          /\ Continue(r, "commit", [tx[r] EXCEPT !.outcome = "ok", !.id = req[r].id,
                                                 !.value = credentials[req[r].id]])
          /\ UNCHANGED locks
       \/ /\ req[r].id \notin CredentialsOf(req[r].scope)
          /\ Abort(r, "credential_not_found")
          /\ UNCHANGED rowLock

-----------------------------------------------------------------------------
(* The end of a transaction. *)

(* The tables with r's transaction applied.  Faulty variant: only           *)
(* successful finishes are recorded in the history.                         *)
CeremoniesAfter(r) ==
    LET t == req[r].token
        x == tx[r]
    IN IF req[r].op = "start" THEN [ceremonies EXCEPT ![t] = x.row]
       ELSE IF req[r].op = "finish" THEN
         [ceremonies EXCEPT
            ![t].state = StateOf(x.row.kind, x.outcome),
            ![t].credential =
               IF x.row.kind = "authentication" /\ x.outcome = "ok" THEN x.id ELSE @]
       ELSE ceremonies

CredentialsAfter(r) ==
    IF Wrote(r)
    THEN [credentials EXCEPT ![tx[r].id] =
            IF req[r].op = "delete" THEN None ELSE tx[r].value]
    ELSE credentials

EventOf(r) ==
    IF req[r].op = "start" THEN StartEvent(tx[r].row)
    ELSE IF req[r].op = "finish" THEN FinishEvent(tx[r].row, tx[r].id, tx[r].outcome)
    ELSE DeleteEvent(req[r].scope, req[r].id)
About(r) == IF req[r].op = "delete" THEN req[r].id ELSE req[r].token
HistoryAfterSuccessOnly(r) ==
    IF tx[r].outcome = "ok"
    THEN [history EXCEPT ![About(r)] = Append(@, EventOf(r))] ELSE history
HistoryAfter(r) == [history EXCEPT ![About(r)] = Append(@, EventOf(r))]

Apply(r) ==
    /\ ceremonies' = CeremoniesAfter(r)
    /\ credentials' = CredentialsAfter(r)
    /\ history' = HistoryAfter(r)

(* COMMIT succeeds and the handler answers with the outcome.                *)
Commit(r) ==
    /\ pc[r] = "commit"
    /\ Apply(r)
    /\ Answer(r, tx[r].outcome)
    /\ End(r)
    /\ UNCHANGED clock

(* The connection breaks, or the request's deadline passes, while COMMIT is *)
(* on its way: the handler answers internal_error without knowing.          *)
CommitUnknown(r) ==
    /\ pc[r] = "commit"
    /\ Answer(r, "internal_error")
    /\ Goto(r, "inDoubt")
    /\ UNCHANGED <<tables, clock, locks, req, tx>>

(* The database commits the transaction in doubt, or rolls it back.         *)
Resolve(r) ==
    /\ pc[r] = "inDoubt"
    /\ Apply(r) \/ UNCHANGED tables
    /\ End(r)
    /\ UNCHANGED <<clock, answer>>

(* Any other statement fails: the 15 second deadline, a broken connection,  *)
(* a corrupt stored record, the crash of the node.                          *)
Fail(r) ==
    /\ pc[r] \in Working
    /\ \/ pc[r] \in {"list", "begin"} /\ Leave(r, "internal_error")
       \/ /\ pc[r] \notin {"list", "begin"}
          /\ Abort(r, "internal_error")
          /\ UNCHANGED rowLock

Rollback(r) ==
    /\ pc[r] = "rollback"
    /\ End(r)
    /\ UNCHANGED <<tables, clock, answer>>

Tick ==
    /\ clock < MaxTime
    /\ clock' = clock + 1
    /\ UNCHANGED <<tables, locks, pc, req, tx, answer>>

-----------------------------------------------------------------------------
CallArrives(r) == CallRefused(r) \/ CallStart(r) \/ CallFinish(r) \/ CallDelete(r)

(* The statements of a call, and its COMMIT. *)
Proceed(r) ==
    \/ ListCredentials(r) \/ Begin(r) \/ SelectForUpdate(r) \/ LockSubject(r)
    \/ CheckExpiry(r) \/ Verify(r) \/ Write(r) \/ DeleteCredential(r) \/ Commit(r)

Next ==
    \/ \E r \in Requests :
         \/ CallArrives(r) \/ Proceed(r)
         \/ Fail(r) \/ Rollback(r) \/ CommitUnknown(r) \/ Resolve(r)
    \/ Tick

Spec == Init /\ [][Next]_vars

(* The lock manager and the pool serve waiters in turn, hence strong        *)
(* fairness of a call's progress; the database finishes what is in doubt    *)
(* and rolls back what was abandoned.  Nothing is assumed of failures, of   *)
(* arrivals or of the clock.                                                *)
Fairness ==
    \A r \in Requests : SF_vars(Proceed(r)) /\ WF_vars(Rollback(r)) /\ WF_vars(Resolve(r))
FairSpec == Spec /\ Fairness

-----------------------------------------------------------------------------
(* The inductive invariant: what a request may rely on between two of its   *)
(* statements, whatever the others do.                                      *)

Op(r) == req[r].op
Deciding == {"check", "verify", "write", "delete", "commit", "inDoubt"}
AtCommit(r) == pc[r] \in {"commit", "inDoubt"}

(* The statements each operation runs, and the arguments it carries.        *)
Shape(r) ==
    /\ pc[r] = "idle" <=> req[r] = None
    /\ pc[r] \in {"idle", "list"} => tx[r] = NoTx
    /\ pc[r] # "idle" =>
         /\ Op(r) = "start" =>
              /\ pc[r] \in {"list", "begin", "commit", "inDoubt", "rollback"}
              /\ req[r].kind \in Kinds /\ req[r].scope \in Scopes
              /\ req[r].token \in Tokens /\ req[r].id = None
              /\ App(req[r].scope) \in DOMAIN Config[req[r].node]
         /\ Op(r) = "finish" =>
              /\ pc[r] \notin {"list", "delete"}
              /\ req[r].kind \in Kinds /\ req[r].token \in Tokens
              /\ (req[r].kind = "registration") <=> (req[r].id # None)
         /\ Op(r) = "delete" =>
              /\ pc[r] \in {"begin", "lock", "delete", "commit", "inDoubt", "rollback"}
              /\ req[r].scope \in Scopes /\ req[r].id \in CredIds
              /\ req[r].token = None

(* Row and subject locks belong to requests that are past taking them.      *)
LocksHeld ==
    /\ \A t \in Tokens : rowLock[t] # None =>
          pc[rowLock[t]] \in Deciding \cup {"lock", "rollback"}
    /\ \A k \in LockKeys : subjectLock[k] # None =>
          pc[subjectLock[k]] \in Deciding \cup {"rollback"}

(* A decision stands only in a transaction that is about to end.            *)
Undecided(r) ==
    pc[r] \notin {"commit", "inDoubt", "rollback"} => tx[r].outcome = None

(* A finish past its SELECT holds the ceremony's row, which is as it read   *)
(* it: pending.                                                             *)
HoldsRow(r) ==
    pc[r] \in {"lock"} \cup Deciding /\ Op(r) = "finish" =>
        LET t == req[r].token IN
        /\ rowLock[t] = r
        /\ tx[r].row # None /\ tx[r].row = ceremonies[t]
        /\ tx[r].row.kind = req[r].kind /\ tx[r].row.state = "pending"

(* A finish or deletion that decides holds its subject.                     *)
HoldsSubject(r) ==
    pc[r] \in Deciding /\ Op(r) # "start" => subjectLock[SubjectKey(r)] = r

(* A start inserts a ceremony under a token only it has drawn.              *)
StartReady(r) ==
    pc[r] \notin {"idle", "rollback"} /\ Op(r) = "start" =>
        /\ ceremonies[req[r].token] = None
        /\ tx[r].value = None
        /\ pc[r] # "list" =>
             /\ tx[r].row # None
             /\ tx[r].row = NewCeremony(req[r].kind, req[r].scope, tx[r].row.rp,
                                        tx[r].row.allowed, tx[r].row.expires)
             /\ tx[r].row.expires <= clock + TTL
        /\ AtCommit(r) => tx[r].outcome = "ok"

(* The value a registration will insert: nobody has its identifier, and,    *)
(* once inserted, nobody else has its key.                                  *)
Registering(r) == pc[r] # "idle" /\ Op(r) = "finish" /\ req[r].kind = "registration"
Inserted(r) == Registering(r) /\ AtCommit(r) /\ tx[r].outcome = "ok"

RegistrationReady(r) ==
    Registering(r) =>
        /\ credentials[req[r].id] = None /\ history[req[r].id] = <<>>
        /\ pc[r] = "write" \/ Inserted(r) =>
             /\ tx[r].id = req[r].id /\ tx[r].value # None
             /\ tx[r].value.scope = tx[r].row.scope /\ tx[r].value.rp = tx[r].row.rp
        /\ Inserted(r) =>
             \A d \in CredIds : credentials[d] # None => ~SameKey(credentials[d], tx[r].value)

(* The value an authentication will store continues the committed row.      *)
AuthenticationReady(r) ==
    /\ pc[r] # "idle" /\ Op(r) = "finish" /\ req[r].kind = "authentication"
    /\ pc[r] = "write" \/ (AtCommit(r) /\ tx[r].outcome = "ok")
    =>
    LET row == tx[r].row
        c == tx[r].id
    IN /\ c \in Usable(row.scope, row.rp)
       /\ credentials[c].wid \in row.allowed
       /\ tx[r].value # None
       /\ tx[r].value = [credentials[c] EXCEPT !.count = tx[r].value.count]
       /\ Advances(credentials[c].count, tx[r].value.count)

DeletionReady(r) ==
    AtCommit(r) /\ Op(r) = "delete" =>
        /\ tx[r].outcome = "ok" /\ tx[r].id = req[r].id
        /\ tx[r].id \in CredentialsOf(req[r].scope)
        /\ tx[r].value = credentials[tx[r].id]

(* What a finish may commit without success.                                *)
RejectionReady(r) ==
    AtCommit(r) /\ Op(r) = "finish" /\ tx[r].outcome # "ok" =>
        \/ tx[r].outcome = Invalid(req[r].kind)
        \/ tx[r].outcome = "conflict" /\ req[r].kind = "registration"
        \/ tx[r].outcome = Expired(req[r].kind) /\ clock >= tx[r].row.expires

(* Two requests never share a drawn token or identifier, nor the key of     *)
(* rows both have inserted.                                                 *)
Apart(q, r) ==
    /\ pc[r] # "idle" /\ Op(r) = "start" /\ pc[q] # "idle" => req[q].token # req[r].token
    /\ Registering(r) /\ pc[q] # "idle" => req[q].id # req[r].id
    /\ Inserted(q) /\ Inserted(r) => ~SameKey(tx[q].value, tx[r].value)

Prepared(r) ==
    /\ Shape(r) /\ Undecided(r)
    /\ HoldsRow(r) /\ HoldsSubject(r)
    /\ StartReady(r) /\ RegistrationReady(r) /\ AuthenticationReady(r)
    /\ DeletionReady(r) /\ RejectionReady(r)

IInv ==
    /\ TypeOK
    /\ LocksHeld
    /\ \A r \in Requests : Prepared(r)
    /\ \A q, r \in Requests : q # r => Apart(q, r)

-----------------------------------------------------------------------------
(* At most one credential row per authenticator credential and relying      *)
(* party: scopes that share neither subject lock nor ceremony race to       *)
(* INSERT, and the unique index decides.                                    *)
OneOwnerPerAuthenticator == Store!OneOwnerPerAuthenticator

(* Ceremonies, credentials and history agree after every commit, in the     *)
(* middle of every race and after every failure.                            *)
LogMatchesTables == Store!LogMatchesTables

(* Concurrent and repeated finishes never reopen or rewrite a completed     *)
(* ceremony, and nothing brings a deleted credential back.                  *)
TerminalIsFinal == Store!TerminalIsFinal

(* Two authentications of one credential, started independently, cannot     *)
(* lose a counter update.                                                   *)
CounterAdvances == Store!CounterAdvances

(* Every behaviour of the nodes, seen at the tables, is a behaviour of the  *)
(* repository's atomic promise.                                             *)
ImplementsStore == Store!Spec

(* Waiting requests never form a cycle: every set of busy requests has one  *)
(* that waits for nobody in the set.  Pool connections count, so a request  *)
(* that holds a connection must never need another.                         *)
NoWaitCycle ==
    \A S \in SUBSET Requests : S # {} => \E r \in S : Blockers(r) \cap S = {}

(* A ceremony whose lifetime ended while its finisher waited for the row or *)
(* the subject lock does not succeed.                                       *)
NoLateSuccess ==
    \A r \in Requests :
        pc[r] \in {"commit", "inDoubt"} /\ req[r].op = "finish" /\ tx[r].outcome = "ok"
          => tx[r].lockedAt < tx[r].row.expires

(* The step in which a handler answers. *)
Answering(r) == pc[r] \in Working /\ pc'[r] \in {"idle", "rollback"}

(* An answer is the truth about the tables at the moment it is given: a     *)
(* success or a failed outcome was committed by this very request, a        *)
(* conflict says that the ceremony is used, and a request that is turned    *)
(* away leaves every table alone.                                           *)
AnswersAreTrue ==
    [][\A r \in Requests : Answering(r) =>
         LET t == req[r].token
             a == answer'[r]
             k == req[r].kind
             was == ceremonies[t].state
             is == ceremonies'[t].state
         IN /\ req[r].op = "start" /\ a = "ok" =>
                 ceremonies[t] = None /\ ceremonies'[t] # None /\ is = "pending"
            /\ req[r].op = "finish" =>
                 /\ a = "ok" => was = "pending" /\ is = "succeeded"
                 /\ a = "conflict" => is # "pending"
                 /\ a = Expired(k) => was = "pending" /\ is = "expired"
                 /\ a = Invalid(k) => (was = "pending" /\ is = "failed") \/ UNCHANGED tables
            /\ req[r].op = "delete" =>
                 /\ a = "ok" => credentials[req[r].id] # None
                                  /\ credentials'[req[r].id] = None
                 /\ a = "credential_not_found" =>
                      req[r].id \notin CredentialsOf(req[r].scope)
            /\ a \in {"forbidden", "application_not_found", "internal_error",
                      NotFound("registration"), NotFound("authentication"),
                      "credential_not_found"} => UNCHANGED tables]_vars

(* "Authorization must run before inspecting state or consuming the         *)
(* ceremony": a finish that is not authorized for the ceremony's            *)
(* application learns nothing of its state and changes nothing.             *)
AuthorizationFirst ==
    [][\A r \in Requests :
         Answering(r) /\ req[r].op = "finish" /\ Found(r) =>
           LET code == AuthorizeFinish(req[r].node, ceremonies[req[r].token], req[r].fp)
           IN code # "ok" => answer'[r] \in {code, "internal_error"} /\ UNCHANGED tables]_vars

(* Documented: an infrastructure failure during finish does not consume the *)
(* ceremony, it rolls back credential, ceremony and history together.       *)
InfraFailureDoesNotConsume ==
    [][\A r \in Requests :
         pc[r] # "idle" /\ req[r].op = "finish" /\ answer[r] = "internal_error"
           /\ pc'[r] # pc[r] => UNCHANGED tables]_vars

(* Every call ends, with all its locks released: no failure or abandoned    *)
(* transaction makes the others wait for ever.                              *)
EveryCallEnds == \A r \in Requests : []<>(pc[r] = "idle")
=============================================================================
