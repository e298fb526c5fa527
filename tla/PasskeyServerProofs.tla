------------------------ MODULE PasskeyServerProofs ------------------------
(***************************************************************************)
(* Proofs about PasskeyServer: the inductive invariant IInv, what the calls *)
(* are entitled to, and that the servers implement PasskeyStore.           *)
(***************************************************************************)
EXTENDS PasskeyServer, TLAPS

-----------------------------------------------------------------------------
(* Waiting.  A request that waits for another stands at an earlier stage of *)
(* the order in which all operations take their resources.                  *)

Rank(label) ==
    IF label \in {"idle", "list", "begin"} THEN 0
    ELSE IF label = "select" THEN 1
    ELSE IF label = "lock" THEN 2
    ELSE IF label \in {"check", "verify", "write", "delete"} THEN 3
    ELSE 4

(* The advisory key of a request that needs its subject is a lock key.      *)
LEMMA KeyOfSubject ==
    ASSUME IInv, NEW r \in Requests, pc[r] \in {"lock"} \cup Deciding, Op(r) # "start"
    PROVE  SubjectKey(r) \in LockKeys
<1>1. req[r] \in Request BY DEF IInv, TypeOK, Prepared, Shape, Deciding
<1>2. Op(r) \in {"finish", "delete"} BY <1>1 DEF Op, Request
<1>3. (IF req[r].op = "delete" THEN req[r].scope ELSE tx[r].row.scope) \in Scopes
  <2>1. CASE Op(r) = "delete" BY <2>1 DEF IInv, Prepared, Shape, Op, Deciding
  <2>2. CASE Op(r) = "finish"
    <3>1. tx[r].row # None BY <2>2 DEF IInv, Prepared, HoldsRow
    <3>2. tx[r].row \in Ceremony BY <3>1 DEF IInv, TypeOK, Transaction
    <3> QED BY <2>2, <3>2 DEF Op, Ceremony
  <2> QED BY <1>2, <2>1, <2>2
<1> QED BY <1>3, LockKeyAssumption DEF SubjectKey

(* Whoever a busy request waits for is strictly further in the order pool   *)
(* connection, row lock, subject lock, written row.                         *)
LEMMA WaitsClimb ==
    ASSUME IInv, NEW r \in Requests, NEW q \in Blockers(r)
    PROVE  q \in Requests /\ Rank(pc[r]) < Rank(pc[q])
<1>1. q \in Requests BY DEF Blockers
<1>2. pc[r] \in PC /\ pc[q] \in PC BY <1>1 DEF IInv, TypeOK
<1>3. CASE pc[r] \in {"list", "begin"}
  <2>1. q \in Connected(req[r].node) BY <1>3 DEF Blockers, PoolWaits
  <2> QED BY <1>3, <2>1, <1>1 DEF Connected, Working, InTransaction, Rank
<1>4. CASE pc[r] = "select"
  <2>1. q = rowLock[req[r].token] /\ q # None BY <1>4 DEF Blockers, RowWaits
  <2>2. req[r] \in Request BY <1>4 DEF IInv, TypeOK, Prepared, Shape
  <2>3. Op(r) = "finish" BY <1>4, <2>2 DEF IInv, Prepared, Shape, Op, Request
  <2>4. req[r].token \in Tokens BY <1>4, <2>3 DEF IInv, Prepared, Shape
  <2>5. pc[q] \in Deciding \cup {"lock", "rollback"}
    BY <2>1, <2>4 DEF IInv, LocksHeld
  <2> QED BY <1>4, <2>5, <1>1 DEF Deciding, Rank
<1>5. CASE pc[r] = "lock"
  <2>1. q = subjectLock[SubjectKey(r)] /\ q # None BY <1>5 DEF Blockers, SubjectWaits
  <2>2. req[r] \in Request BY <1>5 DEF IInv, TypeOK, Prepared, Shape
  <2>3. Op(r) \in {"finish", "delete"} BY <1>5, <2>2 DEF IInv, Prepared, Shape, Op, Request
  <2>5. SubjectKey(r) \in LockKeys BY <1>5, <2>3, KeyOfSubject
  <2>6. pc[q] \in Deciding \cup {"rollback"} BY <2>1, <2>5 DEF IInv, LocksHeld
  <2> QED BY <1>5, <2>6, <1>1 DEF Deciding, Rank
<1>6. CASE pc[r] \in {"write", "delete"}
  <2>1. Wrote(q) BY <1>6 DEF Blockers, WriteWaits, DeleteWaits
  <2>2. tx[q].outcome # None BY <2>1, NoneAssumption DEF Wrote
  <2>3. pc[q] \in {"commit", "inDoubt", "rollback"} BY <2>2, <1>1 DEF IInv, Prepared, Undecided
  <2> QED BY <1>6, <2>3, <1>1 DEF Rank
<1> QED BY <1>3, <1>4, <1>5, <1>6 DEF Blockers

(* In any set of requests the ones that have come furthest wait for nobody  *)
(* in the set.                                                              *)
LEMMA NobodyWaitsInACycle == IInv => NoWaitCycle
<1> SUFFICES ASSUME IInv, NEW S \in SUBSET Requests, S # {}
             PROVE  \E r \in S : Blockers(r) \cap S = {}
  BY DEF NoWaitCycle
<1> DEFINE At(i) == {r \in S : Rank(pc[r]) = i}
<1>1. \A r \in S : Rank(pc[r]) \in 0..4 BY DEF Rank
<1>2. ASSUME NEW i \in 0..4, NEW r \in At(i),
             \A j \in 0..4 : j > i => At(j) = {}
      PROVE  Blockers(r) \cap S = {}
  <2> SUFFICES ASSUME NEW q \in Blockers(r), q \in S PROVE FALSE OBVIOUS
  <2>1. r \in Requests BY <1>2
  <2>2. Rank(pc[r]) < Rank(pc[q]) BY <2>1, WaitsClimb
  <2> QED BY <1>1, <1>2, <2>2
<1>3. \E i \in 0..4 : At(i) # {} /\ \A j \in 0..4 : j > i => At(j) = {}
  <2>1. PICK r \in S : TRUE OBVIOUS
  <2>2. At(Rank(pc[r])) # {} BY <2>1
  <2>3. \E i \in {0, 1, 2, 3, 4} : At(i) # {} BY <2>2, <1>1
  <2> HIDE DEF At
  <2> QED BY <2>3
<1>4. PICK i \in 0..4 : At(i) # {} /\ \A j \in 0..4 : j > i => At(j) = {}
  BY <1>3
<1>5. PICK r \in At(i) : TRUE BY <1>4
<1>6. Blockers(r) \cap S = {} BY <1>2, <1>4, <1>5
<1> QED BY <1>5, <1>6

-----------------------------------------------------------------------------
(* What a request relies on does not depend on what the others do, as long  *)
(* as its locks stay and the tables do not change.                          *)

Same(q) == pc'[q] = pc[q] /\ req'[q] = req[q] /\ tx'[q] = tx[q]
KeepsLocks(q) ==
    /\ \A t \in Tokens : rowLock[t] = q => rowLock'[t] = q
    /\ \A k \in LockKeys : subjectLock[k] = q => subjectLock'[k] = q

(* A request whose own entries and locks stay is prepared after any step    *)
(* that changes no table and turns back no clock.                           *)
LEMMA Frame ==
    ASSUME IInv, NEW q \in Requests, Same(q), KeepsLocks(q), UNCHANGED tables,
           clock' \in Nat, clock <= clock'
    PROVE  Prepared(q)'
<1> USE DEF Same, tables
<1>0. Prepared(q) /\ clock \in Nat BY DEF IInv, TypeOK
<1>t. req[q] \in Request \cup {None} /\ tx[q] \in Transaction BY DEF IInv, TypeOK
<1>r. tx[q].row # None => tx[q].row \in Ceremony BY <1>t DEF Transaction
<1>1. Shape(q)' BY <1>0 DEF Prepared, Shape, Op
<1>2. Undecided(q)' BY <1>0 DEF Prepared, Undecided
<1>3. HoldsRow(q)'
  <2> SUFFICES ASSUME pc[q] \in {"lock"} \cup Deciding, Op(q) = "finish"
               PROVE  HoldsRow(q)'
    BY DEF HoldsRow, Op
  <2>1. req[q].token \in Tokens BY <1>0 DEF Prepared, Shape, Deciding
  <2> QED BY <1>0, <2>1 DEF Prepared, HoldsRow, Op, KeepsLocks
<1>4. HoldsSubject(q)'
  <2> SUFFICES ASSUME pc[q] \in Deciding, Op(q) # "start"
               PROVE  subjectLock'[SubjectKey(q)] = q
    BY DEF HoldsSubject, Op, SubjectKey
  <2>1. SubjectKey(q) \in LockKeys BY KeyOfSubject
  <2> QED BY <1>0, <2>1 DEF Prepared, HoldsSubject, KeepsLocks
<1>5. StartReady(q)'
  BY <1>0, <1>r, TTLAssumption DEF Prepared, StartReady, Op, AtCommit, Ceremony
<1>6. RegistrationReady(q)'
  BY <1>0 DEF Prepared, RegistrationReady, Registering, Inserted, Op, AtCommit
<1>7. AuthenticationReady(q)'
  BY <1>0 DEF Prepared, AuthenticationReady, Op, AtCommit, Usable, CredentialsOf
<1>8. DeletionReady(q)'
  BY <1>0 DEF Prepared, DeletionReady, Op, AtCommit, CredentialsOf
<1>9. RejectionReady(q)'
  <2>1. AtCommit(q) /\ Op(q) = "finish" => tx[q].row \in Ceremony
    BY <1>0, <1>r DEF Prepared, HoldsRow, AtCommit, Deciding
  <2> QED BY <1>0, <2>1 DEF Prepared, RejectionReady, Op, AtCommit, Ceremony
<1> QED BY <1>1, <1>2, <1>3, <1>4, <1>5, <1>6, <1>7, <1>8, <1>9 DEF Prepared

(* The steps of a request that leave the tables alone: it is enough to look *)
(* at the request itself and at its pairs.                                  *)
Alone(r) ==
    /\ \A q \in Requests \ {r} : Same(q) /\ KeepsLocks(q)
    /\ \A t \in Tokens : rowLock'[t] # r => rowLock'[t] \in {rowLock[t], None}
    /\ \A k \in LockKeys : subjectLock'[k] # r => subjectLock'[k] \in {subjectLock[k], None}
    /\ \A t \in Tokens : rowLock'[t] = r =>
          pc'[r] \in Deciding \cup {"lock", "rollback"}
    /\ \A k \in LockKeys : subjectLock'[k] = r => pc'[r] \in Deciding \cup {"rollback"}

ApartFrom(r) == \A q \in Requests \ {r} : Apart(q, r)' /\ Apart(r, q)'

(* Locks stay with requests past taking them when only r moves. *)
LEMMA LocksHeldAlone ==
    ASSUME IInv, TypeOK', NEW r \in Requests, Alone(r)
    PROVE  LocksHeld'
<1>1. ASSUME NEW t \in Tokens, rowLock'[t] # None
      PROVE  pc'[rowLock'[t]] \in Deciding \cup {"lock", "rollback"}
  <2>1. CASE rowLock'[t] = r BY <2>1 DEF Alone
  <2>2. CASE rowLock'[t] # r
    <3>1. rowLock'[t] = rowLock[t] BY <1>1, <2>2 DEF Alone
    <3>2. rowLock'[t] \in Requests \ {r} BY <1>1, <2>2 DEF TypeOK
    <3>3. pc'[rowLock'[t]] = pc[rowLock[t]] BY <3>1, <3>2 DEF Alone, Same
    <3> QED BY <1>1, <3>1, <3>3 DEF IInv, LocksHeld
  <2> QED BY <2>1, <2>2
<1>2. ASSUME NEW k \in LockKeys, subjectLock'[k] # None
      PROVE  pc'[subjectLock'[k]] \in Deciding \cup {"rollback"}
  <2>1. CASE subjectLock'[k] = r BY <2>1 DEF Alone
  <2>2. CASE subjectLock'[k] # r
    <3>1. subjectLock'[k] = subjectLock[k] BY <1>2, <2>2 DEF Alone
    <3>2. subjectLock'[k] \in Requests \ {r} BY <1>2, <2>2 DEF TypeOK
    <3>3. pc'[subjectLock'[k]] = pc[subjectLock[k]] BY <3>1, <3>2 DEF Alone, Same
    <3> QED BY <1>2, <3>1, <3>3 DEF IInv, LocksHeld
  <2> QED BY <2>1, <2>2
<1> QED BY <1>1, <1>2 DEF LocksHeld

(* Pairs without r are as apart as before when only r moves. *)
LEMMA ApartOthers ==
    ASSUME IInv, NEW r \in Requests, \A q \in Requests \ {r} : Same(q), ApartFrom(r)
    PROVE  \A p, q \in Requests : p # q => Apart(p, q)'
<1>1. ASSUME NEW p \in Requests, NEW q \in Requests, p # q
      PROVE  Apart(p, q)'
  <2>1. CASE p = r \/ q = r BY <1>1, <2>1 DEF ApartFrom
  <2>2. CASE p # r /\ q # r
    <3>1. Same(p) /\ Same(q) BY <2>2
    <3>2. Apart(p, q) BY <1>1 DEF IInv
    <3> QED BY <3>1, <3>2 DEF Apart, Same, Registering, Inserted, Op, AtCommit
  <2> QED BY <2>1, <2>2
<1> QED BY <1>1

(* A step of r that leaves tables and clock alone keeps the invariant if it *)
(* keeps what concerns r.                                                   *)
LEMMA StepAlone ==
    ASSUME IInv, NEW r \in Requests, UNCHANGED <<tables, clock>>, Alone(r),
           TypeOK', Prepared(r)', ApartFrom(r)
    PROVE  IInv'
<1>1. LocksHeld' BY LocksHeldAlone
<1>2. \A p, q \in Requests : p # q => Apart(p, q)' BY ApartOthers DEF Alone
<1>3. ASSUME NEW q \in Requests PROVE Prepared(q)'
  <2>1. CASE q = r BY <2>1
  <2>2. CASE q # r
    <3>1. Same(q) /\ KeepsLocks(q) BY <2>2 DEF Alone
    <3>2. clock' \in Nat /\ clock <= clock' /\ UNCHANGED tables BY DEF IInv, TypeOK
    <3> QED BY <3>1, <3>2, Frame
  <2> QED BY <2>1, <2>2
<1> QED BY <1>1, <1>2, <1>3 DEF IInv

(* A step within a call inserts nothing new unless it decides an INSERT.    *)
LEMMA ApartWithin ==
    ASSUME IInv, NEW r \in Requests, \A q \in Requests \ {r} : Same(q),
           pc[r] # "idle", req'[r] = req[r],
           Inserted(r)' => Inserted(r) /\ tx'[r].value = tx[r].value
    PROVE  ApartFrom(r)
<1> SUFFICES ASSUME NEW q \in Requests \ {r} PROVE Apart(q, r)' /\ Apart(r, q)'
  BY DEF ApartFrom
<1>1. Apart(q, r) /\ Apart(r, q) BY DEF IInv
<1>2. Same(q) OBVIOUS
<1>3. (Registering(r)' => Registering(r)) /\ (Registering(q)' => Registering(q))
  BY <1>2 DEF Same, Registering, Op
<1>4. Inserted(q)' => Inserted(q) BY <1>2 DEF Same, Inserted, Registering, Op, AtCommit
<1> QED BY <1>1, <1>2, <1>3, <1>4 DEF Same, Apart, Op

(* An idle request shares nothing with anybody. *)
LEMMA ApartIdle ==
    ASSUME NEW r \in Requests, pc'[r] = "idle"
    PROVE  ApartFrom(r)
BY DEF ApartFrom, Apart, Registering, Inserted

(* An idle request relies on nothing. *)
LEMMA PreparedIdle ==
    ASSUME NEW r \in Requests, pc'[r] = "idle", req'[r] = None, tx'[r] = NoTx
    PROVE  Prepared(r)'
<1>1. (tx'[r]).outcome = None BY DEF NoTx
<1> QED BY <1>1 DEF Prepared, Shape, Undecided, HoldsRow, HoldsSubject, StartReady,
       RegistrationReady, Registering, Inserted, AuthenticationReady, DeletionReady,
       RejectionReady, AtCommit, Deciding

(* The empty transaction is a transaction. *)
LEMMA NoTxType == NoTx \in Transaction
BY DEF NoTx, Transaction

-----------------------------------------------------------------------------
(* One lemma for each way a call moves on without touching the tables. *)

(* The transaction ends and its locks are released. *)
LEMMA EndKeeps ==
    ASSUME IInv, NEW r \in Requests, End(r), UNCHANGED <<tables, clock>>,
           answer' \in [Requests -> Codes \cup {"ok", None}]
    PROVE  IInv'
<1> USE DEF End, Goto, Release
<1>1. TypeOK BY DEF IInv
<1>2. TypeOK' BY <1>1, NoTxType DEF TypeOK, tables, PC
<1>3. pc'[r] = "idle" /\ req'[r] = None /\ tx'[r] = NoTx BY <1>1 DEF TypeOK
<1>4. Alone(r)
  <2>1. \A q \in Requests \ {r} : Same(q) BY <1>1 DEF TypeOK, Same
  <2>2. \A q \in Requests \ {r} : KeepsLocks(q) BY DEF KeepsLocks
  <2>3. \A t \in Tokens : rowLock'[t] # r /\ rowLock'[t] \in {rowLock[t], None}
    BY RequestsAssumption
  <2>4. \A k \in LockKeys : subjectLock'[k] # r /\ subjectLock'[k] \in {subjectLock[k], None}
    BY RequestsAssumption
  <2> QED BY <2>1, <2>2, <2>3, <2>4 DEF Alone
<1> QED BY <1>2, <1>3, <1>4, ApartIdle, PreparedIdle, StepAlone

(* The handler leaves its transaction to be rolled back. *)
LEMMA AbortKeeps ==
    ASSUME IInv, NEW r \in Requests, NEW code \in Codes, Abort(r, code),
           pc[r] \notin {"idle", "list"},
           \/ UNCHANGED rowLock
           \/ \E t \in Tokens : rowLock[t] \in {None, r} /\ rowLock' = [rowLock EXCEPT ![t] = r]
    PROVE  IInv'
<1> USE DEF Abort, Goto, Answer
<1>1. TypeOK BY DEF IInv
<1>2. TypeOK' BY <1>1 DEF TypeOK, tables, PC, InTransaction
<1>3. pc'[r] = "rollback" /\ req'[r] = req[r] /\ tx'[r] = tx[r] BY <1>1 DEF TypeOK
<1>4. Alone(r)
  <2>1. \A q \in Requests \ {r} : Same(q) BY <1>1 DEF TypeOK, Same
  <2>2. \A q \in Requests \ {r} : KeepsLocks(q)
    BY <1>1, RequestsAssumption DEF TypeOK, KeepsLocks
  <2>3. \A t \in Tokens : rowLock'[t] # r => rowLock'[t] \in {rowLock[t], None}
    BY <1>1 DEF TypeOK
  <2> QED BY <1>3, <2>1, <2>2, <2>3 DEF Alone
<1>5. ApartFrom(r) BY <1>3, <1>4, ApartWithin DEF Alone, Inserted, AtCommit
<1>6. Prepared(r)'
  <2>1. Prepared(r) BY DEF IInv
  <2>2. Shape(r)' BY <1>3, <2>1 DEF Prepared, Shape, Op
  <2>3. RegistrationReady(r)'
    BY <1>3, <2>1 DEF Prepared, RegistrationReady, Registering, Inserted, AtCommit, Op, tables
  <2> QED BY <1>3, <2>2, <2>3 DEF Prepared, Undecided, HoldsRow, HoldsSubject, StartReady,
         AuthenticationReady, DeletionReady, RejectionReady, AtCommit, Deciding
<1> QED BY <1>2, <1>4, <1>5, <1>6, StepAlone

(* The handler goes on to its next statement, holding what it held. *)
LEMMA ContinueKeeps ==
    ASSUME IInv, NEW r \in Requests, NEW label \in PC \ {"idle"}, NEW x \in Transaction,
           Continue(r, label, x), UNCHANGED locks, pc[r] # "idle",
           label \in Deciding \/ pc[r] \in {"list", "begin"},
           Prepared(r)', ApartFrom(r)
    PROVE  IInv'
<1> USE DEF Continue, Goto, locks
<1>1. TypeOK BY DEF IInv
<1>2. TypeOK' BY <1>1 DEF TypeOK, tables
<1>3. pc'[r] = label BY <1>1 DEF TypeOK
<1>4. Alone(r)
  <2>1. \A q \in Requests \ {r} : Same(q) BY <1>1 DEF TypeOK, Same
  <2>2. \A q \in Requests \ {r} : KeepsLocks(q) BY DEF KeepsLocks
  <2>3. ASSUME NEW t \in Tokens, rowLock[t] = r
        PROVE  label \in Deciding \cup {"lock", "rollback"}
    <3>1. pc[r] \notin {"list", "begin"}
      BY <2>3, RequestsAssumption DEF IInv, LocksHeld, Deciding
    <3> QED BY <3>1
  <2>4. ASSUME NEW k \in LockKeys, subjectLock[k] = r
        PROVE  label \in Deciding \cup {"rollback"}
    <3>1. pc[r] \notin {"list", "begin"}
      BY <2>4, RequestsAssumption DEF IInv, LocksHeld, Deciding
    <3> QED BY <3>1
  <2> QED BY <1>3, <2>1, <2>2, <2>3, <2>4 DEF Alone
<1> QED BY <1>2, <1>4, StepAlone

-----------------------------------------------------------------------------
(* The actions. *)

LEMMA CallKeeps ==
    ASSUME IInv, NEW r \in Requests, NEW call \in Request, pc[r] = "idle", Call(r, call),
           Prepared(r)', ApartFrom(r)
    PROVE  IInv'
<1> USE DEF Call, Goto, Answer
<1>1. TypeOK BY DEF IInv
<1>2. TypeOK' BY <1>1 DEF TypeOK, tables, locks, PC, Working
<1>4. Alone(r)
  <2>1. \A q \in Requests \ {r} : Same(q) BY <1>1 DEF TypeOK, Same
  <2>2. \A q \in Requests \ {r} : KeepsLocks(q) BY DEF KeepsLocks, locks
  <2>3. \A t \in Tokens : rowLock[t] # r
    BY RequestsAssumption DEF IInv, LocksHeld, Deciding
  <2>4. \A k \in LockKeys : subjectLock[k] # r
    BY RequestsAssumption DEF IInv, LocksHeld, Deciding
  <2> QED BY <2>1, <2>2, <2>3, <2>4 DEF Alone, locks
<1> QED BY <1>2, <1>4, StepAlone

(* A call that never reaches the repository moves nobody. *)
LEMMA TurnedAwayKeeps ==
    ASSUME IInv, NEW r \in Requests, NEW code \in Codes, TurnedAway(r, code)
    PROVE  IInv'
<1> USE DEF TurnedAway, Answer, tables, locks
<1>1. TypeOK' BY DEF IInv, TypeOK
<1>2. LocksHeld' BY DEF IInv, LocksHeld
<1>3. \A q \in Requests : Prepared(q)'
  <2> SUFFICES ASSUME NEW q \in Requests PROVE Prepared(q)' OBVIOUS
  <2>1. Same(q) /\ KeepsLocks(q) BY DEF Same, KeepsLocks
  <2>2. clock' \in Nat /\ clock <= clock' BY DEF IInv, TypeOK
  <2> QED BY <2>1, <2>2, Frame
<1>4. \A p, q \in Requests : p # q => Apart(p, q)'
  BY DEF IInv, Apart, Registering, Inserted, Op, AtCommit
<1> QED BY <1>1, <1>2, <1>3, <1>4 DEF IInv

(* A configured application's relying party, and the codes a caller that is *)
(* not authorized gets.                                                     *)
LEMMA ConfiguredRP ==
    ASSUME NEW n \in Nodes, NEW app \in DOMAIN Config[n]
    PROVE  Config[n][app].rp \in RPs
<1>1. Config[n] \in UNION {[S -> [rp : RPs, clients : SUBSET Fingerprints \ {{}}]] :
                             S \in SUBSET Apps \ {{}}}
  BY ConfigAssumption DEF ConfigOK
<1>2. PICK S : Config[n] \in [S -> [rp : RPs, clients : SUBSET Fingerprints \ {{}}]]
  BY <1>1
<1>3. Config[n][app] \in [rp : RPs, clients : SUBSET Fingerprints \ {{}}] BY <1>2
<1> QED BY <1>3

(* A request slot serves a call exactly while it is not idle. *)
LEMMA IdleRequest ==
    ASSUME IInv, NEW r \in Requests
    PROVE  /\ pc[r] = "idle" <=> req[r] = None
           /\ pc[r] # "idle" => req[r] \in Request
           /\ pc[r] \in {"idle", "list"} => tx[r] = NoTx
BY DEF IInv, TypeOK, Prepared, Shape

(* A start draws a token nobody else has. *)
LEMMA CallStartKeeps ==
    ASSUME IInv, NEW r \in Requests, CallStart(r)
    PROVE  IInv'
<1>1. pc[r] = "idle" BY DEF CallStart
<1>2. PICK n \in Nodes, k \in Kinds, s \in Scopes, fp \in Fingerprints :
        LET code == Authorize(n, App(s), fp) IN
         \/ /\ code = "ok"
            /\ \E t \in FreshTokens :
                 Call(r, [op |-> "start", kind |-> k, node |-> n, fp |-> fp,
                          scope |-> s, token |-> t, id |-> None])
         \/ code # "ok" /\ TurnedAway(r, code)
  BY DEF CallStart
<1>3. CASE Authorize(n, App(s), fp) # "ok"
  <2>1. Authorize(n, App(s), fp) \in Codes BY <1>3 DEF Authorize, Codes
  <2> QED BY <1>2, <1>3, <2>1, TurnedAwayKeeps
<1>4. CASE Authorize(n, App(s), fp) = "ok"
  <2>1. PICK t \in FreshTokens :
           Call(r, [op |-> "start", kind |-> k, node |-> n, fp |-> fp,
                    scope |-> s, token |-> t, id |-> None])
    BY <1>2, <1>4
  <2> DEFINE call == [op |-> "start", kind |-> k, node |-> n, fp |-> fp,
                      scope |-> s, token |-> t, id |-> None]
  <2>2. call \in Request BY <2>1 DEF Request, FreshTokens
  <2>3. /\ call.op = "start" /\ call.kind = k /\ call.node = n /\ call.scope = s
        /\ call.token = t /\ call.id = None
    OBVIOUS
  <2>4. Call(r, call) BY <2>1
  <2> HIDE DEF call
  <2>5. /\ pc'[r] = "list" /\ req'[r] = call /\ tx'[r] = NoTx
        /\ \A q \in Requests \ {r} : Same(q)
    BY <1>1, <2>3, <2>4, IdleRequest DEF Call, Goto, IInv, TypeOK, Same
  <2>6. t \in Tokens /\ ceremonies[t] = None
        /\ \A q \in Requests : pc[q] # "idle" => req[q].token # t
    BY <2>1, IdleRequest DEF FreshTokens
  <2>7. Prepared(r)'
    <3>1. Shape(r)'
      <4>1. App(s) \in DOMAIN Config[n] BY <1>4 DEF Authorize
      <4>2. call # None BY <2>2, RequestAssumption
      <4> QED BY <2>3, <2>5, <2>6, <4>1, <4>2 DEF Shape, Op
    <3>2. StartReady(r)'
      BY <2>3, <2>4, <2>5, <2>6 DEF StartReady, AtCommit, Call, tables, NoTx
    <3>3. (tx'[r]).outcome = None BY <2>5 DEF NoTx
    <3> QED BY <2>3, <2>5, <3>1, <3>2, <3>3 DEF Prepared, Undecided, HoldsRow, HoldsSubject,
          RegistrationReady, Registering, AuthenticationReady, DeletionReady,
          RejectionReady, AtCommit, Deciding, Op
  <2>8. ApartFrom(r)
    <3> SUFFICES ASSUME NEW q \in Requests \ {r} PROVE Apart(q, r)' /\ Apart(r, q)'
      BY DEF ApartFrom
    <3>1. pc'[q] = pc[q] /\ req'[q] = req[q] BY <2>5 DEF Same
    <3>2. ~Inserted(r)' /\ ~Registering(r)'
      BY <2>3, <2>5 DEF Inserted, Registering, Op
    <3>3. Registering(q)' => req[q].id # None
      BY <3>1 DEF IInv, Prepared, Shape, Registering, Op
    <3> QED BY <2>3, <2>5, <2>6, <3>1, <3>2, <3>3 DEF Apart, Op
  <2> QED BY <1>1, <2>2, <2>4, <2>7, <2>8, CallKeeps
<1> QED BY <1>3, <1>4

(* A finish presents a token that no running start has drawn, and a         *)
(* registration draws an identifier nobody else has.                        *)
LEMMA CallFinishKeeps ==
    ASSUME IInv, NEW r \in Requests, CallFinish(r)
    PROVE  IInv'
<1>1. pc[r] = "idle" BY DEF CallFinish
<1>2. PICK n \in Nodes, k \in Kinds, fp \in Fingerprints,
           t \in Tokens \ DrawnTokens, c \in FreshIds \cup {None} :
        /\ (k = "registration") <=> (c # None)
        /\ Call(r, [op |-> "finish", kind |-> k, node |-> n, fp |-> fp,
                    scope |-> None, token |-> t, id |-> c])
  BY DEF CallFinish
<1> DEFINE call == [op |-> "finish", kind |-> k, node |-> n, fp |-> fp,
                    scope |-> None, token |-> t, id |-> c]
<1>3. call \in Request BY <1>2 DEF Request, FreshIds
<1>4. /\ call.op = "finish" /\ call.kind = k /\ call.node = n
      /\ call.token = t /\ call.id = c
  OBVIOUS
<1>5. Call(r, call) BY <1>2
<1>6. (k = "registration") <=> (c # None) BY <1>2
<1> HIDE DEF call
<1>7. /\ pc'[r] = "begin" /\ req'[r] = call /\ tx'[r] = tx[r] /\ tx[r] = NoTx
      /\ \A q \in Requests \ {r} : Same(q)
  BY <1>1, <1>4, <1>5, IdleRequest DEF Call, Goto, IInv, TypeOK, Same
<1>8. \A q \in Requests : pc[q] # "idle" /\ Op(q) = "start" => req[q].token # t
  BY IdleRequest DEF DrawnTokens, Serving, Op
<1>9. c # None =>
        /\ credentials[c] = None /\ history[c] = <<>>
        /\ \A q \in Requests : pc[q] # "idle" => req[q].id # c
  BY IdleRequest DEF FreshIds
<1>10. Prepared(r)'
  <2>1. Shape(r)'
    <3>1. call # None BY <1>3, RequestAssumption
    <3> QED BY <1>4, <1>6, <1>7, <3>1 DEF Shape, Op
  <2>2. RegistrationReady(r)'
    BY <1>4, <1>5, <1>6, <1>7, <1>9
    DEF RegistrationReady, Registering, Inserted, AtCommit, Call, tables, Op
  <2>3. (tx'[r]).outcome = None BY <1>7 DEF NoTx
  <2> QED BY <1>4, <1>7, <2>1, <2>2, <2>3 DEF Prepared, Undecided, HoldsRow, HoldsSubject,
        StartReady, AuthenticationReady, DeletionReady, RejectionReady, AtCommit, Deciding, Op
<1>11. ApartFrom(r)
  <2> SUFFICES ASSUME NEW q \in Requests \ {r} PROVE Apart(q, r)' /\ Apart(r, q)'
    BY DEF ApartFrom
  <2>1. pc'[q] = pc[q] /\ req'[q] = req[q] BY <1>7 DEF Same
  <2>2. ~Inserted(r)' BY <1>7 DEF Inserted, AtCommit
  <2>3. Registering(q)' => req[q].id # None
    BY <2>1 DEF IInv, Prepared, Shape, Registering, Op
  <2>4. Registering(r)' => c # None BY <1>4, <1>6, <1>7 DEF Registering, Op
  <2>5. Registering(q)' => pc[q] # "idle" BY <2>1 DEF Registering
  <2>6. Apart(q, r)' BY <1>4, <1>7, <1>9, <2>1, <2>2, <2>4 DEF Apart, Op
  <2>7. Apart(r, q)' BY <1>4, <1>7, <1>8, <1>9, <2>1, <2>2, <2>3, <2>5 DEF Apart, Op
  <2> QED BY <2>6, <2>7
<1> QED BY <1>1, <1>3, <1>5, <1>10, <1>11, CallKeeps

(* A deletion names an identifier that no running registration has drawn. *)
LEMMA CallDeleteKeeps ==
    ASSUME IInv, NEW r \in Requests, CallDelete(r)
    PROVE  IInv'
<1>1. pc[r] = "idle" BY DEF CallDelete
<1>2. PICK n \in Nodes, s \in Scopes, fp \in Fingerprints, c \in CredIds \ DrawnIds :
        LET code == Authorize(n, App(s), fp) IN
         \/ code = "ok" /\ Call(r, [op |-> "delete", kind |-> None, node |-> n,
                                    fp |-> fp, scope |-> s, token |-> None, id |-> c])
         \/ code # "ok" /\ TurnedAway(r, code)
  BY DEF CallDelete
<1>3. CASE Authorize(n, App(s), fp) # "ok"
  <2>1. Authorize(n, App(s), fp) \in Codes BY <1>3 DEF Authorize, Codes
  <2> QED BY <1>2, <1>3, <2>1, TurnedAwayKeeps
<1>4. CASE Authorize(n, App(s), fp) = "ok"
  <2> DEFINE call == [op |-> "delete", kind |-> None, node |-> n,
                      fp |-> fp, scope |-> s, token |-> None, id |-> c]
  <2>1. call \in Request BY DEF Request
  <2>2. /\ call.op = "delete" /\ call.scope = s /\ call.token = None /\ call.id = c
    OBVIOUS
  <2>3. Call(r, call) BY <1>2, <1>4
  <2> HIDE DEF call
  <2>4. /\ pc'[r] = "begin" /\ req'[r] = call /\ tx'[r] = tx[r] /\ tx[r] = NoTx
        /\ \A q \in Requests \ {r} : Same(q)
    BY <1>1, <2>2, <2>3, IdleRequest DEF Call, Goto, IInv, TypeOK, Same
  <2>5. \A q \in Requests : pc[q] # "idle" /\ Op(q) = "finish" => req[q].id # c
    BY IdleRequest DEF DrawnIds, Serving, Op
  <2>6. Prepared(r)'
    <3>1. call # None BY <2>1, RequestAssumption
    <3>2. Shape(r)' BY <2>2, <2>4, <3>1 DEF Shape, Op
    <3>3. (tx'[r]).outcome = None BY <2>4 DEF NoTx
    <3> QED BY <2>2, <2>4, <3>2, <3>3 DEF Prepared, Undecided, HoldsRow, HoldsSubject,
          StartReady, RegistrationReady, Registering, AuthenticationReady, DeletionReady,
          RejectionReady, AtCommit, Deciding, Op
  <2>7. ApartFrom(r)
    <3> SUFFICES ASSUME NEW q \in Requests \ {r} PROVE Apart(q, r)' /\ Apart(r, q)'
      BY DEF ApartFrom
    <3>1. pc'[q] = pc[q] /\ req'[q] = req[q] BY <2>4 DEF Same
    <3>2. ~Inserted(r)' /\ ~Registering(r)'
      BY <2>2, <2>4 DEF Inserted, Registering, Op
    <3>3. pc[q] # "idle" /\ Op(q) = "start" => req[q].token \in Tokens
      BY DEF IInv, Prepared, Shape, Op
    <3>4. None \notin Tokens BY NoneAssumption
    <3>5. Registering(q)' => pc[q] # "idle" /\ Op(q) = "finish"
      BY <3>1 DEF Registering, Op
    <3>6. Apart(q, r)' BY <2>2, <2>4, <3>1, <3>2 DEF Apart, Op
    <3>7. Apart(r, q)' BY <2>2, <2>4, <2>5, <3>1, <3>2, <3>3, <3>4, <3>5 DEF Apart, Op
    <3> QED BY <3>6, <3>7
  <2> QED BY <1>1, <2>1, <2>3, <2>6, <2>7, CallKeeps
<1> QED BY <1>3, <1>4

(* Arrivals of every kind. *)
LEMMA CallArrivesKeeps ==
    ASSUME IInv, NEW r \in Requests, CallArrives(r)
    PROVE  IInv'
<1>1. CASE CallRefused(r)
  <2>1. PICK code \in {"invalid_request", "forbidden"} : TurnedAway(r, code)
    BY <1>1 DEF CallRefused
  <2>2. code \in Codes BY DEF Codes
  <2> QED BY <2>1, <2>2, TurnedAwayKeeps
<1> QED BY <1>1, CallStartKeeps, CallFinishKeeps, CallDeleteKeeps DEF CallArrives

(* The effect of Continue on the request's own variables. *)
LEMMA Continued ==
    ASSUME IInv, NEW r \in Requests, NEW label, NEW x, Continue(r, label, x)
    PROVE  /\ pc'[r] = label /\ req'[r] = req[r] /\ tx'[r] = x
           /\ UNCHANGED <<tables, clock>>
           /\ \A q \in Requests \ {r} : Same(q)
BY DEF Continue, Goto, IInv, TypeOK, Same

(* Kind's error constants are public codes and no success. *)
LEMMA InvalidCode == \A k \in Kinds :
    /\ Invalid(k) \in Codes /\ Expired(k) \in Codes /\ NotFound(k) \in Codes
    /\ Invalid(k) # "ok" /\ Expired(k) # "ok"
BY DEF Kinds, Invalid, Expired, NotFound, Codes

(* A start's read of the credentials, and the ceremony it prepares from     *)
(* them.                                                                    *)
LEMMA ListCredentialsKeeps ==
    ASSUME IInv, NEW r \in Requests, ListCredentials(r)
    PROVE  IInv'
<1> DEFINE scope == req[r].scope
           k == req[r].kind
           rp == Config[req[r].node][App(scope)].rp
           row == NewCeremony(k, scope, rp, Offer(k, scope, rp), clock + TTL)
           x == [tx[r] EXCEPT !.row = row]
<1>1. pc[r] = "list" BY DEF ListCredentials
<1>2. req[r] \in Request /\ tx[r] = NoTx BY <1>1, IdleRequest
<1>3. Op(r) = "start" BY <1>1, <1>2 DEF IInv, Prepared, Shape, Op, Request
<1>4. /\ k \in Kinds /\ scope \in Scopes /\ req[r].token \in Tokens /\ req[r].id = None
      /\ App(scope) \in DOMAIN Config[req[r].node]
  BY <1>1, <1>3 DEF IInv, Prepared, Shape
<1>5. CASE \E code \in {Invalid(k), "internal_error"} : Leave(r, code)
  <2>1. PICK code \in {Invalid(k), "internal_error"} : Leave(r, code) BY <1>5
  <2>2. code \in Codes BY <1>4, InvalidCode DEF Codes
  <2>3. answer' \in [Requests -> Codes \cup {"ok", None}]
    BY <2>1, <2>2 DEF Leave, Answer, IInv, TypeOK
  <2> QED BY <2>1, <2>3, EndKeeps DEF Leave
<1>6. CASE Continue(r, "begin", x) /\ UNCHANGED locks
  <2>1. rp \in RPs BY <1>2, <1>4, ConfiguredRP DEF Request
  <2>2. Offer(k, scope, rp) \in SUBSET Authenticators
    BY DEF Offer, Usable, CredentialsOf, IInv, TypeOK, CredentialTable, Credential
  <2>3. clock + TTL \in Nat BY TTLAssumption DEF IInv, TypeOK
  <2>4. row \in Ceremony
    BY <1>4, <2>1, <2>2, <2>3 DEF NewCeremony, Ceremony, CeremonyStates
  <2>5. /\ row.kind = k /\ row.scope = scope
        /\ row = NewCeremony(k, scope, row.rp, row.allowed, row.expires)
        /\ row.expires = clock + TTL
    BY DEF NewCeremony
  <2> HIDE DEF row
  <2>6. x \in Transaction /\ x.row = row /\ x.outcome = None /\ x.value = None
    BY <1>2, <2>4, NoTxType DEF Transaction, NoTx
  <2> HIDE DEF x
  <2>7. /\ pc'[r] = "begin" /\ req'[r] = req[r] /\ tx'[r] = x
        /\ UNCHANGED <<tables, clock>>
        /\ \A q \in Requests \ {r} : Same(q)
    BY <1>6, Continued
  <2>8. ApartFrom(r)
    BY <1>1, <2>7, ApartWithin DEF Inserted, AtCommit
  <2>9. Prepared(r)'
    <3>1. Shape(r)' BY <1>1, <1>3, <2>7 DEF IInv, Prepared, Shape, Op
    <3>2. row # None BY <2>4, NoneAssumption
    <3>3. clock' + TTL = row.expires BY <2>5, <2>7
    <3>4. ceremonies'[req[r].token] = None
      BY <1>1, <1>3, <2>7 DEF IInv, Prepared, StartReady, tables
    <3>5. row.expires <= clock' + TTL BY <2>3, <2>5, <2>7
    <3>6. StartReady(r)'
      BY <1>1, <2>5, <2>6, <2>7, <3>2, <3>4, <3>5 DEF StartReady, AtCommit
    <3> QED BY <1>3, <2>6, <2>7, <3>1, <3>6 DEF Prepared, Undecided, HoldsRow, HoldsSubject,
          RegistrationReady, Registering, AuthenticationReady, DeletionReady,
          RejectionReady, AtCommit, Deciding, Op
  <2>10. "begin" \in PC \ {"idle"} BY DEF PC, Working
  <2> QED BY <1>1, <1>6, <2>6, <2>8, <2>9, <2>10, ContinueKeeps
<1> QED BY <1>5, <1>6 DEF ListCredentials

(* pool.Begin, and the INSERTs of a start. *)
LEMMA BeginKeeps ==
    ASSUME IInv, NEW r \in Requests, Begin(r)
    PROVE  IInv'
<1>1. pc[r] = "begin" /\ UNCHANGED locks BY DEF Begin
<1>2. tx[r] \in Transaction /\ Prepared(r) BY DEF IInv, TypeOK
<1>3. tx[r].outcome = None BY <1>1, <1>2 DEF Prepared, Undecided
<1>4. {"commit", "select", "lock"} \subseteq PC \ {"idle"} BY DEF PC, Working, InTransaction
<1>5. CASE Op(r) = "start" /\ Continue(r, "commit", [tx[r] EXCEPT !.outcome = "ok"])
  <2> DEFINE x == [tx[r] EXCEPT !.outcome = "ok"]
  <2>1. x \in Transaction /\ x.outcome = "ok" /\ x.row = tx[r].row /\ x.value = tx[r].value
    BY <1>2 DEF Transaction
  <2>2. Continue(r, "commit", x) BY <1>5
  <2> HIDE DEF x
  <2>3. /\ pc'[r] = "commit" /\ req'[r] = req[r] /\ tx'[r] = x
        /\ UNCHANGED <<tables, clock>>
        /\ \A q \in Requests \ {r} : Same(q)
    BY <2>2, Continued
  <2>4. ApartFrom(r)
    BY <1>1, <1>5, <2>3, ApartWithin DEF Inserted, Registering, Op
  <2>5. Prepared(r)'
    <3>1. Shape(r)' BY <1>1, <1>2, <1>5, <2>3 DEF Prepared, Shape, Op
    <3>2. StartReady(r)'
      BY <1>1, <1>2, <1>5, <2>1, <2>3 DEF Prepared, StartReady, AtCommit, Op, tables
    <3> QED BY <1>5, <2>1, <2>3, <3>1, <3>2 DEF Prepared, Undecided, HoldsRow, HoldsSubject,
          RegistrationReady, Registering, AuthenticationReady, DeletionReady,
          RejectionReady, AtCommit, Deciding, Op
  <2> QED BY <1>1, <1>4, <2>1, <2>2, <2>4, <2>5, ContinueKeeps DEF Deciding
<1>6. ASSUME NEW label \in {"select", "lock"}, Continue(r, label, tx[r]),
             \/ Op(r) = "finish" /\ label = "select"
             \/ Op(r) = "delete" /\ label = "lock"
      PROVE  IInv'
  <2>1. /\ pc'[r] = label /\ req'[r] = req[r] /\ tx'[r] = tx[r]
        /\ UNCHANGED <<tables, clock>>
        /\ \A q \in Requests \ {r} : Same(q)
    BY <1>6, Continued
  <2>2. ApartFrom(r)
    BY <1>1, <1>6, <2>1, ApartWithin DEF Inserted, AtCommit
  <2>3. Prepared(r)'
    <3>1. Shape(r)' BY <1>1, <1>2, <1>6, <2>1 DEF Prepared, Shape, Op
    <3>2. RegistrationReady(r)'
      BY <1>1, <1>2, <1>6, <2>1
      DEF Prepared, RegistrationReady, Registering, Inserted, AtCommit, Op, tables
    <3> QED BY <1>3, <1>6, <2>1, <3>1, <3>2 DEF Prepared, Undecided, HoldsRow, HoldsSubject,
          StartReady, AuthenticationReady, DeletionReady,
          RejectionReady, AtCommit, Deciding, Op
  <2> QED BY <1>1, <1>2, <1>4, <1>6, <2>2, <2>3, ContinueKeeps
<1> QED BY <1>5, <1>6 DEF Begin, Op

(* The callback of Finish answers a public code or ok. *)
LEMMA AuthorizeFinishCodes ==
    ASSUME NEW n \in Nodes, NEW row \in Ceremony, NEW fp \in Fingerprints
    PROVE  AuthorizeFinish(n, row, fp) \in Codes \cup {"ok"}
<1>1. row.kind \in Kinds BY DEF Ceremony
<1> QED BY <1>1, InvalidCode DEF AuthorizeFinish, Authorize, Codes

(* SELECT ... FOR UPDATE gives the row to a request when nobody holds it. *)
LEMMA SelectForUpdateKeeps ==
    ASSUME IInv, NEW r \in Requests, SelectForUpdate(r)
    PROVE  IInv'
<1> DEFINE t == req[r].token
           row == ceremonies[t]
           x == [tx[r] EXCEPT !.row = row]
<1>1. pc[r] = "select" /\ Blockers(r) = {} BY DEF SelectForUpdate
<1>2. TypeOK /\ Prepared(r) /\ req[r] \in Request BY <1>1, IdleRequest DEF IInv
<1>3. Op(r) = "finish" BY <1>1, <1>2 DEF Prepared, Shape, Op, Request
<1>4. t \in Tokens /\ req[r].kind \in Kinds BY <1>1, <1>2, <1>3 DEF Prepared, Shape
<1>5. rowLock[t] = None
  <2>1. rowLock[t] \in Requests \cup {None} BY <1>2, <1>4 DEF TypeOK
  <2>2. rowLock[t] \in Requests => rowLock[t] \in Blockers(r)
    BY <1>1, RequestsAssumption DEF Blockers, RowWaits
  <2> QED BY <1>1, <2>1, <2>2
<1>6. CASE ~Found(r) /\ Abort(r, NotFound(req[r].kind)) /\ UNCHANGED rowLock
  BY <1>1, <1>4, <1>6, InvalidCode, AbortKeeps
<1>7. ASSUME Found(r) PROVE row \in Ceremony /\ row.kind = req[r].kind
  BY <1>2, <1>4, <1>7 DEF Found, TypeOK, CeremonyTable
<1>8. CASE /\ Found(r)
           /\ rowLock' = [rowLock EXCEPT ![t] = r]
           /\ Admit(r, row) # "ok" /\ Abort(r, Admit(r, row))
  <2>1. req[r].node \in Nodes /\ req[r].fp \in Fingerprints BY <1>2 DEF Request
  <2>2. AuthorizeFinish(req[r].node, row, req[r].fp) \in Codes \cup {"ok"}
    BY <1>7, <1>8, <2>1, AuthorizeFinishCodes
  <2>3. Admit(r, row) \in Codes BY <1>8, <2>2 DEF Admit, Codes
  <2> QED BY <1>1, <1>4, <1>5, <1>8, <2>3, AbortKeeps
<1>9. CASE /\ Found(r)
           /\ rowLock' = [rowLock EXCEPT ![t] = r]
           /\ Admit(r, row) = "ok" /\ Continue(r, "lock", x)
           /\ UNCHANGED subjectLock
  <2>1. x \in Transaction /\ x.row = row /\ x.outcome = tx[r].outcome
    BY <1>2, <1>7, <1>9 DEF TypeOK, Transaction
  <2>2. row.state = "pending" BY <1>9 DEF Admit
  <2> HIDE DEF x
  <2>3. /\ pc'[r] = "lock" /\ req'[r] = req[r] /\ tx'[r] = x
        /\ UNCHANGED <<tables, clock>>
        /\ \A q \in Requests \ {r} : Same(q)
    BY <1>9, Continued
  <2>4. TypeOK'
    BY <1>2, <1>4, <1>9, <2>1 DEF Continue, Goto, TypeOK, tables, PC, Working, InTransaction
  <2>5. \A s \in Tokens : rowLock'[s] = IF s = t THEN r ELSE rowLock[s]
    BY <1>2, <1>9 DEF TypeOK
  <2>6. \A k \in LockKeys : subjectLock[k] # r
    BY <1>1, RequestsAssumption DEF IInv, LocksHeld, Deciding
  <2>7. Alone(r)
    <3>1. \A q \in Requests \ {r} : KeepsLocks(q)
      BY <1>5, <1>9, <2>5, RequestsAssumption DEF KeepsLocks
    <3> QED BY <1>9, <2>3, <2>5, <2>6, <3>1 DEF Alone
  <2>8. ApartFrom(r)
    BY <1>1, <2>3, ApartWithin DEF Inserted, AtCommit
  <2>9. Prepared(r)'
    <3>1. Shape(r)' BY <1>1, <1>2, <1>3, <2>3 DEF Prepared, Shape, Op
    <3>2. HoldsRow(r)'
      <4>1. rowLock'[t] = r BY <1>4, <2>5
      <4>2. row # None BY <1>9 DEF Found
      <4> QED BY <1>7, <1>9, <2>1, <2>2, <2>3, <4>1, <4>2 DEF HoldsRow, tables
    <3>3. RegistrationReady(r)'
      BY <1>1, <1>2, <2>3
      DEF Prepared, RegistrationReady, Registering, Inserted, AtCommit, Op, tables
    <3>4. x.outcome = None BY <1>1, <1>2, <2>1 DEF Prepared, Undecided
    <3> QED BY <1>3, <2>3, <3>1, <3>2, <3>3, <3>4 DEF Prepared, Undecided, HoldsSubject,
          StartReady, AuthenticationReady, DeletionReady, RejectionReady, AtCommit,
          Deciding, Op
  <2> QED BY <2>3, <2>4, <2>7, <2>8, <2>9, StepAlone
<1> QED BY <1>6, <1>8, <1>9 DEF SelectForUpdate

(* The advisory lock goes to a request when nobody holds its key. *)
LEMMA LockSubjectKeeps ==
    ASSUME IInv, NEW r \in Requests, LockSubject(r)
    PROVE  IInv'
<1> DEFINE key == SubjectKey(r)
           label == IF req[r].op = "finish" THEN "check" ELSE "delete"
           x == [tx[r] EXCEPT !.lockedAt = clock]
<1>1. /\ pc[r] = "lock" /\ Blockers(r) = {} /\ UNCHANGED rowLock
      /\ subjectLock' = [subjectLock EXCEPT ![key] = r]
      /\ Continue(r, label, x)
  BY DEF LockSubject
<1>2. TypeOK /\ Prepared(r) /\ req[r] \in Request BY <1>1, IdleRequest DEF IInv
<1>3. Op(r) \in {"finish", "delete"} BY <1>1, <1>2 DEF Prepared, Shape, Op, Request
<1>4. key \in LockKeys BY <1>1, <1>3, KeyOfSubject
<1>5. subjectLock[key] = None
  <2>1. subjectLock[key] \in Requests \cup {None} BY <1>2, <1>4 DEF TypeOK
  <2>2. subjectLock[key] \in Requests => subjectLock[key] \in Blockers(r)
    BY <1>1, RequestsAssumption DEF Blockers, SubjectWaits
  <2> QED BY <1>1, <2>1, <2>2
<1>6. /\ x \in Transaction /\ x.row = tx[r].row /\ x.outcome = tx[r].outcome
      /\ x.value = tx[r].value /\ x.id = tx[r].id
  BY <1>2 DEF TypeOK, Transaction
<1> HIDE DEF x
<1>7. /\ pc'[r] = label /\ req'[r] = req[r] /\ tx'[r] = x
      /\ UNCHANGED <<tables, clock>>
      /\ \A q \in Requests \ {r} : Same(q)
  BY <1>1, Continued
<1>8. label \in {"check", "delete"} OBVIOUS
<1>9. TypeOK'
  BY <1>1, <1>2, <1>4, <1>6, <1>8
  DEF Continue, Goto, TypeOK, tables, PC, Working, InTransaction
<1>10. \A k \in LockKeys : subjectLock'[k] = IF k = key THEN r ELSE subjectLock[k]
  BY <1>1, <1>2 DEF TypeOK
<1>11. Alone(r)
  <2>1. \A q \in Requests \ {r} : KeepsLocks(q)
    BY <1>1, <1>5, <1>10, RequestsAssumption DEF KeepsLocks
  <2> QED BY <1>1, <1>7, <1>8, <1>10, <2>1 DEF Alone, Deciding
<1>12. ApartFrom(r)
  BY <1>1, <1>7, <1>8, ApartWithin DEF Inserted, AtCommit
<1>13. Prepared(r)'
  <2>1. Shape(r)' BY <1>1, <1>2, <1>3, <1>7 DEF Prepared, Shape, Op
  <2>2. HoldsRow(r)'
    BY <1>1, <1>2, <1>3, <1>6, <1>7 DEF Prepared, HoldsRow, Op, tables
  <2>3. HoldsSubject(r)'
    BY <1>4, <1>6, <1>7, <1>10 DEF HoldsSubject, SubjectKey
  <2>4. RegistrationReady(r)'
    BY <1>1, <1>2, <1>7, <1>8
    DEF Prepared, RegistrationReady, Registering, Inserted, AtCommit, Op, tables
  <2>5. x.outcome = None BY <1>1, <1>2, <1>6 DEF Prepared, Undecided
  <2> QED BY <1>3, <1>7, <1>8, <2>1, <2>2, <2>3, <2>4, <2>5 DEF Prepared, Undecided,
        StartReady, AuthenticationReady, DeletionReady, RejectionReady, AtCommit, Op
<1> QED BY <1>7, <1>9, <1>11, <1>12, <1>13, StepAlone

(* A finish past its SELECT: what it holds, with types. *)
LEMMA FinishHolds ==
    ASSUME IInv, NEW r \in Requests, pc[r] \in {"lock"} \cup Deciding, Op(r) = "finish"
    PROVE  /\ req[r] \in Request /\ req[r].token \in Tokens /\ req[r].kind \in Kinds
           /\ (req[r].kind = "registration") <=> (req[r].id # None)
           /\ rowLock[req[r].token] = r
           /\ tx[r].row \in Ceremony /\ tx[r].row = ceremonies[req[r].token]
           /\ tx[r].row.kind = req[r].kind /\ tx[r].row.state = "pending"
<1>1. Prepared(r) /\ tx[r] \in Transaction BY DEF IInv, TypeOK
<1>2. req[r] \in Request BY IdleRequest DEF Deciding
<1>3. tx[r].row # None /\ tx[r].row = ceremonies[req[r].token]
      /\ tx[r].row.kind = req[r].kind /\ tx[r].row.state = "pending"
      /\ rowLock[req[r].token] = r
  BY <1>1 DEF Prepared, HoldsRow
<1>4. tx[r].row \in Ceremony BY <1>1, <1>3 DEF Transaction
<1>5. req[r].token \in Tokens /\ req[r].kind \in Kinds
      /\ ((req[r].kind = "registration") <=> (req[r].id # None))
  BY <1>1 DEF Prepared, Shape, Deciding
<1> QED BY <1>2, <1>3, <1>4, <1>5

(* Statements of a finish that only go on. *)
LEMMA CheckExpiryKeeps ==
    ASSUME IInv, NEW r \in Requests, CheckExpiry(r)
    PROVE  IInv'
<1> DEFINE outcome == Check(tx[r].row, clock)
<1>1. pc[r] = "check" /\ UNCHANGED locks BY DEF CheckExpiry
<1>2. tx[r] \in Transaction /\ Prepared(r) /\ req[r] \in Request
  BY <1>1, IdleRequest DEF IInv, TypeOK
<1>3. Op(r) = "finish" BY <1>1, <1>2 DEF Prepared, Shape, Op, Request
<1>4. /\ tx[r].row \in Ceremony /\ tx[r].row.kind = req[r].kind
      /\ tx[r].row.state = "pending" /\ req[r].kind \in Kinds
  BY <1>1, <1>3, FinishHolds DEF Deciding
<1>5. {"commit", "verify"} \subseteq PC \ {"idle"} BY DEF PC, Working, InTransaction
<1>6. tx[r].outcome = None BY <1>1, <1>2 DEF Prepared, Undecided
<1>7. CASE Continue(r, "verify", tx[r])
  <2>1. /\ pc'[r] = "verify" /\ req'[r] = req[r] /\ tx'[r] = tx[r]
        /\ UNCHANGED <<tables, clock>>
        /\ \A q \in Requests \ {r} : Same(q)
    BY <1>7, Continued
  <2>2. ApartFrom(r)
    BY <1>1, <2>1, ApartWithin DEF Inserted, AtCommit
  <2>3. Prepared(r)'
    <3>1. Shape(r)' BY <1>1, <1>2, <1>3, <2>1 DEF Prepared, Shape, Op
    <3>2. HoldsRow(r)' /\ HoldsSubject(r)'
      BY <1>1, <1>2, <2>1 DEF Prepared, HoldsRow, HoldsSubject, SubjectKey, Deciding, Op,
         tables, locks
    <3>3. RegistrationReady(r)'
      BY <1>1, <1>2, <2>1
      DEF Prepared, RegistrationReady, Registering, Inserted, AtCommit, Op, tables
    <3> QED BY <1>3, <1>6, <2>1, <3>1, <3>2, <3>3 DEF Prepared, Undecided,
          StartReady, AuthenticationReady, DeletionReady, RejectionReady, AtCommit, Op
  <2> QED BY <1>1, <1>2, <1>5, <1>7, <2>2, <2>3, ContinueKeeps DEF Deciding
<1>8. CASE outcome # "ok" /\ Continue(r, "commit", [tx[r] EXCEPT !.outcome = outcome])
  <2> DEFINE x == [tx[r] EXCEPT !.outcome = outcome]
  <2>1. outcome = Expired(req[r].kind) /\ clock >= tx[r].row.expires
    BY <1>4, <1>8 DEF Check
  <2>2. outcome \in Codes BY <1>4, <2>1, InvalidCode
  <2>3. Continue(r, "commit", x) BY <1>8
  <2> HIDE DEF outcome
  <2>4. /\ x \in Transaction /\ x.row = tx[r].row /\ x.outcome = outcome
        /\ x.value = tx[r].value /\ x.id = tx[r].id
    BY <1>2, <2>2 DEF Transaction
  <2> HIDE DEF x
  <2>5. /\ pc'[r] = "commit" /\ req'[r] = req[r] /\ tx'[r] = x
        /\ UNCHANGED <<tables, clock>>
        /\ \A q \in Requests \ {r} : Same(q)
    BY <2>3, Continued
  <2>6. ~Inserted(r)' BY <1>8, <2>4, <2>5 DEF Inserted
  <2>7. ApartFrom(r) BY <1>1, <2>5, <2>6, ApartWithin
  <2>8. Prepared(r)'
    <3>1. Shape(r)' BY <1>1, <1>2, <1>3, <2>5 DEF Prepared, Shape, Op
    <3>2. HoldsRow(r)' /\ HoldsSubject(r)'
      BY <1>1, <1>2, <2>4, <2>5 DEF Prepared, HoldsRow, HoldsSubject, SubjectKey, Deciding, Op,
         tables, locks
    <3>3. RegistrationReady(r)'
      BY <1>1, <1>2, <2>5, <2>6 DEF Prepared, RegistrationReady, Registering, Op, tables
    <3>4. RejectionReady(r)' BY <2>1, <2>4, <2>5 DEF RejectionReady
    <3>5. AuthenticationReady(r)'
      BY <1>8, <2>4, <2>5 DEF AuthenticationReady, AtCommit
    <3> QED BY <1>3, <2>5, <3>1, <3>2, <3>3, <3>4, <3>5 DEF Prepared, Undecided,
          StartReady, DeletionReady, AtCommit, Op
  <2> QED BY <1>1, <1>5, <2>3, <2>4, <2>7, <2>8, ContinueKeeps DEF Deciding
<1> QED BY <1>7, <1>8 DEF CheckExpiry

(* A transaction in doubt keeps its locks and its decision. *)
LEMMA CommitUnknownKeeps ==
    ASSUME IInv, NEW r \in Requests, CommitUnknown(r)
    PROVE  IInv'
<1> USE DEF CommitUnknown, Goto, Answer
<1>1. TypeOK /\ Prepared(r) /\ pc[r] = "commit" BY DEF IInv
<1>2. TypeOK' BY <1>1 DEF TypeOK, tables, locks, PC, InTransaction, Codes
<1>3. pc'[r] = "inDoubt" /\ req'[r] = req[r] /\ tx'[r] = tx[r] BY <1>1 DEF TypeOK
<1>4. \A q \in Requests \ {r} : Same(q) /\ KeepsLocks(q)
  BY <1>1 DEF TypeOK, Same, KeepsLocks, locks
<1>5. Alone(r) BY <1>3, <1>4 DEF Alone, locks, Deciding
<1>6. ApartFrom(r)
  BY <1>1, <1>3, <1>4, ApartWithin DEF Inserted, Registering, AtCommit, Op
<1>7. Prepared(r)'
  <2>1. Shape(r)' BY <1>1, <1>3 DEF Prepared, Shape, Op
  <2>2. HoldsRow(r)' /\ HoldsSubject(r)'
    BY <1>1, <1>3 DEF Prepared, HoldsRow, HoldsSubject, SubjectKey, Deciding, Op,
       tables, locks
  <2>3. RegistrationReady(r)'
    BY <1>1, <1>3
    DEF Prepared, RegistrationReady, Registering, Inserted, AtCommit, Op, tables
  <2>4. StartReady(r)'
    BY <1>1, <1>3 DEF Prepared, StartReady, AtCommit, Op, tables
  <2>5. AuthenticationReady(r)' /\ DeletionReady(r)' /\ RejectionReady(r)'
    BY <1>1, <1>3 DEF Prepared, AuthenticationReady, DeletionReady, RejectionReady,
       AtCommit, Op, tables, Usable, CredentialsOf
  <2> QED BY <1>3, <2>1, <2>2, <2>3, <2>4, <2>5 DEF Prepared, Undecided
<1> QED BY <1>2, <1>5, <1>6, <1>7, StepAlone

(* The decision of a finish, for better or worse, is to be committed. *)
LEMMA DecideKeeps ==
    ASSUME IInv, NEW r \in Requests, pc[r] \in {"verify", "write"}, Op(r) = "finish",
           NEW outcome \in Codes \cup {"ok"},
           Continue(r, "commit", [tx[r] EXCEPT !.outcome = outcome]), UNCHANGED locks,
           outcome = "ok" =>
             /\ pc[r] = "write"
             /\ req[r].kind = "registration" =>
                  /\ \A d \in CredIds : credentials[d] # None =>
                       ~SameKey(credentials[d], tx[r].value)
                  /\ \A q \in Requests \ {r} : Inserted(q) =>
                       ~SameKey(tx[q].value, tx[r].value) /\ ~SameKey(tx[r].value, tx[q].value),
           outcome # "ok" =>
             \/ outcome = Invalid(req[r].kind)
             \/ outcome = "conflict" /\ req[r].kind = "registration"
    PROVE  IInv'
<1> DEFINE x == [tx[r] EXCEPT !.outcome = outcome]
<1>1. tx[r] \in Transaction /\ Prepared(r) BY DEF IInv, TypeOK
<1>2. /\ x \in Transaction /\ x.row = tx[r].row /\ x.outcome = outcome
      /\ x.value = tx[r].value /\ x.id = tx[r].id
  BY <1>1 DEF Transaction
<1>3. Continue(r, "commit", x) OBVIOUS
<1> HIDE DEF x
<1>4. /\ pc'[r] = "commit" /\ req'[r] = req[r] /\ tx'[r] = x
      /\ UNCHANGED <<tables, clock>>
      /\ \A q \in Requests \ {r} : Same(q)
  BY <1>3, Continued
<1>5. ApartFrom(r)
  <2> SUFFICES ASSUME NEW q \in Requests \ {r} PROVE Apart(q, r)' /\ Apart(r, q)'
    BY DEF ApartFrom
  <2>1. Apart(q, r) /\ Apart(r, q) BY DEF IInv
  <2>2. pc'[q] = pc[q] /\ req'[q] = req[q] /\ tx'[q] = tx[q] BY <1>4 DEF Same
  <2>3. (Registering(r)' => Registering(r)) /\ (Registering(q)' => Registering(q))
    BY <1>4, <2>2 DEF Registering, Op
  <2>4. Inserted(q)' => Inserted(q) BY <2>2 DEF Inserted, Registering, Op, AtCommit
  <2>5. Inserted(r)' => outcome = "ok" /\ req[r].kind = "registration"
    BY <1>2, <1>4 DEF Inserted, Registering
  <2>6. Inserted(q)' /\ Inserted(r)' =>
          ~SameKey(tx'[q].value, tx'[r].value) /\ ~SameKey(tx'[r].value, tx'[q].value)
    BY <1>2, <1>4, <2>2, <2>4, <2>5
  <2>7. pc[r] # "idle" OBVIOUS
  <2> QED BY <1>4, <2>1, <2>2, <2>3, <2>6, <2>7 DEF Apart, Op
<1>6. Prepared(r)'
  <2>1. Shape(r)' BY <1>1, <1>4 DEF Prepared, Shape, Op
  <2>2. HoldsRow(r)' /\ HoldsSubject(r)'
    BY <1>1, <1>2, <1>4 DEF Prepared, HoldsRow, HoldsSubject, SubjectKey, Deciding, Op,
       tables, locks
  <2>3. RegistrationReady(r)'
    <3> SUFFICES ASSUME Registering(r)' PROVE RegistrationReady(r)'
      BY DEF RegistrationReady
    <3>1. Registering(r) /\ req[r].kind = "registration" BY <1>4 DEF Registering, Op
    <3>2. credentials'[req'[r].id] = None /\ history'[req'[r].id] = <<>>
      BY <1>1, <1>4, <3>1 DEF Prepared, RegistrationReady, tables
    <3>3. Inserted(r)' => outcome = "ok" BY <1>2, <1>4 DEF Inserted
    <3>4. outcome = "ok" =>
             /\ tx[r].id = req[r].id /\ tx[r].value # None
             /\ tx[r].value.scope = tx[r].row.scope /\ tx[r].value.rp = tx[r].row.rp
      BY <1>1, <3>1 DEF Prepared, RegistrationReady
    <3>5. outcome = "ok" =>
            \A d \in CredIds : credentials[d] # None => ~SameKey(credentials[d], tx[r].value)
      BY <3>1
    <3> QED BY <1>2, <1>4, <3>2, <3>3, <3>4, <3>5 DEF RegistrationReady, tables
  <2>4. AuthenticationReady(r)'
    BY <1>1, <1>2, <1>4 DEF Prepared, AuthenticationReady, AtCommit, Op, Usable,
       CredentialsOf, tables
  <2>5. RejectionReady(r)' BY <1>2, <1>4 DEF RejectionReady
  <2> QED BY <1>4, <2>1, <2>2, <2>3, <2>4, <2>5 DEF Prepared, Undecided,
        StartReady, DeletionReady, AtCommit, Op
<1>7. "commit" \in PC \ {"idle"} BY DEF PC, Working, InTransaction
<1>8. pc[r] # "idle" /\ "commit" \in Deciding BY DEF Deciding
<1> QED BY <1>2, <1>3, <1>5, <1>6, <1>7, <1>8, ContinueKeeps

(* Verify prepares a value that fits the row and the credentials it read. *)
LEMMA VerifyKeeps ==
    ASSUME IInv, NEW r \in Requests, Verify(r)
    PROVE  IInv'
<1> DEFINE row == tx[r].row
<1>1. pc[r] = "verify" /\ UNCHANGED locks BY DEF Verify
<1>2. tx[r] \in Transaction /\ Prepared(r) /\ req[r] \in Request
  BY <1>1, IdleRequest DEF IInv, TypeOK
<1>3. Op(r) = "finish" BY <1>1, <1>2 DEF Prepared, Shape, Op, Request
<1>4. /\ row \in Ceremony /\ row.kind = req[r].kind /\ req[r].kind \in Kinds
      /\ ((req[r].kind = "registration") <=> (req[r].id # None))
  BY <1>1, <1>3, FinishHolds DEF Deciding
<1>5. CASE Continue(r, "commit", [tx[r] EXCEPT !.outcome = Invalid(row.kind)])
  <2>1. Invalid(row.kind) \in Codes \cup {"ok"} /\ Invalid(row.kind) # "ok"
    BY <1>4, InvalidCode
  <2> QED BY <1>1, <1>3, <1>4, <1>5, <2>1, DecideKeeps
<1>6. ASSUME NEW id \in CredIds, NEW value \in Credential,
             Continue(r, "write", [tx[r] EXCEPT !.id = id, !.value = value]),
             value.scope = row.scope /\ value.rp = row.rp,
             req[r].kind = "registration" => id = req[r].id,
             req[r].kind = "authentication" =>
               /\ id \in Usable(row.scope, row.rp)
               /\ credentials[id].wid \in row.allowed
               /\ value = [credentials[id] EXCEPT !.count = value.count]
               /\ Advances(credentials[id].count, value.count)
      PROVE  IInv'
  <2> DEFINE x == [tx[r] EXCEPT !.id = id, !.value = value]
  <2>1. /\ x \in Transaction /\ x.row = row /\ x.outcome = tx[r].outcome
        /\ x.value = value /\ x.id = id
    BY <1>2 DEF Transaction
  <2>2. Continue(r, "write", x) BY <1>6
  <2>3. value # None BY NoneAssumption
  <2> HIDE DEF x
  <2>4. /\ pc'[r] = "write" /\ req'[r] = req[r] /\ tx'[r] = x
        /\ UNCHANGED <<tables, clock>>
        /\ \A q \in Requests \ {r} : Same(q)
    BY <2>2, Continued
  <2>5. ApartFrom(r)
    BY <1>1, <2>4, ApartWithin DEF Inserted, AtCommit
  <2>6. Prepared(r)'
    <3>1. Shape(r)' BY <1>1, <1>2, <1>3, <2>4 DEF Prepared, Shape, Op
    <3>2. HoldsRow(r)' /\ HoldsSubject(r)'
      BY <1>1, <1>2, <2>1, <2>4 DEF Prepared, HoldsRow, HoldsSubject, SubjectKey, Deciding,
         Op, tables, locks
    <3>3. RegistrationReady(r)'
      BY <1>1, <1>2, <1>6, <2>1, <2>3, <2>4
      DEF Prepared, RegistrationReady, Registering, Inserted, AtCommit, Op, tables
    <3>4. AuthenticationReady(r)'
      BY <1>6, <2>1, <2>3, <2>4 DEF AuthenticationReady, Usable, CredentialsOf, tables
    <3>5. x.outcome = None BY <1>1, <1>2, <2>1 DEF Prepared, Undecided
    <3> QED BY <1>3, <2>4, <3>1, <3>2, <3>3, <3>4, <3>5 DEF Prepared, Undecided,
          StartReady, DeletionReady, RejectionReady, AtCommit, Op
  <2>7. "write" \in PC \ {"idle"} BY DEF PC, Working, InTransaction
  <2>8. pc[r] # "idle" /\ "write" \in Deciding BY <1>1 DEF Deciding
  <2> QED BY <1>1, <2>1, <2>2, <2>5, <2>6, <2>7, <2>8, ContinueKeeps
<1>7. CASE /\ row.kind = "registration"
           /\ \E w \in Authenticators, n \in Counts :
                Continue(r, "write", [tx[r] EXCEPT
                  !.id = req[r].id,
                  !.value = [scope |-> row.scope, rp |-> row.rp, wid |-> w, count |-> n]])
  <2>1. PICK w \in Authenticators, n \in Counts :
                Continue(r, "write", [tx[r] EXCEPT
                  !.id = req[r].id,
                  !.value = [scope |-> row.scope, rp |-> row.rp, wid |-> w, count |-> n]])
    BY <1>7
  <2> DEFINE value == [scope |-> row.scope, rp |-> row.rp, wid |-> w, count |-> n]
  <2>2. value \in Credential /\ value.scope = row.scope /\ value.rp = row.rp
    BY <1>4 DEF Credential, Ceremony
  <2>3. req[r].id \in CredIds BY <1>2, <1>4, <1>7 DEF Request
  <2>4. Continue(r, "write", [tx[r] EXCEPT !.id = req[r].id, !.value = value]) BY <2>1
  <2> HIDE DEF value
  <2> QED BY <1>4, <1>6, <1>7, <2>2, <2>3, <2>4
<1>8. CASE /\ row.kind = "authentication"
           /\ \E c \in Usable(row.scope, row.rp), n \in Counts :
                /\ credentials[c].wid \in row.allowed
                /\ Advances(credentials[c].count, n)
                /\ Continue(r, "write", [tx[r] EXCEPT
                     !.id = c, !.value = [credentials[c] EXCEPT !.count = n]])
  <2>1. PICK c \in Usable(row.scope, row.rp), n \in Counts :
                /\ credentials[c].wid \in row.allowed
                /\ Advances(credentials[c].count, n)
                /\ Continue(r, "write", [tx[r] EXCEPT
                     !.id = c, !.value = [credentials[c] EXCEPT !.count = n]])
    BY <1>8
  <2> DEFINE value == [credentials[c] EXCEPT !.count = n]
  <2>2. c \in CredIds /\ credentials[c] \in Credential
        /\ credentials[c].scope = row.scope /\ credentials[c].rp = row.rp
    BY DEF Usable, CredentialsOf, IInv, TypeOK, CredentialTable
  <2>3. value \in Credential /\ value.scope = row.scope /\ value.rp = row.rp
        /\ value.count = n
    BY <2>2 DEF Credential
  <2>4. value = [credentials[c] EXCEPT !.count = value.count] BY <2>3
  <2>5. Continue(r, "write", [tx[r] EXCEPT !.id = c, !.value = value]) BY <2>1
  <2> HIDE DEF value
  <2>6. Advances(credentials[c].count, value.count) BY <2>1, <2>3
  <2>7. credentials[c].wid \in row.allowed BY <2>1
  <2>8. req[r].kind # "registration" BY <1>4, <1>8
  <2> HIDE DEF row
  <2> QED BY <1>6, <2>2, <2>3, <2>4, <2>5, <2>6, <2>7, <2>8
<1> QED BY <1>5, <1>7, <1>8 DEF Verify

(* An INSERT or UPDATE decides only when no undecided writer of the row or  *)
(* of its key is left.                                                      *)
LEMMA WriteKeeps ==
    ASSUME IInv, NEW r \in Requests, Write(r)
    PROVE  IInv'
<1> DEFINE outcome == WriteOutcome(tx[r])
           k == req[r].kind
<1>1. /\ pc[r] = "write" /\ Blockers(r) = {} /\ UNCHANGED locks
      /\ Continue(r, "commit", [tx[r] EXCEPT !.outcome = outcome])
  BY DEF Write
<1>2. tx[r] \in Transaction /\ Prepared(r) /\ req[r] \in Request
  BY <1>1, IdleRequest DEF IInv, TypeOK
<1>3. Op(r) = "finish" BY <1>1, <1>2 DEF Prepared, Shape, Op, Request
<1>4. tx[r].row.kind = k /\ k \in Kinds
  BY <1>1, <1>3, FinishHolds DEF Deciding
<1>5. CASE k = "registration"
  <2>1. /\ outcome \in {"ok", "conflict"}
        /\ outcome = "ok" => \A d \in CredIds : credentials[d] # None =>
                                ~SameKey(credentials[d], tx[r].value)
    BY <1>4, <1>5 DEF WriteOutcome
  <2>2. \A q \in Requests \ {r} : Inserted(q) =>
          ~SameKey(tx[q].value, tx[r].value) /\ ~SameKey(tx[r].value, tx[q].value)
    <3> SUFFICES ASSUME NEW q \in Requests \ {r}, Inserted(q)
                 PROVE  ~SameKey(tx[q].value, tx[r].value) /\ ~SameKey(tx[r].value, tx[q].value)
      OBVIOUS
    <3>1. RegistrationReady(q) BY DEF IInv, Prepared
    <3>2. tx[q].value # None /\ tx[q].outcome = "ok"
      BY <3>1 DEF RegistrationReady, Inserted
    <3>3. q \notin WriteWaits(r) BY <1>1 DEF Blockers
    <3> QED BY <3>2, <3>3 DEF WriteWaits, Wrote, SameKey
  <2>3. outcome \in Codes \cup {"ok"} BY <2>1 DEF Codes
  <2> HIDE DEF outcome
  <2> QED BY <1>1, <1>3, <1>5, <2>1, <2>2, <2>3, DecideKeeps
<1>6. CASE k = "authentication"
  <2>1. tx[r].id \in Usable(tx[r].row.scope, tx[r].row.rp)
    BY <1>1, <1>2, <1>3, <1>6 DEF Prepared, AuthenticationReady
  <2>2. outcome = "ok" BY <1>4, <1>6, <2>1 DEF WriteOutcome
  <2> HIDE DEF outcome
  <2> QED BY <1>1, <1>3, <1>6, <2>2, DecideKeeps
<1> QED BY <1>4, <1>5, <1>6 DEF Kinds

(* A deletion decides under the subject lock. *)
LEMMA DeleteCredentialKeeps ==
    ASSUME IInv, NEW r \in Requests, DeleteCredential(r)
    PROVE  IInv'
<1> DEFINE id == req[r].id
           x == [tx[r] EXCEPT !.outcome = "ok", !.id = id, !.value = credentials[id]]
<1>1. pc[r] = "delete" BY DEF DeleteCredential
<1>2. tx[r] \in Transaction /\ Prepared(r) /\ req[r] \in Request
  BY <1>1, IdleRequest DEF IInv, TypeOK
<1>3. Op(r) = "delete" BY <1>1, <1>2 DEF Prepared, Shape, Op, Request
<1>4. CASE Abort(r, "credential_not_found") /\ UNCHANGED rowLock
  <2>1. "credential_not_found" \in Codes BY DEF Codes
  <2> QED BY <1>1, <1>4, <2>1, AbortKeeps
<1>5. CASE id \in CredentialsOf(req[r].scope) /\ Continue(r, "commit", x) /\ UNCHANGED locks
  <2>1. id \in CredIds /\ credentials[id] \in Credential
    BY <1>5 DEF CredentialsOf, IInv, TypeOK, CredentialTable
  <2>2. /\ x \in Transaction /\ x.outcome = "ok" /\ x.id = id /\ x.value = credentials[id]
        /\ x.row = tx[r].row
    BY <1>2, <2>1 DEF Transaction
  <2> HIDE DEF x
  <2>3. /\ pc'[r] = "commit" /\ req'[r] = req[r] /\ tx'[r] = x
        /\ UNCHANGED <<tables, clock>>
        /\ \A q \in Requests \ {r} : Same(q)
    BY <1>5, Continued
  <2>4. ~Inserted(r)' BY <1>3, <2>3 DEF Inserted, Registering, Op
  <2>5. ApartFrom(r) BY <1>1, <2>3, <2>4, ApartWithin
  <2>6. Prepared(r)'
    <3>1. Shape(r)' BY <1>1, <1>2, <1>3, <2>3 DEF Prepared, Shape, Op
    <3>2. HoldsSubject(r)'
      <4>1. LockKey[IF req[r].op = "delete" THEN req[r].scope ELSE tx[r].row.scope]
              = LockKey[req[r].scope]
        BY <1>3 DEF Op
      <4>2. LockKey[IF req'[r].op = "delete" THEN req'[r].scope ELSE tx'[r].row.scope]
              = LockKey[req[r].scope]
        BY <1>3, <2>3 DEF Op
      <4>3. SubjectKey(r)' = SubjectKey(r) BY <4>1, <4>2 DEF SubjectKey
      <4>4. subjectLock[SubjectKey(r)] = r
        BY <1>1, <1>2, <1>3 DEF Prepared, HoldsSubject, Deciding
      <4> QED BY <1>5, <4>3, <4>4 DEF HoldsSubject, locks
    <3>3. DeletionReady(r)'
      BY <1>5, <2>2, <2>3 DEF DeletionReady, CredentialsOf, tables
    <3> QED BY <1>3, <2>3, <3>1, <3>2, <3>3 DEF Prepared, Undecided, HoldsRow,
          StartReady, RegistrationReady, Registering, AuthenticationReady,
          RejectionReady, AtCommit, Op
  <2>7. "commit" \in PC \ {"idle"} /\ "commit" \in Deciding
    BY DEF PC, Working, InTransaction, Deciding
  <2> QED BY <1>1, <1>5, <2>2, <2>5, <2>6, <2>7, ContinueKeeps
<1> QED BY <1>4, <1>5 DEF DeleteCredential

(* A statement that fails at any point. *)
LEMMA FailKeeps ==
    ASSUME IInv, NEW r \in Requests, Fail(r)
    PROVE  IInv'
<1>1. "internal_error" \in Codes BY DEF Codes
<1>2. CASE Leave(r, "internal_error")
  <2>1. answer' \in [Requests -> Codes \cup {"ok", None}]
    BY <1>1, <1>2 DEF Leave, Answer, IInv, TypeOK
  <2> QED BY <1>2, <2>1, EndKeeps DEF Leave
<1>3. CASE pc[r] \notin {"list", "begin"} /\ Abort(r, "internal_error") /\ UNCHANGED rowLock
  <2>1. pc[r] # "idle" BY DEF Fail, Working, InTransaction
  <2> QED BY <1>1, <1>3, <2>1, AbortKeeps
<1> QED BY <1>2, <1>3 DEF Fail

(* The database rolls an abandoned transaction back. *)
LEMMA RollbackKeeps ==
    ASSUME IInv, NEW r \in Requests, End(r), UNCHANGED <<tables, clock, answer>>
    PROVE  IInv'
<1>1. answer' \in [Requests -> Codes \cup {"ok", None}] BY DEF IInv, TypeOK
<1> QED BY <1>1, EndKeeps

(* Time passes. *)
LEMMA TickKeeps ==
    ASSUME IInv, Tick
    PROVE  IInv'
<1> USE DEF Tick, tables, locks
<1>1. TypeOK' BY DEF IInv, TypeOK
<1>2. LocksHeld' BY DEF IInv, LocksHeld
<1>3. \A q \in Requests : Prepared(q)'
  <2> SUFFICES ASSUME NEW q \in Requests PROVE Prepared(q)' OBVIOUS
  <2>1. Same(q) /\ KeepsLocks(q) BY DEF Same, KeepsLocks
  <2>2. clock' \in Nat /\ clock <= clock' BY DEF IInv, TypeOK
  <2> QED BY <2>1, <2>2, Frame
<1>4. \A p, q \in Requests : p # q => Apart(p, q)'
  BY DEF IInv, Apart, Registering, Inserted, Op, AtCommit
<1> QED BY <1>1, <1>2, <1>3, <1>4 DEF IInv

-----------------------------------------------------------------------------
(* COMMIT.  What a transaction about to commit will do, operation by        *)
(* operation, in the terms of the atomic specification.                     *)

LEMMA WroteWhat ==
    ASSUME IInv, NEW r \in Requests, AtCommit(r), Wrote(r)
    PROVE  /\ tx[r].id \in CredIds /\ tx[r].value \in Credential
           /\ \/ Inserted(r) /\ tx[r].id = req[r].id /\ credentials[tx[r].id] = None
                /\ history[tx[r].id] = <<>>
                /\ tx[r].value.scope = tx[r].row.scope /\ tx[r].value.rp = tx[r].row.rp
              \/ /\ Op(r) = "finish" /\ req[r].kind = "authentication"
                 /\ credentials[tx[r].id] # None
                 /\ credentials[tx[r].id].scope = tx[r].row.scope
                 /\ credentials[tx[r].id].rp = tx[r].row.rp
                 /\ credentials[tx[r].id].wid \in tx[r].row.allowed
                 /\ Advances(credentials[tx[r].id].count, tx[r].value.count)
                 /\ tx[r].value = [credentials[tx[r].id] EXCEPT !.count = tx[r].value.count]
              \/ /\ Op(r) = "delete" /\ tx[r].id = req[r].id
                 /\ credentials[tx[r].id] # None
                 /\ credentials[tx[r].id].scope = req[r].scope
<1>1. tx[r] \in Transaction /\ Prepared(r) /\ req[r] \in Request /\ pc[r] # "idle"
  BY IdleRequest DEF IInv, TypeOK, AtCommit
<1>2. tx[r].value \in Credential /\ tx[r].outcome = "ok" /\ tx[r].value # None
  BY <1>1 DEF Transaction, Wrote
<1>3. Op(r) \in {"start", "finish", "delete"} BY <1>1 DEF Request, Op
<1>4. Op(r) # "start" BY <1>1, <1>2 DEF Prepared, StartReady, AtCommit
<1>5. CASE Op(r) = "finish"
  <2>1. req[r].kind \in Kinds /\ ((req[r].kind = "registration") <=> (req[r].id # None))
    BY <1>5, FinishHolds DEF AtCommit, Deciding
  <2>2. CASE req[r].kind = "registration"
    <3>1. Registering(r) /\ Inserted(r) BY <1>1, <1>2, <1>5, <2>2 DEF Registering, Inserted
    <3>2. RegistrationReady(r) BY <1>1 DEF Prepared
    <3>3. req[r].id \in CredIds BY <1>1, <2>1, <2>2 DEF Request
    <3> QED BY <1>2, <3>1, <3>2, <3>3 DEF RegistrationReady
  <2>3. CASE req[r].kind = "authentication"
    <3>1. /\ tx[r].id \in Usable(tx[r].row.scope, tx[r].row.rp)
          /\ credentials[tx[r].id].wid \in tx[r].row.allowed
          /\ tx[r].value = [credentials[tx[r].id] EXCEPT !.count = tx[r].value.count]
          /\ Advances(credentials[tx[r].id].count, tx[r].value.count)
      BY <1>1, <1>2, <1>5, <2>3 DEF Prepared, AuthenticationReady
    <3> QED BY <1>2, <1>5, <2>3, <3>1 DEF Usable, CredentialsOf
  <2> QED BY <2>1, <2>2, <2>3 DEF Kinds
<1>6. CASE Op(r) = "delete"
  BY <1>1, <1>2, <1>6 DEF Prepared, DeletionReady, CredentialsOf
<1> QED BY <1>3, <1>4, <1>5, <1>6

(* A transaction at its COMMIT, operation by operation. *)
LEMMA AtCommitHolds ==
    ASSUME IInv, NEW r \in Requests, AtCommit(r)
    PROVE  /\ req[r] \in Request /\ tx[r] \in Transaction /\ pc[r] # "idle"
           /\ Op(r) \in {"start", "finish", "delete"}
           /\ Op(r) # "delete" => req[r].token \in Tokens /\ tx[r].row \in Ceremony
           /\ Op(r) = "start" =>
                /\ ceremonies[req[r].token] = None
                /\ tx[r].row = NewCeremony(req[r].kind, req[r].scope, tx[r].row.rp,
                                           tx[r].row.allowed, tx[r].row.expires)
                /\ req[r].kind \in Kinds /\ req[r].scope \in Scopes
                /\ tx[r].row.expires <= clock + TTL
                /\ tx[r].outcome = "ok" /\ ~Wrote(r)
           /\ Op(r) = "finish" =>
                /\ tx[r].row = ceremonies[req[r].token]
                /\ tx[r].row.kind = req[r].kind /\ tx[r].row.state = "pending"
                /\ req[r].kind \in Kinds
                /\ tx[r].outcome = "ok" => Wrote(r)
           /\ Op(r) = "delete" =>
                /\ req[r].id \in CredIds /\ req[r].scope \in Scopes /\ Wrote(r)
<1>1. tx[r] \in Transaction /\ Prepared(r) /\ req[r] \in Request /\ pc[r] # "idle"
  BY IdleRequest DEF IInv, TypeOK, AtCommit
<1>2. Op(r) \in {"start", "finish", "delete"} BY <1>1 DEF Request, Op
<1>3. CASE Op(r) = "start"
  <2>1. /\ ceremonies[req[r].token] = None /\ tx[r].row # None /\ tx[r].value = None
        /\ tx[r].row = NewCeremony(req[r].kind, req[r].scope, tx[r].row.rp,
                                   tx[r].row.allowed, tx[r].row.expires)
        /\ tx[r].row.expires <= clock + TTL /\ tx[r].outcome = "ok"
    BY <1>1, <1>3 DEF Prepared, StartReady, AtCommit
  <2>2. req[r].token \in Tokens /\ req[r].kind \in Kinds /\ req[r].scope \in Scopes
    BY <1>1, <1>3 DEF Prepared, Shape
  <2>3. tx[r].row \in Ceremony BY <1>1, <2>1 DEF Transaction
  <2> QED BY <1>1, <1>3, <2>1, <2>2, <2>3 DEF Wrote
<1>4. CASE Op(r) = "finish"
  <2>1. /\ req[r].token \in Tokens /\ tx[r].row \in Ceremony
        /\ tx[r].row = ceremonies[req[r].token]
        /\ tx[r].row.kind = req[r].kind /\ tx[r].row.state = "pending"
        /\ req[r].kind \in Kinds
    BY <1>4, FinishHolds DEF AtCommit, Deciding
  <2>2. ASSUME tx[r].outcome = "ok" PROVE tx[r].value # None
    <3>1. CASE req[r].kind = "registration"
      BY <1>1, <1>4, <2>2, <3>1 DEF Prepared, RegistrationReady, Registering, Inserted
    <3>2. CASE req[r].kind = "authentication"
      BY <1>1, <1>4, <2>2, <3>2 DEF Prepared, AuthenticationReady
    <3> QED BY <2>1, <3>1, <3>2 DEF Kinds
  <2> QED BY <1>1, <1>4, <2>1, <2>2 DEF Wrote
<1>5. CASE Op(r) = "delete"
  <2>1. req[r].id \in CredIds /\ req[r].scope \in Scopes BY <1>1, <1>5 DEF Prepared, Shape
  <2>2. tx[r].outcome = "ok" /\ tx[r].value = credentials[tx[r].id]
        /\ credentials[tx[r].id] # None
    BY <1>1, <1>5 DEF Prepared, DeletionReady, CredentialsOf
  <2> QED BY <1>1, <1>5, <2>1, <2>2 DEF Wrote
<1> QED BY <1>2, <1>3, <1>4, <1>5

(* The row a commit appends to the history is well formed. *)
LEMMA EventType ==
    ASSUME IInv, NEW r \in Requests, AtCommit(r)
    PROVE  EventOf(r) \in Event /\ About(r) \in Tokens \cup CredIds
<1>1. CASE Op(r) = "start"
  <2>1. tx[r].row \in Ceremony /\ req[r].token \in Tokens BY <1>1, AtCommitHolds
  <2>2. StartEvent(tx[r].row) \in Event
    BY <2>1 DEF StartEvent, Event, Ceremony, CeremonyStates
  <2> QED BY <1>1, <2>1, <2>2 DEF EventOf, About, Op
<1>2. CASE Op(r) = "finish"
  <2>1. tx[r].row \in Ceremony /\ req[r].token \in Tokens /\ req[r].kind \in Kinds
    BY <1>2, AtCommitHolds
  <2>2. tx[r].outcome # "ok" => tx[r].outcome \in Codes
    BY <1>2, <2>1 DEF IInv, Prepared, RejectionReady, Invalid, Expired, Codes, Kinds
  <2>3. tx[r].outcome = "ok" => tx[r].id \in CredIds
    BY <1>2, AtCommitHolds, WroteWhat
  <2>4. StateOf(tx[r].row.kind, tx[r].outcome) \in CeremonyStates
    BY DEF StateOf, CeremonyStates
  <2>5. FinishEvent(tx[r].row, tx[r].id, tx[r].outcome) \in Event
    BY <2>1, <2>2, <2>3, <2>4 DEF FinishEvent, Event, Ceremony
  <2> QED BY <1>2, <2>1, <2>5 DEF EventOf, About, Op
<1>3. CASE Op(r) = "delete"
  <2>1. req[r].scope \in Scopes /\ req[r].id \in CredIds BY <1>3, AtCommitHolds
  <2>2. DeleteEvent(req[r].scope, req[r].id) \in Event
    BY <2>1 DEF DeleteEvent, Event, CeremonyStates
  <2> QED BY <1>3, <2>1, <2>2 DEF EventOf, About, Op
<1> QED BY <1>1, <1>2, <1>3, AtCommitHolds

(* A commit changes the one ceremony of the request, the one credential it  *)
(* wrote and the history of what it is about.                               *)
Effects(r) ==
    /\ ceremonies' \in CeremonyTable
    /\ credentials' \in CredentialTable
    /\ history' \in HistoryTable
    /\ Op(r) = "delete" => ceremonies' = ceremonies
    /\ \A t \in Tokens : t # req[r].token => ceremonies'[t] = ceremonies[t]
    /\ \A c \in CredIds : ~(Wrote(r) /\ c = tx[r].id) => credentials'[c] = credentials[c]
    /\ Wrote(r) => credentials'[tx[r].id] = IF Op(r) = "delete" THEN None ELSE tx[r].value
    /\ \A k \in Tokens \cup CredIds : k # About(r) => history'[k] = history[k]

(* A commit has no other effect. *)
LEMMA ApplyEffects ==
    ASSUME IInv, NEW r \in Requests, AtCommit(r), Apply(r)
    PROVE  Effects(r)
<1> DEFINE t == req[r].token
<1>1. ceremonies \in CeremonyTable /\ credentials \in CredentialTable
      /\ history \in HistoryTable
  BY DEF IInv, TypeOK
<1>2. Op(r) \in {"start", "finish", "delete"} BY AtCommitHolds
<1>3. /\ ceremonies' \in CeremonyTable
      /\ \A u \in Tokens : u # t => ceremonies'[u] = ceremonies[u]
      /\ Op(r) = "delete" => ceremonies' = ceremonies
  <2>1. CASE Op(r) = "start"
    <3>1. ceremonies' = [ceremonies EXCEPT ![t] = tx[r].row]
      BY <2>1 DEF Apply, CeremoniesAfter, Op
    <3>2. t \in Tokens /\ tx[r].row \in Ceremony BY <2>1, AtCommitHolds
    <3> QED BY <1>1, <2>1, <3>1, <3>2 DEF CeremonyTable
  <2>2. CASE Op(r) = "finish"
    <3>1. t \in Tokens /\ ceremonies[t] \in Ceremony /\ tx[r].row = ceremonies[t]
      BY <2>2, AtCommitHolds
    <3> DEFINE done == [ceremonies[t] EXCEPT
                          !.state = StateOf(tx[r].row.kind, tx[r].outcome),
                          !.credential = IF tx[r].row.kind = "authentication"
                                            /\ tx[r].outcome = "ok"
                                         THEN tx[r].id ELSE @]
    <3>2. ceremonies' = [ceremonies EXCEPT ![t] = done]
      BY <1>1, <2>2, <3>1 DEF Apply, CeremoniesAfter, Op, CeremonyTable
    <3>3. tx[r].outcome = "ok" => tx[r].id \in CredIds
      BY <2>2, AtCommitHolds, WroteWhat
    <3>4. StateOf(tx[r].row.kind, tx[r].outcome) \in CeremonyStates
      BY DEF StateOf, CeremonyStates
    <3>5. done \in Ceremony BY <3>1, <3>3, <3>4 DEF Ceremony
    <3> HIDE DEF done
    <3> QED BY <1>1, <2>2, <3>1, <3>2, <3>5 DEF CeremonyTable
  <2>3. CASE Op(r) = "delete"
    BY <1>1, <2>3 DEF Apply, CeremoniesAfter, Op
  <2> QED BY <1>2, <2>1, <2>2, <2>3
<1>4. /\ credentials' \in CredentialTable
      /\ \A c \in CredIds : ~(Wrote(r) /\ c = tx[r].id) => credentials'[c] = credentials[c]
      /\ Wrote(r) => credentials'[tx[r].id] = IF Op(r) = "delete" THEN None ELSE tx[r].value
  <2>1. CASE Wrote(r)
    <3> DEFINE v == IF Op(r) = "delete" THEN None ELSE tx[r].value
    <3>1. tx[r].id \in CredIds /\ v \in Credential \cup {None} BY <2>1, WroteWhat
    <3>2. credentials' = [credentials EXCEPT ![tx[r].id] = v]
      BY <2>1 DEF Apply, CredentialsAfter, Op
    <3> HIDE DEF v
    <3>3. /\ credentials' \in CredentialTable
          /\ \A c \in CredIds : c # tx[r].id => credentials'[c] = credentials[c]
          /\ credentials'[tx[r].id] = v
      BY <1>1, <3>1, <3>2 DEF CredentialTable
    <3> QED BY <2>1, <3>3 DEF v
  <2>2. CASE ~Wrote(r)
    BY <1>1, <2>2 DEF Apply, CredentialsAfter
  <2> QED BY <2>1, <2>2
<1>5. /\ history' \in HistoryTable
      /\ \A k \in Tokens \cup CredIds : k # About(r) => history'[k] = history[k]
  <2>1. About(r) \in Tokens \cup CredIds /\ EventOf(r) \in Event BY EventType
  <2>2. history' = [history EXCEPT ![About(r)] = Append(history[About(r)], EventOf(r))]
    BY DEF Apply, HistoryAfter
  <2>3. Append(history[About(r)], EventOf(r)) \in Seq(Event)
    BY <1>1, <2>1 DEF HistoryTable
  <2> QED BY <1>1, <2>1, <2>2, <2>3 DEF HistoryTable
<1> QED BY <1>3, <1>4, <1>5 DEF Effects

(* Two transactions past their subject locks never touch one credential.    *)
LEMMA DistinctCredentials ==
    ASSUME IInv, NEW r \in Requests, NEW q \in Requests \ {r}, AtCommit(r), Wrote(r),
           pc[q] \in Deciding, Op(q) # "start", tx[q].id \in CredIds,
           credentials[tx[q].id] # None,
           credentials[tx[q].id].scope =
             IF req[q].op = "delete" THEN req[q].scope ELSE tx[q].row.scope
    PROVE  tx[r].id # tx[q].id
<1> SUFFICES ASSUME tx[r].id = tx[q].id PROVE FALSE OBVIOUS
<1>1. subjectLock[SubjectKey(q)] = q BY DEF IInv, Prepared, HoldsSubject
<1>2. CASE Inserted(r) /\ credentials[tx[r].id] = None BY <1>2
<1>3. CASE Op(r) \in {"finish", "delete"} /\ credentials[tx[r].id].scope =
             IF req[r].op = "delete" THEN req[r].scope ELSE tx[r].row.scope
  <2>1. SubjectKey(r) = SubjectKey(q) BY <1>3 DEF SubjectKey
  <2>2. subjectLock[SubjectKey(r)] = r
    BY <1>3 DEF IInv, Prepared, HoldsSubject, AtCommit, Deciding
  <2> QED BY <1>1, <2>1, <2>2
<1> QED BY <1>2, <1>3, WroteWhat DEF Op

(* A commit leaves what every other request relies on as it was. *)
LEMMA ApplyFrame ==
    ASSUME IInv, NEW r \in Requests, AtCommit(r), Effects(r),
           NEW q \in Requests \ {r}, Same(q), KeepsLocks(q), UNCHANGED clock
    PROVE  Prepared(q)'
<1> USE DEF Same
<1>1. Prepared(q) /\ Apart(q, r) /\ Apart(r, q) /\ pc[r] # "idle"
  BY DEF IInv, AtCommit
<1>2. tx[q] \in Transaction BY DEF IInv, TypeOK
<1>3. Shape(q)' BY <1>1 DEF Prepared, Shape, Op
<1>4. Undecided(q)' BY <1>1 DEF Prepared, Undecided
<1>5. HoldsRow(q)'
  <2> SUFFICES ASSUME pc[q] \in {"lock"} \cup Deciding, Op(q) = "finish"
               PROVE  HoldsRow(q)'
    BY DEF HoldsRow, Op
  <2>1. req[q].token \in Tokens /\ rowLock[req[q].token] = q BY FinishHolds
  <2>2. pc[q] # "idle" BY DEF Deciding
  <2>3. ceremonies'[req[q].token] = ceremonies[req[q].token]
    <3>1. CASE Op(r) = "start"
      BY <1>1, <2>1, <2>2, <3>1 DEF Apart, Effects
    <3>2. CASE Op(r) = "finish"
      <4>1. rowLock[req[r].token] = r BY <3>2, FinishHolds DEF AtCommit, Deciding
      <4> QED BY <2>1, <4>1 DEF Effects
    <3>3. CASE Op(r) = "delete" BY <3>3 DEF Effects
    <3> QED BY <3>1, <3>2, <3>3, AtCommitHolds
  <2> QED BY <1>1, <2>1, <2>3 DEF Prepared, HoldsRow, Op, KeepsLocks
<1>6. HoldsSubject(q)'
  <2> SUFFICES ASSUME pc[q] \in Deciding, Op(q) # "start"
               PROVE  subjectLock'[SubjectKey(q)] = q
    BY DEF HoldsSubject, Op, SubjectKey
  <2>1. SubjectKey(q) \in LockKeys BY KeyOfSubject
  <2> QED BY <1>1, <2>1 DEF Prepared, HoldsSubject, KeepsLocks
<1>7. StartReady(q)'
  <2> SUFFICES ASSUME pc[q] \notin {"idle", "rollback"}, Op(q) = "start"
               PROVE  StartReady(q)'
    BY DEF StartReady, Op
  <2>1. req[q].token \in Tokens /\ req[q].token # req[r].token
    BY <1>1 DEF Prepared, Shape, Apart, Op
  <2>2. ceremonies'[req[q].token] = ceremonies[req[q].token] BY <2>1 DEF Effects
  <2> QED BY <1>1, <2>2 DEF Prepared, StartReady, Op, AtCommit
<1>8. RegistrationReady(q)'
  <2> SUFFICES ASSUME Registering(q) PROVE RegistrationReady(q)'
    BY DEF RegistrationReady, Registering, Op
  <2>1. credentials[req[q].id] = None /\ history[req[q].id] = <<>>
    BY <1>1 DEF Prepared, RegistrationReady
  <2>2. req[q].id \in CredIds /\ req[r].id # req[q].id
    <3>1. req[q] \in Request /\ req[q].id # None
      BY <1>1, IdleRequest DEF Registering, Prepared, Shape, Op
    <3> QED BY <1>1, <3>1 DEF Apart, Request
  <2>3. Wrote(r) => tx[r].id # req[q].id BY <2>1, <2>2, WroteWhat
  <2>4. credentials'[req[q].id] = None BY <2>1, <2>2, <2>3 DEF Effects
  <2>5. About(r) # req[q].id
    <3>1. CASE Op(r) = "delete" BY <2>2, <3>1 DEF About, Op
    <3>2. CASE Op(r) # "delete"
      <4>1. About(r) \in Tokens BY <3>2, AtCommitHolds DEF About, Op
      <4> QED BY <2>2, <4>1, KeysAssumption
    <3> QED BY <3>1, <3>2
  <2>6. history'[req[q].id] = <<>> BY <2>1, <2>2, <2>5 DEF Effects
  <2>7. ASSUME Inserted(q), NEW d \in CredIds, credentials'[d] # None
        PROVE  ~SameKey(credentials'[d], tx[q].value)
    <3>1. credentials[d] # None => ~SameKey(credentials[d], tx[q].value)
      BY <1>1, <2>7 DEF Prepared, RegistrationReady
    <3>2. CASE ~(Wrote(r) /\ d = tx[r].id) BY <2>7, <3>1, <3>2 DEF Effects
    <3>3. CASE Wrote(r) /\ d = tx[r].id
      <4>1. Op(r) # "delete" /\ credentials'[d] = tx[r].value BY <2>7, <3>3 DEF Effects
      <4>2. CASE Inserted(r) BY <1>1, <2>7, <4>1, <4>2 DEF Apart
      <4>3. CASE credentials[d] # None
                 /\ tx[r].value = [credentials[d] EXCEPT !.count = tx[r].value.count]
        <5>1. credentials[d] \in Credential BY <4>3 DEF IInv, TypeOK, CredentialTable
        <5>2. tx[r].value.rp = credentials[d].rp /\ tx[r].value.wid = credentials[d].wid
          BY <4>3, <5>1 DEF Credential
        <5> QED BY <3>1, <4>1, <4>3, <5>2 DEF SameKey
      <4> QED BY <3>3, <4>1, <4>2, <4>3, WroteWhat
    <3> QED BY <3>2, <3>3
  <2>8. Inserted(q)' => Inserted(q) BY DEF Inserted, Registering, AtCommit, Op
  <2> QED BY <1>1, <2>4, <2>6, <2>7, <2>8
        DEF Prepared, RegistrationReady, Registering, Inserted, AtCommit, Op
<1>9. AuthenticationReady(q)'
  <2> SUFFICES ASSUME pc[q] # "idle", Op(q) = "finish", req[q].kind = "authentication",
                      pc[q] = "write" \/ (AtCommit(q) /\ tx[q].outcome = "ok")
               PROVE  AuthenticationReady(q)'
    BY DEF AuthenticationReady, Op, AtCommit
  <2>1. tx[q].id \in Usable(tx[q].row.scope, tx[q].row.rp)
    BY <1>1 DEF Prepared, AuthenticationReady
  <2>2. tx[q].id \in CredIds /\ credentials[tx[q].id] # None
        /\ credentials[tx[q].id].scope = tx[q].row.scope
    BY <2>1 DEF Usable, CredentialsOf
  <2>3. Wrote(r) => tx[r].id # tx[q].id
    BY <2>2, DistinctCredentials DEF Op, AtCommit, Deciding
  <2>4. credentials'[tx[q].id] = credentials[tx[q].id] BY <2>2, <2>3 DEF Effects
  <2> QED BY <1>1, <2>4 DEF Prepared, AuthenticationReady, Usable, CredentialsOf, Op, AtCommit
<1>10. DeletionReady(q)'
  <2> SUFFICES ASSUME AtCommit(q), Op(q) = "delete" PROVE DeletionReady(q)'
    BY DEF DeletionReady, Op, AtCommit
  <2>1. tx[q].id \in CredIds /\ credentials[tx[q].id] # None
        /\ credentials[tx[q].id].scope = req[q].scope
    BY <1>1 DEF Prepared, DeletionReady, CredentialsOf
  <2>2. Wrote(r) => tx[r].id # tx[q].id
    BY <2>1, DistinctCredentials DEF Op, AtCommit, Deciding
  <2>3. credentials'[tx[q].id] = credentials[tx[q].id] BY <2>1, <2>2 DEF Effects
  <2> QED BY <1>1, <2>3 DEF Prepared, DeletionReady, CredentialsOf, Op, AtCommit
<1>11. RejectionReady(q)' BY <1>1 DEF Prepared, RejectionReady, Op, AtCommit
<1> QED BY <1>3, <1>4, <1>5, <1>6, <1>7, <1>8, <1>9, <1>10, <1>11 DEF Prepared

(* A commit, confirmed or not, keeps the invariant. *)
LEMMA ApplyKeeps ==
    ASSUME IInv, NEW r \in Requests, AtCommit(r), Apply(r), End(r), UNCHANGED clock,
           answer' \in [Requests -> Codes \cup {"ok", None}]
    PROVE  IInv'
<1> USE DEF End, Goto, Release
<1>1. TypeOK /\ Effects(r) BY ApplyEffects DEF IInv
<1>2. TypeOK' BY <1>1, NoTxType DEF TypeOK, Effects, PC
<1>3. pc'[r] = "idle" /\ req'[r] = None /\ tx'[r] = NoTx BY <1>1 DEF TypeOK
<1>4. Alone(r)
  <2>1. \A q \in Requests \ {r} : Same(q) BY <1>1 DEF TypeOK, Same
  <2>2. \A q \in Requests \ {r} : KeepsLocks(q) BY DEF KeepsLocks
  <2>3. \A t \in Tokens : rowLock'[t] # r /\ rowLock'[t] \in {rowLock[t], None}
    BY RequestsAssumption
  <2>4. \A k \in LockKeys : subjectLock'[k] # r /\ subjectLock'[k] \in {subjectLock[k], None}
    BY RequestsAssumption
  <2> QED BY <2>1, <2>2, <2>3, <2>4 DEF Alone
<1>5. LocksHeld' BY <1>2, <1>4, LocksHeldAlone
<1>6. \A p, q \in Requests : p # q => Apart(p, q)'
  BY <1>3, <1>4, ApartIdle, ApartOthers DEF Alone
<1>7. ASSUME NEW q \in Requests PROVE Prepared(q)'
  <2>1. CASE q = r BY <1>3, <2>1, PreparedIdle
  <2>2. CASE q # r BY <1>1, <1>4, <2>2, ApplyFrame DEF Alone
  <2> QED BY <2>1, <2>2
<1> QED BY <1>2, <1>5, <1>6, <1>7 DEF IInv

(* The confirmed commit. *)
LEMMA CommitKeeps ==
    ASSUME IInv, NEW r \in Requests, Commit(r)
    PROVE  IInv'
<1>1. tx[r].outcome \in Codes \cup {"ok", None} BY DEF IInv, TypeOK, Transaction
<1>2. answer' \in [Requests -> Codes \cup {"ok", None}]
  BY <1>1 DEF Commit, Answer, IInv, TypeOK
<1> QED BY <1>2, ApplyKeeps DEF Commit, AtCommit

(* The commit in doubt, whichever way the database decides it. *)
LEMMA ResolveKeeps ==
    ASSUME IInv, NEW r \in Requests, Resolve(r)
    PROVE  IInv'
<1>1. answer' \in [Requests -> Codes \cup {"ok", None}] BY DEF Resolve, IInv, TypeOK
<1>2. CASE Apply(r) BY <1>1, <1>2, ApplyKeeps DEF Resolve, AtCommit
<1>3. CASE UNCHANGED tables BY <1>1, <1>3, EndKeeps DEF Resolve
<1> QED BY <1>2, <1>3 DEF Resolve

-----------------------------------------------------------------------------
(* The invariant. *)

LEMMA InitHolds == Init => IInv
<1> SUFFICES ASSUME Init PROVE IInv OBVIOUS
<1> USE DEF Init
<1>1. TypeOK BY NoTxType, SeedAssumption DEF TypeOK, PC
<1>2. LocksHeld BY DEF LocksHeld
<1>3. ASSUME NEW r \in Requests PROVE Prepared(r)
  <2>1. tx[r].outcome = None BY DEF NoTx
  <2> QED BY <2>1 DEF Prepared, Shape, Undecided, HoldsRow, HoldsSubject, StartReady,
         RegistrationReady, Registering, Inserted, AuthenticationReady, DeletionReady,
         RejectionReady, AtCommit, Deciding
<1>4. \A q, r \in Requests : q # r => Apart(q, r)
  BY DEF Apart, Registering, Inserted
<1> QED BY <1>1, <1>2, <1>3, <1>4 DEF IInv

(* Nothing happens. *)
LEMMA StutterKeeps ==
    ASSUME IInv, UNCHANGED vars
    PROVE  IInv'
<1> USE DEF vars, tables, locks
<1>1. TypeOK' BY DEF IInv, TypeOK
<1>2. LocksHeld' BY DEF IInv, LocksHeld
<1>3. ASSUME NEW q \in Requests PROVE Prepared(q)'
  <2>1. Same(q) /\ KeepsLocks(q) BY DEF Same, KeepsLocks
  <2>2. clock' \in Nat /\ clock <= clock' BY DEF IInv, TypeOK
  <2> QED BY <2>1, <2>2, Frame
<1>4. \A p, q \in Requests : p # q => Apart(p, q)'
  BY DEF IInv, Apart, Registering, Inserted, Op, AtCommit
<1> QED BY <1>1, <1>2, <1>3, <1>4 DEF IInv

(* The invariant is inductive. *)
LEMMA NextKeeps == IInv /\ [Next]_vars => IInv'
<1> SUFFICES ASSUME IInv, [Next]_vars PROVE IInv' OBVIOUS
<1>1. ASSUME NEW r \in Requests, CallArrives(r) PROVE IInv' BY <1>1, CallArrivesKeeps
<1>2. ASSUME NEW r \in Requests, Proceed(r) PROVE IInv'
  BY <1>2, ListCredentialsKeeps, BeginKeeps, SelectForUpdateKeeps, LockSubjectKeeps,
     CheckExpiryKeeps, VerifyKeeps, WriteKeeps, DeleteCredentialKeeps, CommitKeeps
     DEF Proceed
<1>3. ASSUME NEW r \in Requests, Fail(r) PROVE IInv' BY <1>3, FailKeeps
<1>4. ASSUME NEW r \in Requests, Rollback(r) PROVE IInv'
  BY <1>4, RollbackKeeps DEF Rollback
<1>5. ASSUME NEW r \in Requests, CommitUnknown(r) PROVE IInv' BY <1>5, CommitUnknownKeeps
<1>6. ASSUME NEW r \in Requests, Resolve(r) PROVE IInv' BY <1>6, ResolveKeeps
<1>7. CASE Tick BY <1>7, TickKeeps
<1>8. CASE UNCHANGED vars BY <1>8, StutterKeeps
<1> QED BY <1>1, <1>2, <1>3, <1>4, <1>5, <1>6, <1>7, <1>8 DEF Next

(* Between any two statements of any request, whatever the other requests   *)
(* and their nodes do or suffer, it holds the locks it took and the rows it *)
(* decided on are as it read them.                                          *)
THEOREM ServerInvariant == Spec => []IInv
BY InitHolds, NextKeeps, PTL DEF Spec

(* The variables of the nodes and the database keep their types.            *)
THEOREM ServerTypes == Spec => []TypeOK
<1>1. IInv => TypeOK BY DEF IInv
<1> QED BY <1>1, ServerInvariant, PTL

(* No set of busy requests waits in a cycle, for any number of requests,    *)
(* nodes and pool connections.                                              *)
THEOREM ServerNoDeadlock == Spec => []NoWaitCycle
BY NobodyWaitsInACycle, ServerInvariant, PTL

-----------------------------------------------------------------------------
(* What the calls are entitled to: a finish that succeeds was in time and   *)
(* authorized.                                                              *)

(* What a finish carries along from its test of the clock, and from the     *)
(* authorization it passed when it took the row.                            *)
Passed(r) == pc[r] \in {"verify", "write"} \/ (AtCommit(r) /\ tx[r].outcome = "ok")

InTime(r) ==
    /\ pc[r] = "check" => tx[r].lockedAt <= clock
    /\ Op(r) = "finish" /\ pc[r] # "idle" /\ Passed(r) => tx[r].lockedAt < tx[r].row.expires

Authorized(r) ==
    Op(r) = "finish" /\ pc[r] \in {"lock"} \cup Deciding =>
        AuthorizeFinish(req[r].node, tx[r].row, req[r].fp) = "ok"

Entitled(r) == InTime(r) /\ Authorized(r)

-----------------------------------------------------------------------------
(* A request's step changes nothing that others carry. *)
OnlyMoves(r) == clock' = clock /\ \A q \in Requests \ {r} : Same(q)

(* What a request carries does not depend on the others. *)
LEMMA EntitledFrame ==
    ASSUME IInv, NEW q \in Requests, Same(q), clock' \in Nat, clock <= clock', Entitled(q)
    PROVE  Entitled(q)'
<1>1. tx[q].lockedAt \in Nat /\ clock \in Nat BY DEF IInv, TypeOK, Transaction
<1>2. InTime(q)' BY <1>1 DEF Same, Entitled, InTime, Passed, AtCommit, Op
<1>3. Authorized(q)' BY DEF Same, Entitled, Authorized, Op
<1> QED BY <1>2, <1>3 DEF Entitled

(* A slot that is idle or abandons its transaction carries nothing.         *)
LEMMA EntitledEnd ==
    ASSUME NEW r \in Requests, pc'[r] \in {"idle", "rollback"}
    PROVE  Entitled(r)'
BY DEF Entitled, InTime, Authorized, Passed, AtCommit, Deciding

(* A request that is not a finish, or has not reached the row, carries      *)
(* nothing yet.                                                             *)
LEMMA EntitledBefore ==
    ASSUME NEW r \in Requests, pc'[r] \in {"list", "begin", "select"}
    PROVE  Entitled(r)'
BY DEF Entitled, InTime, Authorized, Passed, AtCommit, Deciding

(* Starts and deletions carry nothing. *)
LEMMA EntitledOther ==
    ASSUME NEW r \in Requests, Op(r)' # "finish", pc'[r] # "check"
    PROVE  Entitled(r)'
BY DEF Entitled, InTime, Authorized

(* A statement of r moves only r. *)
LEMMA ProceedMoves ==
    ASSUME IInv, NEW r \in Requests, Proceed(r)
    PROVE  OnlyMoves(r)
<1> USE DEF IInv, TypeOK, OnlyMoves, Same, Goto, Answer
<1>1. CASE ListCredentials(r) BY <1>1 DEF ListCredentials, Leave, End, Continue
<1>2. CASE Begin(r) BY <1>2 DEF Begin, Continue
<1>3. CASE SelectForUpdate(r) BY <1>3 DEF SelectForUpdate, Abort, Continue
<1>4. CASE LockSubject(r) BY <1>4 DEF LockSubject, Continue
<1>5. CASE CheckExpiry(r) BY <1>5 DEF CheckExpiry, Continue
<1>6. CASE Verify(r) BY <1>6 DEF Verify, Continue
<1>7. CASE Write(r) BY <1>7 DEF Write, Continue
<1>8. CASE DeleteCredential(r) BY <1>8 DEF DeleteCredential, Abort, Continue
<1>9. CASE Commit(r) BY <1>9 DEF Commit, End
<1> QED BY <1>1, <1>2, <1>3, <1>4, <1>5, <1>6, <1>7, <1>8, <1>9 DEF Proceed

-----------------------------------------------------------------------------
(* The statements of a finish, one lemma each. *)

LEMMA SelectEntitles ==
    ASSUME IInv, NEW r \in Requests, SelectForUpdate(r)
    PROVE  Entitled(r)'
<1>1. pc[r] = "select" BY DEF SelectForUpdate
<1>2. ASSUME NEW code, Abort(r, code) PROVE Entitled(r)'
  <2>1. pc'[r] = "rollback" BY <1>2 DEF Abort, Goto, IInv, TypeOK
  <2> QED BY <2>1, EntitledEnd
<1>3. CASE Admit(r, ceremonies[req[r].token]) = "ok"
           /\ Continue(r, "lock", [tx[r] EXCEPT !.row = ceremonies[req[r].token]])
  <2> DEFINE x == [tx[r] EXCEPT !.row = ceremonies[req[r].token]]
  <2>1. x.row = ceremonies[req[r].token] BY DEF IInv, TypeOK, Transaction
  <2> HIDE DEF x
  <2>2. pc'[r] = "lock" /\ req'[r] = req[r] /\ tx'[r] = x BY <1>3, Continued DEF x
  <2>3. AuthorizeFinish(req[r].node, x.row, req[r].fp) = "ok"
    BY <1>3, <2>1 DEF Admit
  <2> QED BY <2>2, <2>3 DEF Entitled, InTime, Authorized, Passed, AtCommit, Op
<1> QED BY <1>2, <1>3 DEF SelectForUpdate

(* The lock's time is the clock at which it was granted. *)
LEMMA LockEntitles ==
    ASSUME IInv, NEW r \in Requests, LockSubject(r), Entitled(r)
    PROVE  Entitled(r)'
<1> DEFINE label == IF req[r].op = "finish" THEN "check" ELSE "delete"
           x == [tx[r] EXCEPT !.lockedAt = clock]
<1>1. pc[r] = "lock" /\ Continue(r, label, x) BY DEF LockSubject
<1>2. x.row = tx[r].row /\ x.lockedAt = clock BY DEF IInv, TypeOK, Transaction
<1> HIDE DEF x
<1>3. pc'[r] = label /\ req'[r] = req[r] /\ tx'[r] = x /\ clock' = clock
  BY <1>1, Continued
<1>4. clock \in Nat BY DEF IInv, TypeOK
<1> QED BY <1>1, <1>2, <1>3, <1>4 DEF Entitled, InTime, Authorized, Passed, AtCommit, Op

(* The clock is tested after the lock was granted, so what passes was       *)
(* locked before it expired.                                                *)
LEMMA CheckEntitles ==
    ASSUME IInv, NEW r \in Requests, CheckExpiry(r), Entitled(r)
    PROVE  Entitled(r)'
<1> DEFINE outcome == Check(tx[r].row, clock)
           x == [tx[r] EXCEPT !.outcome = outcome]
<1>1. pc[r] = "check" BY DEF CheckExpiry
<1>2. Op(r) = "finish" /\ tx[r] \in Transaction /\ clock \in Nat
  BY <1>1, IdleRequest DEF IInv, TypeOK, Prepared, Shape, Op, Request
<1>3. tx[r].row \in Ceremony /\ tx[r].row.expires \in Nat /\ tx[r].lockedAt \in Nat
  BY <1>1, <1>2, FinishHolds DEF Deciding, Ceremony, Transaction
<1>4. CASE outcome = "ok" /\ Continue(r, "verify", tx[r])
  <2>1. pc'[r] = "verify" /\ req'[r] = req[r] /\ tx'[r] = tx[r] /\ clock' = clock
    BY <1>4, Continued
  <2>2. clock < tx[r].row.expires BY <1>2, <1>3, <1>4 DEF Check, Expired
  <2> QED BY <1>1, <1>2, <1>3, <2>1, <2>2
        DEF Entitled, InTime, Authorized, Passed, AtCommit, Op, Deciding
<1>5. CASE outcome # "ok" /\ Continue(r, "commit", x)
  <2>1. x.row = tx[r].row /\ x.outcome = outcome BY <1>2 DEF Transaction
  <2>2. pc'[r] = "commit" /\ req'[r] = req[r] /\ tx'[r] = x
    <3> HIDE DEF x
    <3> QED BY <1>5, Continued
  <2> HIDE DEF x, outcome
  <2> QED BY <1>1, <1>2, <1>5, <2>1, <2>2
        DEF Entitled, InTime, Authorized, Passed, AtCommit, Op, Deciding
<1> QED BY <1>4, <1>5 DEF CheckExpiry

(* Verify and Write keep the row and the time of the lock.                  *)
LEMMA KeepsEntitled ==
    ASSUME IInv, NEW r \in Requests, Entitled(r), NEW label \in {"write", "commit"}, NEW x,
           pc[r] \in {"verify", "write"}, Op(r) = "finish",
           x.row = tx[r].row, x.lockedAt = tx[r].lockedAt, Continue(r, label, x)
    PROVE  Entitled(r)'
<1>1. pc'[r] = label /\ req'[r] = req[r] /\ tx'[r] = x BY Continued
<1> QED BY <1>1 DEF Entitled, InTime, Authorized, Passed, AtCommit, Op, Deciding

(* Verify goes on from a passed test. *)
LEMMA VerifyEntitles ==
    ASSUME IInv, NEW r \in Requests, Verify(r), Entitled(r)
    PROVE  Entitled(r)'
<1>1. pc[r] = "verify" BY DEF Verify
<1>2. Op(r) = "finish" /\ tx[r] \in Transaction
  BY <1>1, IdleRequest DEF IInv, TypeOK, Prepared, Shape, Op, Request
<1> DEFINE row == tx[r].row
<1>3. CASE Continue(r, "commit", [tx[r] EXCEPT !.outcome = Invalid(row.kind)])
  <2> DEFINE x == [tx[r] EXCEPT !.outcome = Invalid(row.kind)]
  <2>1. x.row = tx[r].row /\ x.lockedAt = tx[r].lockedAt BY <1>2 DEF Transaction
  <2>2. Continue(r, "commit", x) BY <1>3
  <2> HIDE DEF x
  <2> QED BY <1>1, <1>2, <2>1, <2>2, KeepsEntitled
<1>4. CASE \E c, v : Continue(r, "write", [tx[r] EXCEPT !.id = c, !.value = v])
  <2>1. PICK c, v : Continue(r, "write", [tx[r] EXCEPT !.id = c, !.value = v]) BY <1>4
  <2> DEFINE x == [tx[r] EXCEPT !.id = c, !.value = v]
  <2>2. x.row = tx[r].row /\ x.lockedAt = tx[r].lockedAt BY <1>2 DEF Transaction
  <2>3. Continue(r, "write", x) BY <2>1
  <2> HIDE DEF x
  <2> QED BY <1>1, <1>2, <2>2, <2>3, KeepsEntitled
<1> QED BY <1>3, <1>4 DEF Verify

(* So does the INSERT or UPDATE. *)
LEMMA WriteEntitles ==
    ASSUME IInv, NEW r \in Requests, Write(r), Entitled(r)
    PROVE  Entitled(r)'
<1> DEFINE x == [tx[r] EXCEPT !.outcome = WriteOutcome(tx[r])]
<1>1. pc[r] = "write" /\ Continue(r, "commit", x) BY DEF Write
<1>2. Op(r) = "finish" /\ tx[r] \in Transaction
  BY <1>1, IdleRequest DEF IInv, TypeOK, Prepared, Shape, Op, Request
<1>3. x.row = tx[r].row /\ x.lockedAt = tx[r].lockedAt BY <1>2 DEF Transaction
<1> HIDE DEF x
<1> QED BY <1>1, <1>2, <1>3, KeepsEntitled

-----------------------------------------------------------------------------
(* All requests together. *)
AllEntitled == \A r \in Requests : Entitled(r)

(* All statements of a call. *)
LEMMA ProceedEntitles ==
    ASSUME IInv, NEW r \in Requests, Proceed(r), Entitled(r)
    PROVE  Entitled(r)'
<1>1. CASE SelectForUpdate(r) BY <1>1, SelectEntitles
<1>2. CASE LockSubject(r) BY <1>2, LockEntitles
<1>3. CASE CheckExpiry(r) BY <1>3, CheckEntitles
<1>4. CASE Verify(r) BY <1>4, VerifyEntitles
<1>5. CASE Write(r) BY <1>5, WriteEntitles
<1>6. CASE Commit(r)
  <2>1. pc'[r] = "idle" BY <1>6 DEF Commit, End, Goto, IInv, TypeOK
  <2> QED BY <2>1, EntitledEnd
<1>7. CASE ListCredentials(r)
  <2>1. pc'[r] \in {"idle", "begin"}
    BY <1>7 DEF ListCredentials, Leave, End, Continue, Goto, IInv, TypeOK
  <2> QED BY <2>1, EntitledEnd, EntitledBefore
<1>8. CASE Begin(r)
  <2>1. \/ pc'[r] = "select"
        \/ pc'[r] \in {"commit", "lock"} /\ req'[r] = req[r] /\ Op(r) # "finish"
    BY <1>8 DEF Begin, Continue, Goto, IInv, TypeOK, Op
  <2> QED BY <2>1, EntitledBefore, EntitledOther DEF Op
<1>9. CASE DeleteCredential(r)
  <2>1. pc[r] = "delete" /\ req'[r] = req[r] /\ pc'[r] \in {"commit", "rollback"}
    BY <1>9 DEF DeleteCredential, Abort, Continue, Goto, IInv, TypeOK
  <2>2. Op(r) # "finish" BY <2>1 DEF IInv, Prepared, Shape
  <2> QED BY <2>1, <2>2, EntitledOther DEF Op
<1> QED BY <1>1, <1>2, <1>3, <1>4, <1>5, <1>6, <1>7, <1>8, <1>9 DEF Proceed

(* All steps of all requests. *)
LEMMA NextEntitles == IInv /\ AllEntitled /\ [Next]_vars => AllEntitled'
<1> SUFFICES ASSUME IInv, AllEntitled, [Next]_vars PROVE AllEntitled' OBVIOUS
<1>1. clock \in Nat BY DEF IInv, TypeOK
<1>2. ASSUME NEW r \in Requests, OnlyMoves(r), Entitled(r)' PROVE AllEntitled'
  <2>1. \A q \in Requests \ {r} : Entitled(q)'
    BY <1>1, <1>2, EntitledFrame DEF OnlyMoves, AllEntitled
  <2> QED BY <1>2, <2>1 DEF AllEntitled
<1>3. ASSUME NEW r \in Requests, CallArrives(r) PROVE AllEntitled'
  <2>1. CASE \E code : TurnedAway(r, code)
    <3>1. \A q \in Requests : Same(q) BY <2>1 DEF TurnedAway, Same
    <3>2. clock' = clock BY <2>1 DEF TurnedAway
    <3> QED BY <1>1, <3>1, <3>2, EntitledFrame DEF AllEntitled
  <2>2. CASE \E call : Call(r, call)
    <3>1. pc'[r] \in {"list", "begin"} BY <2>2 DEF Call, Goto, IInv, TypeOK
    <3>2. OnlyMoves(r) BY <2>2 DEF Call, Goto, OnlyMoves, Same, IInv, TypeOK
    <3> QED BY <1>2, <3>1, <3>2, EntitledBefore
  <2>3. (\E code : TurnedAway(r, code)) \/ (\E call : Call(r, call))
    BY <1>3 DEF CallArrives, CallRefused, CallStart, CallFinish, CallDelete
  <2> QED BY <2>1, <2>2, <2>3
<1>4. ASSUME NEW r \in Requests, Proceed(r) PROVE AllEntitled'
  BY <1>2, <1>4, ProceedMoves, ProceedEntitles DEF AllEntitled
<1>5. ASSUME NEW r \in Requests, Fail(r) \/ Rollback(r) \/ Resolve(r) PROVE AllEntitled'
  <2>1. pc'[r] \in {"idle", "rollback"} /\ OnlyMoves(r)
    BY <1>5 DEF Fail, Rollback, Resolve, Leave, Abort, End, Goto, OnlyMoves, Same, IInv, TypeOK
  <2> QED BY <1>2, <2>1, EntitledEnd
<1>6. ASSUME NEW r \in Requests, CommitUnknown(r) PROVE AllEntitled'
  <2>1. /\ pc[r] = "commit" /\ pc'[r] = "inDoubt" /\ req'[r] = req[r] /\ tx'[r] = tx[r]
        /\ OnlyMoves(r)
    BY <1>6 DEF CommitUnknown, Goto, OnlyMoves, Same, IInv, TypeOK
  <2>2. Entitled(r)'
    BY <2>1 DEF AllEntitled, Entitled, InTime, Authorized, Passed, AtCommit, Op, Deciding
  <2> QED BY <1>2, <2>1, <2>2
<1>7. CASE Tick \/ UNCHANGED vars
  <2>1. \A q \in Requests : Same(q) BY <1>7 DEF Tick, vars, Same
  <2>2. clock' \in Nat /\ clock <= clock' BY <1>1, <1>7 DEF Tick, vars
  <2> QED BY <2>1, <2>2, EntitledFrame DEF AllEntitled
<1> QED BY <1>3, <1>4, <1>5, <1>6, <1>7 DEF Next

(* Every finish is in time and authorized at every one of its statements. *)
LEMMA AlwaysEntitled == Spec => []AllEntitled
<1>1. Init => AllEntitled
  BY DEF Init, AllEntitled, Entitled, InTime, Authorized, Passed, AtCommit, Deciding
<1> QED BY <1>1, NextEntitles, ServerInvariant, PTL DEF Spec

(* A finish whose ceremony expired while it waited for the row or for the   *)
(* subject lock never commits a success, however long it goes on.           *)
THEOREM ServerNoLateSuccess == Spec => []NoLateSuccess
<1>1. IInv /\ AllEntitled => NoLateSuccess
  BY DEF AllEntitled, Entitled, InTime, Passed, AtCommit, Op, NoLateSuccess
<1> QED BY <1>1, AlwaysEntitled, ServerInvariant, PTL

-----------------------------------------------------------------------------
(* Answers. *)

(* A handler answers in one of five ways. *)
LEMMA AnswerSources ==
    ASSUME IInv, [Next]_vars, NEW r \in Requests, Answering(r)
    PROVE  \/ Commit(r) \/ ListCredentials(r) \/ SelectForUpdate(r) \/ DeleteCredential(r)
           \/ answer'[r] = "internal_error" /\ UNCHANGED tables
<1>1. pc'[r] # pc[r] /\ pc'[r] \in {"idle", "rollback"} /\ pc[r] \in Working
  BY DEF Answering, Working, InTransaction
<1>2. ASSUME NEW q \in Requests, OnlyMoves(q) PROVE q = r
  BY <1>1, <1>2 DEF OnlyMoves, Same
<1>3. ASSUME NEW q \in Requests, CallArrives(q) PROVE FALSE
  <2>1. pc[q] = "idle" /\ \A p \in Requests \ {q} : pc'[p] = pc[p]
    BY <1>3 DEF CallArrives, CallRefused, CallStart, CallFinish, CallDelete, TurnedAway, Call,
                Goto, IInv, TypeOK
  <2> QED BY <1>1, <2>1 DEF Working, InTransaction
<1>4. ASSUME NEW q \in Requests, Proceed(q)
      PROVE  Commit(r) \/ ListCredentials(r) \/ SelectForUpdate(r) \/ DeleteCredential(r)
  <2>1. q = r BY <1>2, <1>4, ProceedMoves
  <2>2. CASE Begin(r)
    BY <1>1, <2>2 DEF Begin, Continue, Goto, IInv, TypeOK
  <2>3. CASE LockSubject(r)
    BY <1>1, <2>3 DEF LockSubject, Continue, Goto, IInv, TypeOK
  <2>4. CASE CheckExpiry(r)
    BY <1>1, <2>4 DEF CheckExpiry, Continue, Goto, IInv, TypeOK
  <2>5. CASE Verify(r)
    BY <1>1, <2>5 DEF Verify, Continue, Goto, IInv, TypeOK
  <2>6. CASE Write(r)
    BY <1>1, <2>6 DEF Write, Continue, Goto, IInv, TypeOK
  <2> QED BY <1>4, <2>1, <2>2, <2>3, <2>4, <2>5, <2>6 DEF Proceed
<1>5. ASSUME NEW q \in Requests, Fail(q)
      PROVE  answer'[r] = "internal_error" /\ UNCHANGED tables
  <2>1. OnlyMoves(q)
    BY <1>5 DEF Fail, Leave, Abort, End, Goto, OnlyMoves, Same, IInv, TypeOK
  <2>2. q = r BY <1>2, <2>1
  <2> QED BY <1>5, <2>2 DEF Fail, Leave, Abort, Answer, IInv, TypeOK
<1>6. ASSUME NEW q \in Requests, Rollback(q) \/ Resolve(q) \/ CommitUnknown(q) PROVE FALSE
  <2>1. OnlyMoves(q)
    BY <1>6 DEF Rollback, Resolve, CommitUnknown, End, Goto, OnlyMoves, Same, IInv, TypeOK
  <2>2. q = r BY <1>2, <2>1
  <2>3. ~CommitUnknown(r) BY <1>1 DEF CommitUnknown, Goto, IInv, TypeOK
  <2>4. pc[r] \in {"rollback", "inDoubt"} BY <1>6, <2>2, <2>3 DEF Rollback, Resolve
  <2> QED BY <1>1, <2>4 DEF Working, InTransaction
<1>7. CASE Tick \/ UNCHANGED vars BY <1>1, <1>7 DEF Tick, vars
<1> QED BY <1>3, <1>4, <1>5, <1>6, <1>7 DEF Next

(* What SelectForUpdate answers, and what it found. *)
LEMMA SelectAnswers ==
    ASSUME IInv, NEW r \in Requests, SelectForUpdate(r), Answering(r)
    PROVE  LET t == req[r].token
               code == AuthorizeFinish(req[r].node, ceremonies[t], req[r].fp) IN
           /\ UNCHANGED tables /\ Op(r) = "finish" /\ req[r].kind \in Kinds
           /\ \/ ~Found(r) /\ answer'[r] = NotFound(req[r].kind)
              \/ Found(r) /\ code # "ok" /\ answer'[r] = code
              \/ Found(r) /\ code = "ok" /\ answer'[r] = "conflict"
                   /\ ceremonies[t].state # "pending"
<1> DEFINE row == ceremonies[req[r].token]
<1>1. pc[r] = "select" BY DEF SelectForUpdate
<1>2. Op(r) = "finish" /\ req[r].kind \in Kinds
  BY <1>1, IdleRequest DEF IInv, Prepared, Shape, Op, Request
<1>3. ~Continue(r, "lock", [tx[r] EXCEPT !.row = row])
  BY DEF Continue, Goto, Answering, IInv, TypeOK
<1>4. \/ ~Found(r) /\ Abort(r, NotFound(req[r].kind))
      \/ Found(r) /\ Admit(r, row) # "ok" /\ Abort(r, Admit(r, row))
  BY <1>3 DEF SelectForUpdate
<1>5. \A code : Abort(r, code) => answer'[r] = code /\ UNCHANGED tables
  BY DEF Abort, Answer, IInv, TypeOK
<1> QED BY <1>2, <1>4, <1>5 DEF Admit

(* A finish that its caller's application does not allow learns nothing of  *)
(* the ceremony's state and consumes nothing, whatever runs beside it.      *)
THEOREM ServerAuthorizationFirst == Spec => AuthorizationFirst
<1> DEFINE Admitted ==
      \A r \in Requests :
         Answering(r) /\ req[r].op = "finish" /\ Found(r) =>
           LET code == AuthorizeFinish(req[r].node, ceremonies[req[r].token], req[r].fp)
           IN code # "ok" => answer'[r] \in {code, "internal_error"} /\ UNCHANGED tables
<1>1. IInv /\ AllEntitled /\ [Next]_vars => Admitted
  <2> SUFFICES ASSUME IInv, AllEntitled, [Next]_vars, NEW r \in Requests, Answering(r),
                      req[r].op = "finish", Found(r),
                      AuthorizeFinish(req[r].node, ceremonies[req[r].token], req[r].fp) # "ok"
               PROVE  /\ answer'[r] \in {AuthorizeFinish(req[r].node,
                                           ceremonies[req[r].token], req[r].fp),
                                         "internal_error"}
                      /\ UNCHANGED tables
    OBVIOUS
  <2>1. ~Commit(r)
    <3> SUFFICES ASSUME Commit(r) PROVE FALSE OBVIOUS
    <3>1. pc[r] \in Deciding /\ Op(r) = "finish" BY DEF Commit, Deciding, Op
    <3>2. tx[r].row = ceremonies[req[r].token] BY <3>1, FinishHolds
    <3> QED BY <3>1, <3>2 DEF AllEntitled, Entitled, Authorized
  <2>2. ~ListCredentials(r) /\ ~DeleteCredential(r)
    BY DEF ListCredentials, DeleteCredential, IInv, Prepared, Shape, Op
  <2>3. CASE SelectForUpdate(r) BY <2>3, SelectAnswers
  <2> QED BY <2>1, <2>2, <2>3, AnswerSources
<1>2. IInv /\ AllEntitled /\ [Next]_vars => [Admitted]_vars BY <1>1
<1> QED BY <1>2, AlwaysEntitled, ServerInvariant, PTL DEF Spec, AuthorizationFirst

(* The truth of one answer, as AnswersAreTrue states it. *)
Truthful(r) ==
    LET t == req[r].token
        a == answer'[r]
        k == req[r].kind
        was == ceremonies[t].state
        is == ceremonies'[t].state
    IN /\ req[r].op = "start" /\ a = "ok" =>
            ceremonies[t] = None /\ ceremonies'[t] # None /\ is = "pending"
       /\ req[r].op = "finish" =>
            /\ a = "ok" => was = "pending" /\ is = "succeeded"
            /\ a = "conflict" => is # "pending"
            /\ a = Expired(k) => was = "pending" /\ is = "expired"
            /\ a = Invalid(k) => (was = "pending" /\ is = "failed") \/ UNCHANGED tables
       /\ req[r].op = "delete" =>
            /\ a = "ok" => credentials[req[r].id] # None
                             /\ credentials'[req[r].id] = None
            /\ a = "credential_not_found" =>
                 req[r].id \notin CredentialsOf(req[r].scope)
       /\ a \in {"forbidden", "application_not_found", "internal_error",
                 NotFound("registration"), NotFound("authentication"),
                 "credential_not_found"} => UNCHANGED tables

(* An answer that says nothing was done is true if nothing was done. *)
LEMMA TrueUnchanged ==
    ASSUME NEW r \in Requests, UNCHANGED tables,
           answer'[r] \notin {"ok", "conflict", "credential_not_found",
                              "registration_expired", "authentication_expired"}
    PROVE  Truthful(r)
BY DEF Truthful, Expired

(* The answers given when the row is read are true. *)
LEMMA TrueSelect ==
    ASSUME IInv, NEW r \in Requests, SelectForUpdate(r), Answering(r)
    PROVE  Truthful(r)
<1>1. UNCHANGED tables /\ Op(r) = "finish" BY SelectAnswers
<1>2. CASE answer'[r] = "conflict" /\ ceremonies[req[r].token].state # "pending"
  BY <1>1, <1>2 DEF Truthful, Op, tables, Expired, Invalid
<1>3. \A n, row, fp : AuthorizeFinish(n, row, fp) \in
        {"ok", "application_not_found", "forbidden",
         "registration_invalid", "authentication_failed"}
  BY DEF AuthorizeFinish, Authorize, Invalid
<1>4. CASE answer'[r] \in {"application_not_found", "forbidden", "registration_invalid",
                           "authentication_failed", "registration_not_found",
                           "authentication_not_found"}
  BY <1>1, <1>4, TrueUnchanged
<1> QED BY <1>2, <1>3, <1>4, SelectAnswers DEF NotFound

(* So are those of a start that cannot begin, *)
LEMMA TrueList ==
    ASSUME IInv, NEW r \in Requests, ListCredentials(r), Answering(r)
    PROVE  Truthful(r)
<1>1. \A x : ~Continue(r, "begin", x)
  BY DEF Continue, Goto, Answering, IInv, TypeOK
<1>2. \E code \in {Invalid(req[r].kind), "internal_error"} : Leave(r, code)
  BY <1>1 DEF ListCredentials
<1>3. answer'[r] \in {Invalid(req[r].kind), "internal_error"} /\ UNCHANGED tables
  BY <1>2 DEF Leave, Answer, IInv, TypeOK
<1> QED BY <1>3, TrueUnchanged DEF Invalid

(* of a deletion that finds no credential, *)
LEMMA TrueDelete ==
    ASSUME IInv, NEW r \in Requests, DeleteCredential(r), Answering(r)
    PROVE  Truthful(r)
<1>1. \A x : ~Continue(r, "commit", x)
  BY DEF Continue, Goto, Answering, IInv, TypeOK
<1>2. /\ req[r].id \notin CredentialsOf(req[r].scope)
      /\ Abort(r, "credential_not_found")
  BY <1>1 DEF DeleteCredential
<1>3. answer'[r] = "credential_not_found" /\ UNCHANGED tables
  BY <1>2 DEF Abort, Answer, IInv, TypeOK
<1> QED BY <1>2, <1>3 DEF Truthful, Expired, Invalid

(* and of a commit. *)
LEMMA TrueCommit ==
    ASSUME IInv, NEW r \in Requests, Commit(r)
    PROVE  Truthful(r)
<1>1. AtCommit(r) /\ Apply(r) /\ answer'[r] = tx[r].outcome
  BY DEF Commit, AtCommit, Answer, IInv, TypeOK
<1>2. ceremonies \in CeremonyTable /\ credentials \in CredentialTable BY DEF IInv, TypeOK
<1>3. CASE Op(r) = "start"
  <2>1. /\ ceremonies[req[r].token] = None /\ req[r].token \in Tokens
        /\ tx[r].row = NewCeremony(req[r].kind, req[r].scope, tx[r].row.rp,
                                   tx[r].row.allowed, tx[r].row.expires)
        /\ tx[r].row \in Ceremony /\ tx[r].outcome = "ok"
    BY <1>1, <1>3, AtCommitHolds
  <2>2. ceremonies'[req[r].token] = tx[r].row
    BY <1>1, <1>2, <1>3, <2>1 DEF Apply, CeremoniesAfter, Op, CeremonyTable
  <2>3. tx[r].row.state = "pending" /\ tx[r].row # None
    BY <2>1, NoneAssumption DEF NewCeremony
  <2> QED BY <1>1, <1>3, <2>1, <2>2, <2>3 DEF Truthful, Op, NotFound
<1>4. CASE Op(r) = "finish"
  <2> DEFINE t == req[r].token
             k == req[r].kind
  <2>1. /\ t \in Tokens /\ ceremonies[t] \in Ceremony /\ tx[r].row = ceremonies[t]
        /\ ceremonies[t].state = "pending" /\ tx[r].row.kind = k /\ k \in Kinds
    BY <1>1, <1>4, AtCommitHolds
  <2>2. ceremonies'[t].state = StateOf(k, tx[r].outcome)
    BY <1>1, <1>2, <1>4, <2>1 DEF Apply, CeremoniesAfter, Op, CeremonyTable, Ceremony
  <2>3. tx[r].outcome \in {"ok", "conflict", Invalid(k), Expired(k)}
    BY <1>1, <1>4 DEF IInv, Prepared, RejectionReady
  <2>4. StateOf(k, "ok") = "succeeded" /\ StateOf(k, "conflict") = "failed"
        /\ StateOf(k, Invalid(k)) = "failed" /\ StateOf(k, Expired(k)) = "expired"
    BY <2>1 DEF StateOf, Invalid, Expired, Kinds
  <2>5. Invalid(k) \in {"registration_invalid", "authentication_failed"}
        /\ Expired(k) \in {"registration_expired", "authentication_expired"}
    BY DEF Invalid, Expired
  <2> HIDE DEF t, k
  <2>6. /\ tx[r].outcome = "ok" => ceremonies'[t].state = "succeeded"
        /\ tx[r].outcome = "conflict" => ceremonies'[t].state = "failed"
        /\ tx[r].outcome = Expired(k) => ceremonies'[t].state = "expired"
        /\ tx[r].outcome = Invalid(k) => ceremonies'[t].state = "failed"
    BY <2>2, <2>4
  <2> QED BY <1>1, <1>4, <2>1, <2>3, <2>5, <2>6 DEF Truthful, Op, NotFound, t, k
<1>5. CASE Op(r) = "delete"
  <2>1. Wrote(r) /\ req[r].id \in CredIds BY <1>1, <1>5, AtCommitHolds
  <2>2. tx[r].id = req[r].id /\ credentials[req[r].id] # None /\ tx[r].outcome = "ok"
    BY <1>1, <1>5, <2>1, WroteWhat DEF Inserted, Registering, Wrote
  <2>3. credentials'[req[r].id] = None BY <1>1, <1>5, <2>1, <2>2, ApplyEffects DEF Effects
  <2> QED BY <1>1, <1>5, <2>2, <2>3 DEF Truthful, Op, NotFound
<1> QED BY <1>1, <1>3, <1>4, <1>5, AtCommitHolds

(* Whatever interleaves with a call and whatever fails, its answer is the   *)
(* truth about the tables at the moment it is given.                        *)
THEOREM ServerAnswersAreTrue == Spec => AnswersAreTrue
<1> DEFINE AllTrue == \A r \in Requests : Answering(r) => Truthful(r)
<1>1. IInv /\ [Next]_vars => AllTrue
  <2> SUFFICES ASSUME IInv, [Next]_vars, NEW r \in Requests, Answering(r) PROVE Truthful(r)
    OBVIOUS
  <2>1. CASE answer'[r] = "internal_error" /\ UNCHANGED tables BY <2>1, TrueUnchanged
  <2> QED BY <2>1, AnswerSources, TrueCommit, TrueList, TrueSelect, TrueDelete
<1>2. IInv /\ [Next]_vars => [AllTrue]_vars BY <1>1
<1>3. Spec => [][AllTrue]_vars BY <1>2, ServerInvariant, PTL DEF Spec
<1> QED BY <1>3 DEF AnswersAreTrue, Truthful

-----------------------------------------------------------------------------
(* PasskeyServer implements PasskeyStore: a request's COMMIT is the moment  *)
(* at which its operation takes effect, and every other step of the nodes   *)
(* leaves the tables alone. What is proved of the store therefore holds of  *)
(* the servers.                                                             *)

(* The instance Store has its own copies of the definitions of PasskeyData; *)
(* they are the same sets and functions.                                    *)
LEMMA StoreData ==
    /\ Store!Kinds = Kinds /\ Store!Scopes = Scopes /\ Store!Counts = Counts
    /\ Store!Codes = Codes
    /\ \A k : Store!Invalid(k) = Invalid(k) /\ Store!Expired(k) = Expired(k)
    /\ \A k, s, rp, a, e : Store!NewCeremony(k, s, rp, a, e) = NewCeremony(k, s, rp, a, e)
    /\ \A row : Store!StartEvent(row) = StartEvent(row)
    /\ \A row, id, o : Store!FinishEvent(row, id, o) = FinishEvent(row, id, o)
    /\ \A s, c : Store!DeleteEvent(s, c) = DeleteEvent(s, c)
    /\ \A m, n : Store!Advances(m, n) <=> Advances(m, n)
<1>1. Store!Kinds = Kinds /\ Store!Scopes = Scopes /\ Store!Counts = Counts
      /\ Store!Codes = Codes
  BY DEF Store!Kinds, Kinds, Store!Scopes, Scopes, Store!Counts, Counts, Store!Codes, Codes
<1>2. \A k : Store!Invalid(k) = Invalid(k) /\ Store!Expired(k) = Expired(k)
  BY DEF Store!Invalid, Invalid, Store!Expired, Expired
<1>3. \A k, o : Store!StateOf(k, o) = StateOf(k, o)
  BY <1>2 DEF Store!StateOf, StateOf
<1>4. \A k, s, rp, a, e : Store!NewCeremony(k, s, rp, a, e) = NewCeremony(k, s, rp, a, e)
  BY DEF Store!NewCeremony, NewCeremony
<1>5. \A row : Store!StartEvent(row) = StartEvent(row)
  BY DEF Store!StartEvent, StartEvent
<1>6. \A row, id, o : Store!FinishEvent(row, id, o) = FinishEvent(row, id, o)
  BY <1>3 DEF Store!FinishEvent, FinishEvent
<1>7. \A s, c : Store!DeleteEvent(s, c) = DeleteEvent(s, c)
  BY DEF Store!DeleteEvent, DeleteEvent
<1>8. \A m, n : Store!Advances(m, n) <=> Advances(m, n)
  BY DEF Store!Advances, Advances
<1> QED BY <1>1, <1>2, <1>4, <1>5, <1>6, <1>7, <1>8

-----------------------------------------------------------------------------
(* What COMMIT does, operation by operation. *)

(* A start commits a new pending ceremony. *)
LEMMA StartImplements ==
    ASSUME IInv, NEW r \in Requests, AtCommit(r), Apply(r), UNCHANGED clock,
           Op(r) = "start"
    PROVE  Store!Next
<1> DEFINE t == req[r].token
           row == tx[r].row
<1>1. /\ t \in Tokens /\ ceremonies[t] = None /\ row \in Ceremony
      /\ row = NewCeremony(req[r].kind, req[r].scope, row.rp, row.allowed, row.expires)
      /\ req[r].kind \in Kinds /\ req[r].scope \in Scopes
      /\ row.expires <= clock + TTL /\ ~Wrote(r)
  BY AtCommitHolds
<1>2. /\ ceremonies' = [ceremonies EXCEPT ![t] = row]
      /\ credentials' = credentials
      /\ history' = [history EXCEPT ![t] = Append(@, StartEvent(row))]
  BY <1>1 DEF Apply, CeremoniesAfter, CredentialsAfter, HistoryAfter, EventOf, About, Op
<1>3. Store!Start(t, row)
  BY <1>1, <1>2, StoreData DEF Store!Start, Store!Record
<1>4. row = Store!NewCeremony(req[r].kind, req[r].scope, row.rp, row.allowed, row.expires)
  BY <1>1, StoreData
<1>5. row.rp \in RPs /\ row.allowed \in SUBSET Authenticators
      /\ row.expires \in 0..(clock + TTL)
  BY <1>1, TTLAssumption DEF Ceremony, IInv, TypeOK
<1> HIDE DEF t, row
<1>6. \E k \in Store!Kinds, s \in Store!Scopes, rp \in RPs,
         allowed \in SUBSET Authenticators, expires \in 0..(clock + TTL) :
         Store!Start(t, Store!NewCeremony(k, s, rp, allowed, expires))
  BY <1>1, <1>3, <1>4, <1>5, StoreData
<1> QED BY <1>1, <1>6 DEF Store!Next

(* A deletion commits the removal of the caller's credential. *)
LEMMA DeleteImplements ==
    ASSUME IInv, NEW r \in Requests, AtCommit(r), Apply(r), UNCHANGED clock,
           Op(r) = "delete"
    PROVE  Store!Next
<1> DEFINE c == req[r].id
<1>1. c \in CredIds /\ Wrote(r) BY AtCommitHolds
<1>2. tx[r].id = c /\ credentials[c] # None /\ credentials[c].scope = req[r].scope
  BY <1>1, WroteWhat DEF Inserted, Registering
<1>3. /\ ceremonies' = ceremonies
      /\ credentials' = [credentials EXCEPT ![c] = None]
      /\ history' = [history EXCEPT ![c] = Append(@, DeleteEvent(req[r].scope, c))]
  BY <1>1, <1>2 DEF Apply, CeremoniesAfter, CredentialsAfter, HistoryAfter, EventOf, About, Op
<1>4. Store!Delete(c)
  BY <1>2, <1>3, StoreData DEF Store!Delete, Store!Record
<1> QED BY <1>1, <1>4 DEF Store!Next

(* What a finish commits, in one shape for all its outcomes. *)
LEMMA FinishShape ==
    ASSUME IInv, NEW r \in Requests, AtCommit(r), Apply(r), Op(r) = "finish"
    PROVE  LET t == req[r].token IN
           /\ t \in Tokens /\ ceremonies[t] \in Ceremony /\ ceremonies[t] = tx[r].row
           /\ ceremonies[t].kind = req[r].kind /\ req[r].kind \in Kinds
           /\ Store!Pending(t)
           /\ ceremonies' = [ceremonies EXCEPT ![t] =
                [ceremonies[t] EXCEPT
                   !.state = StateOf(req[r].kind, tx[r].outcome),
                   !.credential = IF req[r].kind = "authentication" /\ tx[r].outcome = "ok"
                                  THEN tx[r].id ELSE ceremonies[t].credential]]
           /\ history' = [history EXCEPT ![t] =
                Append(@, FinishEvent(ceremonies[t], tx[r].id, tx[r].outcome))]
<1> DEFINE t == req[r].token
<1>1. /\ t \in Tokens /\ tx[r].row \in Ceremony /\ ceremonies[t] = tx[r].row
      /\ tx[r].row.kind = req[r].kind /\ req[r].kind \in Kinds
      /\ tx[r].row.state = "pending"
  BY AtCommitHolds
<1>2. Store!Pending(t) BY <1>1, NoneAssumption DEF Store!Pending
<1>3. ceremonies \in CeremonyTable BY DEF IInv, TypeOK
<1>4. ceremonies' = [ceremonies EXCEPT ![t] =
         [ceremonies[t] EXCEPT
            !.state = StateOf(req[r].kind, tx[r].outcome),
            !.credential = IF req[r].kind = "authentication" /\ tx[r].outcome = "ok"
                           THEN tx[r].id ELSE ceremonies[t].credential]]
  BY <1>1, <1>3 DEF Apply, CeremoniesAfter, Op, CeremonyTable
<1>5. history' = [history EXCEPT ![t] =
         Append(@, FinishEvent(ceremonies[t], tx[r].id, tx[r].outcome))]
  BY <1>1 DEF Apply, HistoryAfter, EventOf, About, Op
<1> QED BY <1>1, <1>2, <1>4, <1>5

(* A registration that succeeds commits its credential with it. *)
LEMMA RegisterImplements ==
    ASSUME IInv, NEW r \in Requests, AtCommit(r), Apply(r), UNCHANGED clock,
           Op(r) = "finish", tx[r].outcome = "ok", req[r].kind = "registration"
    PROVE  Store!Next
<1> DEFINE t == req[r].token
           c == tx[r].id
           v == tx[r].value
<1>1. /\ t \in Tokens /\ ceremonies[t] \in Ceremony /\ ceremonies[t] = tx[r].row
      /\ ceremonies[t].kind = "registration" /\ Store!Pending(t)
      /\ ceremonies' = [ceremonies EXCEPT ![t] =
           [ceremonies[t] EXCEPT !.state = "succeeded",
                                 !.credential = ceremonies[t].credential]]
      /\ history' = [history EXCEPT ![t] = Append(@, FinishEvent(ceremonies[t], c, "ok"))]
  BY FinishShape DEF StateOf
<1>2. Wrote(r) BY AtCommitHolds
<1>3. /\ c \in CredIds /\ v \in Credential /\ Inserted(r)
      /\ credentials[c] = None /\ history[c] = <<>>
      /\ v.scope = ceremonies[t].scope /\ v.rp = ceremonies[t].rp
  BY <1>1, <1>2, WroteWhat DEF Op
<1>4. \A d \in CredIds : credentials[d] # None => ~SameKey(credentials[d], v)
  BY <1>3 DEF IInv, Prepared, RegistrationReady, Inserted
<1>5. v.wid \in Authenticators /\ v.count \in Counts
      /\ v = [scope |-> ceremonies[t].scope, rp |-> ceremonies[t].rp,
              wid |-> v.wid, count |-> v.count]
  BY <1>3 DEF Credential
<1>6. credentials' = [credentials EXCEPT ![c] = v]
  BY <1>2 DEF Apply, CredentialsAfter, Op
<1>7. [ceremonies[t] EXCEPT !.state = "succeeded", !.credential = ceremonies[t].credential]
        = [ceremonies[t] EXCEPT !.state = "succeeded"]
  BY <1>1 DEF Ceremony
<1>8. ceremonies' = [ceremonies EXCEPT ![t].state = "succeeded"] BY <1>1, <1>7
<1>9. credentials' = [credentials EXCEPT ![c] =
          [scope |-> ceremonies[t].scope, rp |-> ceremonies[t].rp,
           wid |-> v.wid, count |-> v.count]]
  BY <1>5, <1>6
<1> HIDE DEF t, c, v
<1>10. \A d \in CredIds :
          credentials[d] # None =>
            ~(credentials[d].rp = ceremonies[t].rp /\ credentials[d].wid = v.wid)
  BY <1>3, <1>4 DEF SameKey
<1>11. history' = [history EXCEPT ![t] = Append(@, Store!FinishEvent(ceremonies[t], c, "ok"))]
  BY <1>1, StoreData
<1>12. Store!Register(t, c, v.wid, v.count)
  BY <1>1, <1>3, <1>8, <1>9, <1>10, <1>11 DEF Store!Register, Store!NeverUsed, Store!Record
<1>13. \E d \in CredIds, w \in Authenticators, n \in Store!Counts : Store!Register(t, d, w, n)
  BY <1>3, <1>5, <1>12, StoreData
<1> QED BY <1>1, <1>13 DEF Store!Next

(* An authentication that succeeds moves the counter of its credential.     *)
LEMMA AuthenticateImplements ==
    ASSUME IInv, NEW r \in Requests, AtCommit(r), Apply(r), UNCHANGED clock,
           Op(r) = "finish", tx[r].outcome = "ok", req[r].kind = "authentication"
    PROVE  Store!Next
<1> DEFINE t == req[r].token
           c == tx[r].id
           n == tx[r].value.count
<1>1. /\ t \in Tokens /\ ceremonies[t] \in Ceremony /\ ceremonies[t] = tx[r].row
      /\ ceremonies[t].kind = "authentication" /\ Store!Pending(t)
      /\ ceremonies' = [ceremonies EXCEPT ![t] =
           [ceremonies[t] EXCEPT !.state = "succeeded", !.credential = c]]
      /\ history' = [history EXCEPT ![t] = Append(@, FinishEvent(ceremonies[t], c, "ok"))]
  BY FinishShape DEF StateOf
<1>2. Wrote(r) BY AtCommitHolds
<1>3. /\ c \in CredIds /\ tx[r].value \in Credential /\ credentials[c] # None
      /\ credentials[c].scope = ceremonies[t].scope
      /\ credentials[c].rp = ceremonies[t].rp
      /\ credentials[c].wid \in ceremonies[t].allowed
      /\ Advances(credentials[c].count, n)
      /\ tx[r].value = [credentials[c] EXCEPT !.count = n]
  BY <1>1, <1>2, WroteWhat DEF Op, Inserted, Registering
<1>4. n \in Counts BY <1>3 DEF Credential
<1>5. credentials' = [credentials EXCEPT ![c].count = n]
  BY <1>2, <1>3 DEF Apply, CredentialsAfter, Op
<1>6. ceremonies' = [ceremonies EXCEPT ![t].state = "succeeded", ![t].credential = c]
  BY <1>1 DEF IInv, TypeOK, CeremonyTable
<1> HIDE DEF t, c, n
<1>7. history' = [history EXCEPT ![t] = Append(@, Store!FinishEvent(ceremonies[t], c, "ok"))]
  BY <1>1, StoreData
<1>8. Store!Advances(credentials[c].count, n) BY <1>3, StoreData
<1>9. Store!Authenticate(t, c, n)
  BY <1>1, <1>3, <1>5, <1>6, <1>7, <1>8 DEF Store!Authenticate, Store!Record
<1>10. \E d \in CredIds, m \in Store!Counts : Store!Authenticate(t, d, m)
  BY <1>3, <1>4, <1>9, StoreData
<1> QED BY <1>1, <1>10 DEF Store!Next

(* A finish that fails consumes the ceremony and touches no credential.     *)
LEMMA RejectImplements ==
    ASSUME IInv, NEW r \in Requests, AtCommit(r), Apply(r), UNCHANGED clock,
           Op(r) = "finish", tx[r].outcome # "ok"
    PROVE  Store!Next
<1> DEFINE t == req[r].token
           o == tx[r].outcome
           k == req[r].kind
<1>1. /\ t \in Tokens /\ ceremonies[t] \in Ceremony /\ ceremonies[t] = tx[r].row
      /\ ceremonies[t].kind = k /\ k \in Kinds /\ Store!Pending(t)
      /\ ceremonies' = [ceremonies EXCEPT ![t] =
           [ceremonies[t] EXCEPT !.state = StateOf(k, o),
                                 !.credential = ceremonies[t].credential]]
      /\ history' = [history EXCEPT ![t] =
            Append(@, FinishEvent(ceremonies[t], tx[r].id, o))]
  BY FinishShape
<1>2. \/ o = Invalid(k)
      \/ o = "conflict" /\ k = "registration"
      \/ o = Expired(k) /\ clock >= ceremonies[t].expires
  BY <1>1 DEF IInv, Prepared, RejectionReady
<1>3. [ceremonies[t] EXCEPT !.state = StateOf(k, o), !.credential = ceremonies[t].credential]
        = [ceremonies[t] EXCEPT !.state = StateOf(k, o)]
  BY <1>1 DEF Ceremony
<1>4. ceremonies' = [ceremonies EXCEPT ![t].state = StateOf(k, o)] BY <1>1, <1>3
<1>5. credentials' = credentials BY DEF Apply, CredentialsAfter, Wrote
<1>6. FinishEvent(ceremonies[t], tx[r].id, o) = Store!FinishEvent(ceremonies[t], None, o)
  BY StoreData DEF FinishEvent
<1>7. history' = [history EXCEPT ![t] = Append(@, Store!FinishEvent(ceremonies[t], None, o))]
  BY <1>1, <1>6
<1>8. CASE o = Invalid(k) \/ (o = "conflict" /\ k = "registration")
  <2>1. StateOf(k, o) = "failed" /\ o \in Codes
    BY <1>1, <1>8 DEF StateOf, Invalid, Expired, Codes, Kinds
  <2>2. Store!Reject(t, o)
    BY <1>1, <1>4, <1>5, <1>7, <1>8, <2>1, StoreData DEF Store!Reject, Store!Record
  <2> QED BY <1>1, <2>1, <2>2, StoreData DEF Store!Next
<1>9. CASE o = Expired(k) /\ clock >= ceremonies[t].expires
  <2>1. StateOf(k, o) = "expired" BY <1>9 DEF StateOf, Expired
  <2>2. Store!Expire(t)
    BY <1>1, <1>4, <1>5, <1>7, <1>9, <2>1, StoreData DEF Store!Expire, Store!Record
  <2> QED BY <1>1, <2>2 DEF Store!Next
<1> QED BY <1>2, <1>8, <1>9

(* Every commit is one atomic operation of the store. *)
LEMMA CommitImplements ==
    ASSUME IInv, NEW r \in Requests, AtCommit(r), Apply(r), UNCHANGED clock
    PROVE  Store!Next
<1>1. Op(r) = "finish" => req[r].kind \in Kinds BY AtCommitHolds
<1> QED BY <1>1, AtCommitHolds, StartImplements, RegisterImplements, AuthenticateImplements,
           RejectImplements, DeleteImplements DEF Kinds

-----------------------------------------------------------------------------
(* Every step of the servers is a step of the store or leaves it alone.     *)
LEMMA StepImplements == IInv /\ [Next]_vars => [Store!Next]_(Store!vars)
<1> SUFFICES ASSUME IInv, [Next]_vars PROVE Store!Next \/ UNCHANGED Store!vars OBVIOUS
<1> USE DEF tables, Store!vars
<1>1. ASSUME NEW r \in Requests, CallArrives(r) PROVE UNCHANGED Store!vars
  BY <1>1 DEF CallArrives, CallRefused, CallStart, CallFinish, CallDelete, Call, TurnedAway
<1>2. ASSUME NEW r \in Requests, Proceed(r) PROVE Store!Next \/ UNCHANGED Store!vars
  <2>1. CASE Commit(r) BY <2>1, CommitImplements DEF Commit, AtCommit
  <2>2. CASE ListCredentials(r) BY <2>2 DEF ListCredentials, Leave, Continue
  <2>3. CASE Begin(r) BY <2>3 DEF Begin, Continue
  <2>4. CASE SelectForUpdate(r) BY <2>4 DEF SelectForUpdate, Abort, Continue
  <2>5. CASE LockSubject(r) BY <2>5 DEF LockSubject, Continue
  <2>6. CASE CheckExpiry(r) BY <2>6 DEF CheckExpiry, Continue
  <2>7. CASE Verify(r) BY <2>7 DEF Verify, Continue
  <2>8. CASE Write(r) BY <2>8 DEF Write, Continue
  <2>9. CASE DeleteCredential(r) BY <2>9 DEF DeleteCredential, Abort, Continue
  <2> QED BY <1>2, <2>1, <2>2, <2>3, <2>4, <2>5, <2>6, <2>7, <2>8, <2>9 DEF Proceed
<1>3. ASSUME NEW r \in Requests, Fail(r) PROVE UNCHANGED Store!vars
  BY <1>3 DEF Fail, Leave, Abort
<1>4. ASSUME NEW r \in Requests, Rollback(r) PROVE UNCHANGED Store!vars
  BY <1>4 DEF Rollback
<1>5. ASSUME NEW r \in Requests, CommitUnknown(r) PROVE UNCHANGED Store!vars
  BY <1>5 DEF CommitUnknown
<1>6. ASSUME NEW r \in Requests, Resolve(r) PROVE Store!Next \/ UNCHANGED Store!vars
  BY <1>6, CommitImplements DEF Resolve, AtCommit
<1>7. CASE Tick
  <2>1. Store!Tick BY <1>7 DEF Tick, Store!Tick, Store!tables
  <2> QED BY <2>1 DEF Store!Next
<1>8. CASE UNCHANGED vars BY <1>8 DEF vars
<1> QED BY <1>1, <1>2, <1>3, <1>4, <1>5, <1>6, <1>7, <1>8 DEF Next

(* Seen at the tables, any number of requests on any number of nodes, with  *)
(* every interleaving and failure of the model, behave as the repository's  *)
(* atomic operations in some order.                                         *)
THEOREM ServerImplementsStore == Spec => ImplementsStore
<1>1. Init => Store!Init BY DEF Init, Store!Init
<1> QED BY <1>1, StepImplements, ServerInvariant, PTL DEF Spec, ImplementsStore, Store!Spec

-----------------------------------------------------------------------------
(* The theorems about the store, transferred.  Kept is the instance that    *)
(* carries them; its definitions are those of Store.                        *)
Kept == INSTANCE PasskeyStoreProofs

(* Kept's copies of the data definitions are those of PasskeyData. *)
LEMMA KeptData ==
    /\ Kept!Kinds = Kinds /\ Kept!Scopes = Scopes /\ Kept!Counts = Counts
    /\ Kept!Codes = Codes /\ Kept!CeremonyStates = CeremonyStates
    /\ Kept!Ceremony = Ceremony /\ Kept!Credential = Credential /\ Kept!Event = Event
    /\ \A k : Kept!Invalid(k) = Invalid(k) /\ Kept!Expired(k) = Expired(k)
    /\ \A k, s, rp, a, e : Kept!NewCeremony(k, s, rp, a, e) = NewCeremony(k, s, rp, a, e)
    /\ \A row : Kept!StartEvent(row) = StartEvent(row)
    /\ \A row, id, o : Kept!FinishEvent(row, id, o) = FinishEvent(row, id, o)
    /\ \A s, c : Kept!DeleteEvent(s, c) = DeleteEvent(s, c)
    /\ \A m, n : Kept!Advances(m, n) <=> Advances(m, n)
<1>1. /\ Kept!Kinds = Kinds /\ Kept!Scopes = Scopes /\ Kept!Counts = Counts
      /\ Kept!Codes = Codes /\ Kept!CeremonyStates = CeremonyStates
  BY DEF Kept!Kinds, Kinds, Kept!Scopes, Scopes, Kept!Counts, Counts, Kept!Codes, Codes,
         Kept!CeremonyStates, CeremonyStates
<1>2. Kept!Ceremony = Ceremony /\ Kept!Credential = Credential /\ Kept!Event = Event
  BY <1>1 DEF Kept!Ceremony, Ceremony, Kept!Credential, Credential, Kept!Event, Event
<1>3. \A k : Kept!Invalid(k) = Invalid(k) /\ Kept!Expired(k) = Expired(k)
  BY DEF Kept!Invalid, Invalid, Kept!Expired, Expired
<1>4. \A k, o : Kept!StateOf(k, o) = StateOf(k, o)
  BY <1>3 DEF Kept!StateOf, StateOf
<1>5. \A k, s, rp, a, e : Kept!NewCeremony(k, s, rp, a, e) = NewCeremony(k, s, rp, a, e)
  BY DEF Kept!NewCeremony, NewCeremony
<1>6. \A row : Kept!StartEvent(row) = StartEvent(row)
  BY DEF Kept!StartEvent, StartEvent
<1>7. \A row, id, o : Kept!FinishEvent(row, id, o) = FinishEvent(row, id, o)
  BY <1>4 DEF Kept!FinishEvent, FinishEvent
<1>8. \A s, c : Kept!DeleteEvent(s, c) = DeleteEvent(s, c)
  BY DEF Kept!DeleteEvent, DeleteEvent
<1>9. \A m, n : Kept!Advances(m, n) <=> Advances(m, n)
  BY DEF Kept!Advances, Advances
<1> QED BY <1>1, <1>2, <1>3, <1>5, <1>6, <1>7, <1>8, <1>9

(* What must be true of the tables together is the same formula in every    *)
(* copy of the data module.                                                 *)
LEMMA KeptFormulas ==
    /\ \A creds : Kept!OneOwner(creds) <=> OneOwner(creds)
    /\ \A x, y, z : Kept!LogAgrees(x, y, z) <=> LogAgrees(x, y, z)
<1>1. \A creds : Kept!OneOwner(creds) <=> OneOwner(creds)
  BY DEF Kept!OneOwner, OneOwner
<1>2. \A row, log : Kept!CeremonyLogged(row, log) <=> CeremonyLogged(row, log)
  BY KeptData DEF Kept!CeremonyLogged, CeremonyLogged
<1>3. \A c, x, z : Kept!Registered(c, x, z) = Registered(c, x, z)
  BY DEF Kept!Registered, Registered
<1>4. \A c, x, y, z : Kept!CredentialLogged(c, x, y, z) <=> CredentialLogged(c, x, y, z)
  BY <1>3, KeptData DEF Kept!CredentialLogged, CredentialLogged
<1>5. \A x, y, z : Kept!LogAgrees(x, y, z) <=> LogAgrees(x, y, z)
  BY <1>2, <1>4 DEF Kept!LogAgrees, LogAgrees
<1> QED BY <1>1, <1>5

(* The same for the copies in Store. *)
LEMMA StoreFormulas ==
    /\ \A creds : Store!OneOwner(creds) <=> OneOwner(creds)
    /\ \A x, y, z : Store!LogAgrees(x, y, z) <=> LogAgrees(x, y, z)
<1>1. \A creds : Store!OneOwner(creds) <=> OneOwner(creds)
  BY DEF Store!OneOwner, OneOwner
<1>2. \A row, log : Store!CeremonyLogged(row, log) <=> CeremonyLogged(row, log)
  BY StoreData DEF Store!CeremonyLogged, CeremonyLogged
<1>3. \A c, x, z : Store!Registered(c, x, z) = Registered(c, x, z)
  BY DEF Store!Registered, Registered
<1>4. \A c, x, y, z : Store!CredentialLogged(c, x, y, z) <=> CredentialLogged(c, x, y, z)
  BY <1>3, StoreData DEF Store!CredentialLogged, CredentialLogged
<1>5. \A x, y, z : Store!LogAgrees(x, y, z) <=> LogAgrees(x, y, z)
  BY <1>2, <1>4 DEF Store!LogAgrees, LogAgrees
<1> QED BY <1>1, <1>5

(* The assumptions under which the store's theorems hold. *)
LEMMA KeptAssumptions ==
    /\ Kept!ConfigOK
    /\ LockKey \in [Kept!Scopes -> LockKeys]
    /\ None \notin Kept!Ceremony \cup Kept!Credential \cup Tokens \cup CredIds
                   \cup Kept!Codes \cup {"ok"}
    /\ Seed.ceremonies \in Kept!CeremonyTable
    /\ Seed.credentials \in Kept!CredentialTable
    /\ Seed.history \in Kept!HistoryTable
    /\ Kept!OneOwner(Seed.credentials)
    /\ Kept!LogAgrees(Seed.ceremonies, Seed.credentials, Seed.history)
<1>1. Kept!ConfigOK BY ConfigAssumption DEF ConfigOK, Kept!ConfigOK
<1>2. LockKey \in [Kept!Scopes -> LockKeys] BY KeptData, LockKeyAssumption
<1>3. None \notin Kept!Ceremony \cup Kept!Credential \cup Tokens \cup CredIds
                  \cup Kept!Codes \cup {"ok"}
  BY KeptData, NoneAssumption
<1>4. Kept!CeremonyTable = CeremonyTable /\ Kept!CredentialTable = CredentialTable
      /\ Kept!HistoryTable = HistoryTable
  BY KeptData DEF Kept!CeremonyTable, CeremonyTable, Kept!CredentialTable, CredentialTable,
                  Kept!HistoryTable, HistoryTable
<1> QED BY <1>1, <1>2, <1>3, <1>4, KeptFormulas, SeedAssumption

(* The two instances are the same specification. *)
LEMMA SameStore == Store!Spec => Kept!Spec
<1>1. Store!Init => Kept!Init BY DEF Store!Init, Kept!Init
<1>2. Store!Next => Kept!Next
  <2>1. \A t : Store!Pending(t) <=> Kept!Pending(t) BY DEF Store!Pending, Kept!Pending
  <2>2. \A key, event : Store!Record(key, event) <=> Kept!Record(key, event)
    BY DEF Store!Record, Kept!Record
  <2>3. \A c : Store!NeverUsed(c) <=> Kept!NeverUsed(c)
    BY DEF Store!NeverUsed, Kept!NeverUsed
  <2>4. /\ \A k : Store!Invalid(k) = Kept!Invalid(k) /\ Store!Expired(k) = Kept!Expired(k)
        /\ \A row : Store!StartEvent(row) = Kept!StartEvent(row)
        /\ \A row, id, o : Store!FinishEvent(row, id, o) = Kept!FinishEvent(row, id, o)
        /\ \A s, c : Store!DeleteEvent(s, c) = Kept!DeleteEvent(s, c)
        /\ \A m, n : Store!Advances(m, n) <=> Kept!Advances(m, n)
        /\ \A k, s, rp, a, e :
              Store!NewCeremony(k, s, rp, a, e) = Kept!NewCeremony(k, s, rp, a, e)
    BY KeptData, StoreData
  <2>5. \A t, row : Store!Start(t, row) => Kept!Start(t, row)
    BY <2>2, <2>4 DEF Store!Start, Kept!Start
  <2>6. ASSUME NEW t, NEW c, NEW w, NEW n, Store!Register(t, c, w, n)
        PROVE  Kept!Register(t, c, w, n)
    <3>1. Kept!Record(t, Kept!FinishEvent(ceremonies[t], c, "ok"))
      BY <2>2, <2>4, <2>6 DEF Store!Register
    <3> QED BY <2>1, <2>3, <2>6, <3>1 DEF Store!Register, Kept!Register
  <2>7. ASSUME NEW t, NEW c, NEW n, Store!Authenticate(t, c, n)
        PROVE  Kept!Authenticate(t, c, n)
    <3>1. Kept!Record(t, Kept!FinishEvent(ceremonies[t], c, "ok"))
      BY <2>2, <2>4, <2>7 DEF Store!Authenticate
    <3>2. Kept!Advances(credentials[c].count, n) BY <2>4, <2>7 DEF Store!Authenticate
    <3> QED BY <2>1, <2>7, <3>1, <3>2, Zenon DEF Store!Authenticate, Kept!Authenticate
  <2>8. \A t, code : Store!Reject(t, code) => Kept!Reject(t, code)
    BY <2>1, <2>2, <2>4 DEF Store!Reject, Kept!Reject
  <2>9. \A t : Store!Expire(t) => Kept!Expire(t)
    BY <2>1, <2>2, <2>4 DEF Store!Expire, Kept!Expire
  <2>10. \A c : Store!Delete(c) => Kept!Delete(c)
    BY <2>2, <2>4 DEF Store!Delete, Kept!Delete
  <2>11. Store!Tick => Kept!Tick
    BY DEF Store!Tick, Kept!Tick, Store!tables, Kept!tables
  <2>12. Store!Kinds = Kept!Kinds /\ Store!Scopes = Kept!Scopes
         /\ Store!Counts = Kept!Counts /\ Store!Codes = Kept!Codes
    BY KeptData, StoreData
  <2> QED BY <2>4, <2>5, <2>6, <2>7, <2>8, <2>9, <2>10, <2>11, <2>12
        DEF Store!Next, Kept!Next
<1>3. [Store!Next]_(Store!vars) => [Kept!Next]_(Kept!vars)
  BY <1>2 DEF Store!vars, Kept!vars
<1> QED BY <1>1, <1>3, PTL DEF Store!Spec, Kept!Spec

(* The servers implement the instance that carries the theorems. *)
LEMMA ServerKept == Spec => Kept!Spec
BY ServerImplementsStore, SameStore DEF ImplementsStore

(* At most one credential row per authenticator and relying party, however  *)
(* registrations of different scopes race.                                  *)
THEOREM ServerOneOwner == Spec => []OneOwnerPerAuthenticator
<1>1. Kept!OneOwnerPerAuthenticator => OneOwnerPerAuthenticator
  BY KeptFormulas, StoreFormulas
  DEF OneOwnerPerAuthenticator, Store!OneOwnerPerAuthenticator, Kept!OneOwnerPerAuthenticator
<1>2. Kept!Spec => []Kept!OneOwnerPerAuthenticator
  BY Kept!StoreOneOwner, KeptAssumptions, MaxCountAssumption, MaxTimeAssumption,
     TTLAssumption, KeysAssumption
<1> QED BY <1>1, <1>2, ServerKept, PTL

(* The tables tell one story after every commit, in every race and failure. *)
THEOREM ServerLogMatches == Spec => []LogMatchesTables
<1>1. Kept!LogMatchesTables => LogMatchesTables
  BY KeptFormulas, StoreFormulas
  DEF LogMatchesTables, Store!LogMatchesTables, Kept!LogMatchesTables
<1>2. Kept!Spec => []Kept!LogMatchesTables
  BY Kept!StoreLogMatches, KeptAssumptions, MaxCountAssumption, MaxTimeAssumption,
     TTLAssumption, KeysAssumption
<1> QED BY <1>1, <1>2, ServerKept, PTL

(* No race reopens a completed ceremony or brings a credential back.        *)
THEOREM ServerTerminalIsFinal == Spec => TerminalIsFinal
<1>1. [Kept!KeepsTerminal]_(Kept!vars) => [Store!KeepsTerminal]_(Store!vars)
  BY DEF Kept!KeepsTerminal, Store!KeepsTerminal, Kept!vars, Store!vars
<1>2. Kept!Spec => Kept!TerminalIsFinal
  BY Kept!StoreTerminalIsFinal, KeptAssumptions, MaxCountAssumption, MaxTimeAssumption,
     TTLAssumption, KeysAssumption
<1> QED BY <1>1, <1>2, ServerKept, PTL
        DEF TerminalIsFinal, Store!TerminalIsFinal, Kept!TerminalIsFinal

(* Counters of racing authentications only move forward.                    *)
THEOREM ServerCounterAdvances == Spec => CounterAdvances
<1>1. [Kept!CounterStep]_(Kept!vars) => [Store!CounterStep]_(Store!vars)
  <2>1. \A t : Store!Pending(t) <=> Kept!Pending(t) BY DEF Store!Pending, Kept!Pending
  <2>2. \A m, n : Store!Advances(m, n) <=> Kept!Advances(m, n) BY KeptData, StoreData
  <2> QED BY <2>1, <2>2 DEF Kept!CounterStep, Store!CounterStep, Kept!vars, Store!vars
<1>2. Kept!Spec => Kept!CounterAdvances
  BY Kept!StoreCounterAdvances, KeptAssumptions, MaxCountAssumption, MaxTimeAssumption,
     TTLAssumption, KeysAssumption
<1> QED BY <1>1, <1>2, ServerKept, PTL
        DEF CounterAdvances, Store!CounterAdvances, Kept!CounterAdvances
=============================================================================
