------------------------------- MODULE Migration ---------------------------
(***************************************************************************)
(* Migrate: server nodes that start, fail and restart together against one *)
(* database, with one session-level advisory lock and one transaction per  *)
(* embedded migration. Nodes of different releases embed different files.  *)
(***************************************************************************)
EXTENDS Naturals, Sequences, FiniteSets

CONSTANTS
    Nodes,
    MaxVersion, Checksums, None, Seeds,     \* as in SchemaHistory
    Bundle,     \* node -> checksums of the files its binary embeds, in order
    Orphan      \* a database session whose client is gone

Versions == 1..MaxVersion
Table == [Versions -> Checksums \cup {None}]
SchemaVersion(n) == Len(Bundle[n])

ASSUME VersionsAssumption == MaxVersion \in Nat \ {0}
ASSUME ChecksumsAssumption == None \notin Checksums
ASSUME SeedsAssumption == Seeds \subseteq Table
ASSUME NodesAssumption == {None, Orphan} \cap Nodes = {} /\ None # Orphan
ASSUME BundleAssumption ==
    /\ Bundle \in [Nodes -> Seq(Checksums)]
    /\ \A n \in Nodes : SchemaVersion(n) \in Versions

VARIABLES
    rows,       \* table migration: version -> checksum, None where there is no row
    objects,    \* versions whose SQL has been executed and committed
    created,    \* table migration exists
    lock,       \* the session that holds pg_advisory_lock(migrationLock)
    doubt,      \* the COMMIT an orphaned session has yet to decide, or None
    waiting,    \* nodes that gave up a session which still waits for the lock
    pc,         \* node -> the statement Migrate runs next
    at,         \* node -> the version it is at
    verdict     \* node -> how its latest Migrate ended, None before

database == <<rows, objects, created>>
sessions == <<lock, doubt, waiting>>
vars == <<database, sessions, pc, at, verdict>>

History == INSTANCE SchemaHistory WITH rows <- rows
Recorded == History!Recorded
LatestBefore(v) == History!LatestBefore(v)

-----------------------------------------------------------------------------
InTable == {"read", "latest", "apply", "commit"}
Holding == {"create", "check", "unlock"} \cup InTable
Working == {"lock"} \cup Holding
PC == {"down", "serving"} \cup Working
Reasons == {"mismatch", "noncontiguous", "exists", "unsupported", "infrastructure"}
ASSUME VerdictAssumption == None \notin Reasons \cup {"ok"}

TypeOK ==
    /\ rows \in Table
    /\ objects \subseteq Versions
    /\ created \in BOOLEAN
    /\ lock \in Nodes \cup {None, Orphan}
    /\ doubt \in [version : Versions, sum : Checksums] \cup {None}
    /\ waiting \subseteq Nodes
    /\ pc \in [Nodes -> PC]
    /\ at \in [Nodes -> Versions]
    /\ verdict \in [Nodes -> Reasons \cup {"ok", None}]

Init ==
    /\ rows \in Seeds
    /\ objects = Recorded
    /\ created \in BOOLEAN /\ (Recorded # {} => created)
    /\ lock = None /\ doubt = None /\ waiting = {}
    /\ pc = [n \in Nodes |-> "down"]
    /\ at = [n \in Nodes |-> 1]
    /\ verdict = [n \in Nodes |-> None]

-----------------------------------------------------------------------------
Goto(n, label) == pc' = [pc EXCEPT ![n] = label]
Judge(n, why) == verdict' = [verdict EXCEPT ![n] = why]

(* Migrate returns: the deferred unlock comes next.                         *)
Return(n, why) == Goto(n, "unlock") /\ Judge(n, why) /\ UNCHANGED at

(* The end of an iteration of the loop over the embedded files.             *)
Advance(n) ==
    /\ IF at[n] = SchemaVersion(n)
         THEN Goto(n, "check") /\ UNCHANGED at
         ELSE Goto(n, "read") /\ at' = [at EXCEPT ![n] = @ + 1]
    /\ UNCHANGED verdict

Start(n) ==
    /\ pc[n] = "down"
    /\ Goto(n, "lock") /\ Judge(n, None)
    /\ at' = [at EXCEPT ![n] = 1]
    /\ UNCHANGED <<database, sessions>>

(* SELECT pg_advisory_lock on the connection Migrate took from the pool.    *)
(* Faulty variant: no lock.                                                 *)
LockIgnored == TRUE
LockFree == lock = None
Lock(n) ==
    /\ pc[n] = "lock"
    /\ LockFree
    /\ lock' = n
    /\ Goto(n, "create")
    /\ UNCHANGED <<database, doubt, waiting, at, verdict>>

Create(n) ==
    /\ pc[n] = "create"
    /\ created' = TRUE
    /\ Goto(n, "read")
    /\ UNCHANGED <<rows, objects, sessions, at, verdict>>

(* SELECT checksum of version at[n].                                        *)
(* Faulty variant: any recorded checksum will do.                           *)
AnyRow(n) == rows[at[n]] # None
Matches(n) == rows[at[n]] = Bundle[n][at[n]]
Read(n) ==
    /\ pc[n] = "read"
    /\ \/ Matches(n) /\ Advance(n)
       \/ ~Matches(n) /\ rows[at[n]] # None /\ Return(n, "mismatch")
       \/ rows[at[n]] = None /\ Goto(n, "latest") /\ UNCHANGED <<at, verdict>>
    /\ UNCHANGED <<database, sessions>>

(* Faulty variant: a gap below the version is not noticed.                  *)
NoGapCheck(n) == TRUE
Contiguous(n) == LatestBefore(at[n])
Latest(n) ==
    /\ pc[n] = "latest"
    /\ IF Contiguous(n)
         THEN Goto(n, "apply") /\ UNCHANGED <<at, verdict>>
         ELSE Return(n, "noncontiguous")
    /\ UNCHANGED <<database, sessions>>

(* The transaction's SQL and its INSERT. Another transaction that creates   *)
(* the same objects makes it wait, and objects or a row that exist make it  *)
(* fail and roll back. Its effects are visible when it commits.             *)
(* Faulty variant: the SQL runs on the connection, outside the transaction. *)
Uncommitted(v) ==
    (\E q \in Nodes : pc[q] = "commit" /\ at[q] = v)
        \/ (doubt # None /\ doubt.version = v)
ExecuteOutsideTx(n) == objects' = objects \cup {at[n]} /\ UNCHANGED <<rows, created>>
Execute(n) == UNCHANGED database
Apply(n) ==
    /\ pc[n] = "apply"
    /\ ~Uncommitted(at[n])
    /\ IF at[n] \in objects \cup Recorded
         THEN Return(n, "exists") /\ UNCHANGED database
         ELSE Execute(n) /\ Goto(n, "commit") /\ UNCHANGED <<at, verdict>>
    /\ UNCHANGED sessions

Committed(v, sum) ==
    /\ rows' = [rows EXCEPT ![v] = sum]
    /\ objects' = objects \cup {v}
    /\ UNCHANGED created

Commit(n) ==
    /\ pc[n] = "commit"
    /\ Committed(at[n], Bundle[n][at[n]])
    /\ Advance(n)
    /\ UNCHANGED sessions

(* checkSchema: the number of rows and max(version) both equal schemaVersion. *)
Check(n) ==
    /\ pc[n] = "check"
    /\ Return(n, IF Recorded = 1..SchemaVersion(n) THEN "ok" ELSE "unsupported")
    /\ UNCHANGED <<database, sessions>>

(* The deferred unlock. When it fails the connection is closed, and the     *)
(* database drops the session, and the lock with it, when it notices.       *)
(* Either way Migrate returns what it had decided.                          *)
(* Faulty variant: the connection goes back to the pool with its lock.      *)
LockKeptInPool(n) == n
LockAfterFailedUnlock(n) == Orphan
Unlock(n) ==
    /\ pc[n] = "unlock"
    /\ lock' \in {None, LockAfterFailedUnlock(n)}
    /\ Goto(n, IF verdict[n] = "ok" THEN "serving" ELSE "down")
    /\ UNCHANGED <<database, doubt, waiting, at, verdict>>

-----------------------------------------------------------------------------
(* A statement is refused by the server and the connection stays usable.    *)
(* Before the lock is held there is nothing to unlock.                      *)
StatementFails(n) ==
    /\ \/ pc[n] = "lock" /\ Goto(n, "down") /\ Judge(n, "infrastructure") /\ UNCHANGED at
       \/ pc[n] \in Holding \ {"unlock"} /\ Return(n, "infrastructure")
    /\ UNCHANGED <<database, sessions>>

(* The node dies, its connection breaks or the 30 s of its startup are over *)
(* (pgx then closes the connection). Its session outlives it: holding the   *)
(* lock, with a COMMIT on its way perhaps, or waiting for the lock.         *)
Die(n) ==
    /\ pc[n] # "down"
    /\ Goto(n, "down") /\ Judge(n, "infrastructure")
    /\ lock' = IF lock = n THEN Orphan ELSE lock
    /\ doubt' = IF pc[n] = "commit"
                  THEN [version |-> at[n], sum |-> Bundle[n][at[n]]] ELSE doubt
    /\ waiting' = IF pc[n] = "lock" THEN waiting \cup {n} ELSE waiting
    /\ UNCHANGED <<database, at>>

OrphanCommits ==
    /\ doubt # None
    /\ Committed(doubt.version, doubt.sum)
    /\ doubt' = None
    /\ UNCHANGED <<lock, waiting, pc, at, verdict>>

OrphanEnds ==
    /\ lock = Orphan
    /\ lock' = None /\ doubt' = None
    /\ UNCHANGED <<database, waiting, pc, at, verdict>>

(* The lock is granted to a session nobody listens to, or it goes away.     *)
AbandonedWaiter(n) ==
    /\ n \in waiting
    /\ waiting' = waiting \ {n}
    /\ lock' \in {lock} \cup (IF lock = None THEN {Orphan} ELSE {})
    /\ UNCHANGED <<database, doubt, pc, at, verdict>>

Step(n) ==
    \/ Create(n) \/ Read(n) \/ Latest(n) \/ Apply(n) \/ Commit(n)
    \/ Check(n) \/ Unlock(n)

Next ==
    \/ \E n \in Nodes : \/ Start(n) \/ Lock(n) \/ Step(n)
                        \/ StatementFails(n) \/ Die(n) \/ AbandonedWaiter(n)
    \/ OrphanCommits \/ OrphanEnds

Spec == Init /\ [][Next]_vars

(* PostgreSQL queues those who wait for an advisory lock and ends sessions  *)
(* whose client is gone; a connection that answers lets Migrate go on.      *)
(* Nothing forces a node to die, nor its startup to time out.               *)
FairSpec ==
    /\ Spec
    /\ \A n \in Nodes : SF_vars(Lock(n)) /\ WF_vars(Step(n))
    /\ WF_vars(OrphanEnds)
-----------------------------------------------------------------------------
(* What a node may rely on at each statement while it holds the lock.       *)

(* The loop has verified or applied every version before this one.          *)
Done(n, v) == \A u \in 1..(v - 1) : rows[u] = Bundle[n][u]

LockHeld ==
    \A n \in Nodes : (pc[n] \in Holding) <=> (lock = n)

Progress ==
    \A n \in Nodes :
        /\ pc[n] \in {"lock", "create"} => at[n] = 1
        /\ pc[n] \in InTable => at[n] <= SchemaVersion(n) /\ Done(n, at[n])
        /\ pc[n] \in {"latest", "apply", "commit"} => at[n] \notin Recorded
        /\ pc[n] \in {"apply", "commit"} => LatestBefore(at[n])
        /\ pc[n] = "check" \/ verdict[n] = "ok" => Done(n, SchemaVersion(n) + 1)
        /\ pc[n] = "serving" => verdict[n] = "ok"

InDoubt == doubt # None => lock = Orphan /\ LatestBefore(doubt.version)

(* A migration's SQL and its row are committed together: whatever fails or  *)
(* dies in between, the schema has the objects of exactly the recorded      *)
(* versions (database.go, conn.Begin to tx.Commit).                         *)
SqlMatchesRows == objects = Recorded

(* A node that refuses to start says why, and truly: its files differ from  *)
(* a recorded version, or the table has a gap, or a version it does not     *)
(* know. In particular no node fails because another one was migrating at   *)
(* the same time (database.go, pg_advisory_lock).                           *)
BlameIsTrue ==
    \A n \in Nodes :
        /\ verdict[n] = "mismatch" =>
                \E v \in 1..SchemaVersion(n) : rows[v] \notin {None, Bundle[n][v]}
        /\ verdict[n] = "noncontiguous" =>
                \E v \in Recorded, u \in Versions \ Recorded : u < v
        /\ verdict[n] = "unsupported" => \E v \in Recorded : v > SchemaVersion(n)
        /\ verdict[n] # "exists"

(* A node that serves was built from the files the schema was made with, up *)
(* to the version it knows, and stays so while other releases migrate on.   *)
ServesKnownSchema ==
    \A n \in Nodes : pc[n] = "serving" =>
        \A v \in 1..SchemaVersion(n) : rows[v] = Bundle[n][v]

IInv ==
    /\ TypeOK /\ LockHeld /\ Progress /\ InDoubt
    /\ SqlMatchesRows /\ BlameIsTrue

(* Nodes that migrate at once, die and leave COMMITs in doubt change the    *)
(* table only as SchemaHistory says: one version at a time, in order, none  *)
(* twice, none rewritten.                                                   *)
ImplementsHistory == History!Spec

(* Every Migrate ends, without its timeout: in particular no session keeps  *)
(* the lock for ever, not one whose unlock failed nor an abandoned one      *)
(* (database.go, the deferred unlock).                                      *)
EveryStartEnds ==
    \A n \in Nodes : pc[n] \in Working ~> pc[n] \in {"down", "serving"}
=============================================================================
