--------------------------- MODULE MigrationProofs -------------------------
(***************************************************************************)
(* Migrate for any number of nodes and releases, any files and any         *)
(* contents of the table: the inductive invariant, and that the table only *)
(* changes as SchemaHistory promises.                                      *)
(***************************************************************************)
EXTENDS Migration, TLAPS

(* What a node reads from the table stays what it was while no row changes. *)
LEMMA SameRows ==
    ASSUME rows' = rows
    PROVE  /\ Recorded' = Recorded
           /\ \A v : LatestBefore(v)' <=> LatestBefore(v)
           /\ \A n, v : Done(n, v)' <=> Done(n, v)
BY DEF Recorded, LatestBefore, History!Recorded, History!LatestBefore,
       History!Versions, Done

(* A release embeds at least one file and each has a checksum.              *)
LEMMA BundleTypes ==
    ASSUME NEW n \in Nodes
    PROVE  /\ SchemaVersion(n) \in Versions
           /\ \A v \in 1..SchemaVersion(n) : v \in Versions /\ Bundle[n][v] \in Checksums
<1>1. Bundle[n] \in Seq(Checksums) /\ SchemaVersion(n) \in 1..MaxVersion
  BY BundleAssumption DEF Versions
<1>2. \A v \in 1..Len(Bundle[n]) : Bundle[n][v] \in Checksums
  BY <1>1
<1> QED BY <1>1, <1>2, VersionsAssumption DEF SchemaVersion, Versions

(* The instance reads the same versions.                                    *)
LEMMA RecordedIs == Recorded = {v \in Versions : rows[v] # None}
BY DEF Recorded, History!Recorded, History!Versions, Versions

LEMMA LatestIs ==
    \A v : LatestBefore(v) <=>
        (\A u \in Versions : rows[u] # None => u < v) /\ (v = 1 \/ v - 1 \in Recorded)
BY RecordedIs DEF LatestBefore, History!LatestBefore, Recorded

(* Every database Migrate can meet satisfies the invariant.                 *)
LEMMA InitInvariant == Init => IInv
<1> SUFFICES ASSUME Init PROVE IInv
  OBVIOUS
<1>1. TypeOK
  BY RecordedIs, SeedsAssumption, VersionsAssumption DEF Init, TypeOK, Table, Versions, PC, Working, Reasons
<1> QED BY <1>1, NodesAssumption, VerdictAssumption DEF Reasons, Init, IInv, TypeOK, LockHeld, Progress, InDoubt,
        SqlMatchesRows, BlameIsTrue, Holding, InTable

-----------------------------------------------------------------------------
(* A step that changes no row: what is left to show of the invariant.       *)
LEMMA QuietStep ==
    ASSUME IInv, rows' = rows, objects' = objects, TypeOK', LockHeld',
           doubt' # None => lock' = Orphan /\ LatestBefore(doubt'.version),
           NEW n \in Nodes,
           \A q \in Nodes \ {n} : /\ pc'[q] = pc[q] /\ at'[q] = at[q]
                                 /\ verdict'[q] = verdict[q],
           pc'[n] \in {"lock", "create"} => at'[n] = 1,
           pc'[n] \in InTable => at'[n] <= SchemaVersion(n) /\ Done(n, at'[n]),
           pc'[n] \in {"latest", "apply", "commit"} => at'[n] \notin Recorded,
           pc'[n] \in {"apply", "commit"} => LatestBefore(at'[n]),
           pc'[n] = "check" \/ verdict'[n] = "ok" => Done(n, SchemaVersion(n) + 1),
           pc'[n] = "serving" => verdict'[n] = "ok",
           verdict'[n] = "mismatch" =>
               \E v \in 1..SchemaVersion(n) : rows[v] \notin {None, Bundle[n][v]},
           verdict'[n] = "noncontiguous" =>
               \E v \in Recorded, u \in Versions \ Recorded : u < v,
           verdict'[n] = "unsupported" => \E v \in Recorded : v > SchemaVersion(n),
           verdict'[n] # "exists"
    PROVE  IInv'
<1>1. Recorded' = Recorded
  BY SameRows
<1>2. \A v : LatestBefore(v)' <=> LatestBefore(v)
  BY SameRows
<1>3. \A q, v : Done(q, v)' <=> Done(q, v)
  BY SameRows
<1>4. SqlMatchesRows'
  BY <1>1 DEF IInv, SqlMatchesRows
<1>5. InDoubt'
  BY <1>2 DEF InDoubt
<1>6. Progress'
  BY <1>1, <1>2, <1>3 DEF IInv, Progress
<1>7. BlameIsTrue'
  BY <1>1 DEF IInv, BlameIsTrue
<1> QED BY <1>4, <1>5, <1>6, <1>7 DEF IInv

(* The end of an iteration: the next file, or the check of the whole.       *)
LEMMA AdvanceTypes ==
    ASSUME TypeOK, NEW n \in Nodes, at[n] <= SchemaVersion(n), Advance(n)
    PROVE  pc' \in [Nodes -> PC] /\ at' \in [Nodes -> Versions] /\ verdict' = verdict
<1>1. SchemaVersion(n) \in 1..MaxVersion /\ at[n] \in 1..MaxVersion
  BY BundleTypes DEF TypeOK, Versions
<1>2. at[n] # SchemaVersion(n) => at[n] + 1 \in Versions
  BY <1>1, VersionsAssumption DEF Versions
<1> QED BY <1>2 DEF Advance, Goto, TypeOK, PC, Working, Holding, InTable

(* Everything but a COMMIT leaves the rows alone.                           *)
LEMMA QuietSteps ==
    ASSUME IInv, NEW n \in Nodes,
           \/ Start(n) \/ Lock(n) \/ Create(n) \/ Read(n) \/ Latest(n) \/ Apply(n)
           \/ Check(n) \/ Unlock(n) \/ StatementFails(n) \/ Die(n) \/ AbandonedWaiter(n)
    PROVE  IInv'
<1> USE DEF database, sessions, Goto, Judge, Return
<1>0. TypeOK /\ LockHeld /\ Progress /\ InDoubt /\ SqlMatchesRows /\ BlameIsTrue
  BY DEF IInv
<1>1. SchemaVersion(n) \in 1..MaxVersion /\ at[n] \in 1..MaxVersion
  BY <1>0, BundleTypes DEF TypeOK, Versions
<1>2. CASE Start(n)
  <2>1. TypeOK'
    BY <1>0, <1>2, VersionsAssumption DEF Start, TypeOK, PC, Working, Versions
  <2>2. LockHeld'
    BY <1>0, <1>2 DEF Start, TypeOK, LockHeld, Holding, InTable
  <2> QED BY <1>0, <1>2, <2>1, <2>2, QuietStep, VerdictAssumption
          DEF Start, TypeOK, InTable, Progress, InDoubt, Reasons
<1>3. CASE Lock(n)
  <2>1. TypeOK'
    BY <1>0, <1>3 DEF Lock, TypeOK, PC, Working, Holding
  <2>2. LockHeld'
    BY <1>0, <1>3, NodesAssumption DEF Lock, LockFree, TypeOK, LockHeld, Holding, InTable
  <2>3. at[n] = 1 /\ doubt = None
    BY <1>0, <1>3, NodesAssumption DEF Lock, LockFree, Progress, InDoubt
  <2>4. pc' = [pc EXCEPT ![n] = "create"] /\ UNCHANGED <<database, doubt, at, verdict>>
    BY <1>3 DEF Lock
  <2> QED BY <1>0, <2>1, <2>2, <2>3, <2>4, QuietStep
          DEF TypeOK, InTable, Progress, BlameIsTrue
<1>4. CASE Create(n)
  <2>1. TypeOK'
    BY <1>0, <1>4 DEF Create, TypeOK, PC, Working, Holding, InTable
  <2>2. LockHeld'
    BY <1>0, <1>4 DEF Create, TypeOK, LockHeld, Holding, InTable
  <2>3. at[n] = 1 /\ Done(n, 1)
    BY <1>0, <1>4 DEF Create, Progress, Done
  <2> QED BY <1>0, <1>1, <1>4, <2>1, <2>2, <2>3, QuietStep
          DEF Create, TypeOK, InTable, Progress, InDoubt, BlameIsTrue
<1>5. CASE Read(n)
  <2>0. at[n] <= SchemaVersion(n) /\ Done(n, at[n]) /\ at[n] \in Versions
    BY <1>0, <1>5 DEF Read, Progress, InTable, TypeOK
  <2>1. CASE Matches(n) /\ Advance(n)
    <3>1. TypeOK'
      BY <1>0, <1>5, <2>0, <2>1, AdvanceTypes DEF Read, TypeOK
    <3>2. LockHeld'
      BY <1>0, <1>5, <2>1 DEF Read, Advance, TypeOK, LockHeld, Holding, InTable
    <3>3. Done(n, at[n] + 1)
      BY <1>1, <2>0, <2>1 DEF Done, Matches
    <3>4. at[n] # SchemaVersion(n) => at[n] + 1 <= SchemaVersion(n)
      BY <1>1, <2>0
    <3> QED BY <1>0, <1>1, <1>5, <2>0, <2>1, <3>1, <3>2, <3>3, <3>4, QuietStep
            DEF Read, Advance, TypeOK, InTable, Progress, InDoubt, BlameIsTrue
  <2>2. CASE ~Matches(n) /\ rows[at[n]] # None /\ Return(n, "mismatch")
    <3>1. TypeOK'
      BY <1>0, <1>5, <2>2 DEF Read, TypeOK, PC, Working, Holding, Reasons
    <3>2. LockHeld'
      BY <1>0, <1>5, <2>2 DEF Read, TypeOK, LockHeld, Holding, InTable
    <3>3. \E v \in 1..SchemaVersion(n) : rows[v] \notin {None, Bundle[n][v]}
      BY <1>1, <2>0, <2>2 DEF Matches
    <3> QED BY <1>0, <1>5, <2>2, <3>1, <3>2, <3>3, QuietStep
            DEF Read, TypeOK, InTable, Progress, InDoubt, BlameIsTrue
  <2>3. CASE rows[at[n]] = None /\ Goto(n, "latest") /\ UNCHANGED <<at, verdict>>
    <3>1. TypeOK'
      BY <1>0, <1>5, <2>3 DEF Read, TypeOK, PC, Working, Holding, InTable
    <3>2. LockHeld'
      BY <1>0, <1>5, <2>3 DEF Read, TypeOK, LockHeld, Holding, InTable
    <3>3. at[n] \notin Recorded
      BY <2>3, RecordedIs
    <3> QED BY <1>0, <1>5, <2>0, <2>3, <3>1, <3>2, <3>3, QuietStep
            DEF Read, TypeOK, InTable, Progress, InDoubt, BlameIsTrue
  <2> QED BY <1>5, <2>1, <2>2, <2>3 DEF Read
<1>6. CASE Latest(n)
  <2>0. at[n] <= SchemaVersion(n) /\ Done(n, at[n]) /\ at[n] \in Versions \ Recorded
    BY <1>0, <1>6 DEF Latest, Progress, InTable, TypeOK
  <2>1. TypeOK'
    BY <1>0, <1>6 DEF Latest, TypeOK, PC, Working, Holding, InTable, Reasons
  <2>2. LockHeld'
    BY <1>0, <1>6 DEF Latest, TypeOK, LockHeld, Holding, InTable
  <2>3. CASE Contiguous(n)
    BY <1>0, <1>6, <2>0, <2>1, <2>2, <2>3, QuietStep
    DEF Latest, Contiguous, TypeOK, InTable, Progress, InDoubt, BlameIsTrue
  <2>4. CASE ~Contiguous(n)
    <3>1. \E v \in Recorded, u \in Versions \ Recorded : u < v
      <4>1. CASE \E u \in Recorded : ~(u < at[n])
        <5>1. PICK u \in Recorded : ~(u < at[n])
          BY <4>1
        <5>2. u \in 1..MaxVersion /\ u # at[n]
          BY <2>0, RecordedIs DEF Versions
        <5>3. at[n] < u
          BY <1>1, <5>1, <5>2, VersionsAssumption
        <5> QED BY <2>0, <5>3
      <4>2. CASE at[n] # 1 /\ at[n] - 1 \notin Recorded
        <5>1. at[n] - 1 \in 1..(at[n] - 1) /\ at[n] - 1 \in 1..SchemaVersion(n)
          BY <1>1, <2>0, <4>2, VersionsAssumption
        <5>2. rows[at[n] - 1] = Bundle[n][at[n] - 1]
          BY <2>0, <5>1 DEF Done
        <5>3. at[n] - 1 \in Versions /\ rows[at[n] - 1] # None
          BY <5>1, <5>2, BundleTypes, ChecksumsAssumption
        <5> QED BY <4>2, <5>3, RecordedIs
      <4>3. \A u \in Versions : rows[u] # None <=> u \in Recorded
        BY RecordedIs
      <4> QED BY <2>4, <4>1, <4>2, <4>3, LatestIs DEF Contiguous
    <3> QED BY <1>0, <1>6, <2>1, <2>2, <2>4, <3>1, QuietStep
            DEF Latest, TypeOK, InTable, Progress, InDoubt, BlameIsTrue
  <2> QED BY <2>3, <2>4
<1>7. CASE Apply(n)
  <2>0. /\ at[n] <= SchemaVersion(n) /\ Done(n, at[n]) /\ at[n] \in Versions \ Recorded
        /\ LatestBefore(at[n]) /\ at[n] \notin objects
    BY <1>0, <1>7 DEF Apply, Progress, InTable, TypeOK, SqlMatchesRows
  <2>1. UNCHANGED database /\ Goto(n, "commit") /\ UNCHANGED <<at, verdict, sessions>>
    BY <1>7, <2>0 DEF Apply, Execute
  <2>2. TypeOK'
    BY <1>0, <2>1 DEF TypeOK, PC, Working, Holding, InTable
  <2>3. LockHeld'
    BY <1>0, <1>7, <2>1 DEF Apply, TypeOK, LockHeld, Holding, InTable
  <2> QED BY <1>0, <1>7, <2>0, <2>1, <2>2, <2>3, QuietStep
          DEF Apply, TypeOK, InTable, Progress, InDoubt, BlameIsTrue
<1>8. CASE Check(n)
  <2>0. Done(n, SchemaVersion(n) + 1)
    BY <1>0, <1>8 DEF Check, Progress
  <2>1. TypeOK'
    BY <1>0, <1>8 DEF Check, TypeOK, PC, Working, Holding, Reasons
  <2>2. LockHeld'
    BY <1>0, <1>8 DEF Check, TypeOK, LockHeld, Holding, InTable
  <2>3. Recorded # 1..SchemaVersion(n) => \E v \in Recorded : v > SchemaVersion(n)
    <3>1. \A v \in 1..SchemaVersion(n) : rows[v] = Bundle[n][v]
      BY <1>1, <2>0 DEF Done
    <3>2. \A v \in 1..SchemaVersion(n) : v \in Recorded
      BY <3>1, BundleTypes, RecordedIs, ChecksumsAssumption
    <3>3. \A v \in Recorded : v \in 1..MaxVersion
      BY RecordedIs DEF Versions
    <3> SUFFICES ASSUME \A v \in Recorded : ~(v > SchemaVersion(n))
                 PROVE  Recorded = 1..SchemaVersion(n)
      OBVIOUS
    <3>4. \A v \in Recorded : v \in 1..SchemaVersion(n)
      BY <1>1, <3>3, VersionsAssumption
    <3> QED BY <3>2, <3>4
  <2> QED BY <1>0, <1>8, <2>0, <2>1, <2>2, <2>3, QuietStep
          DEF Check, TypeOK, InTable, Progress, InDoubt, BlameIsTrue
<1>9. CASE Unlock(n)
  <2>1. TypeOK'
    BY <1>0, <1>9 DEF Unlock, LockAfterFailedUnlock, TypeOK, PC, Working
  <2>2. LockHeld'
    BY <1>0, <1>9, NodesAssumption
    DEF Unlock, LockAfterFailedUnlock, TypeOK, LockHeld, Holding, InTable
  <2>3. doubt = None
    BY <1>0, <1>9, NodesAssumption DEF Unlock, LockHeld, InDoubt, Holding
  <2> QED BY <1>0, <1>9, <2>1, <2>2, <2>3, QuietStep
          DEF Unlock, TypeOK, InTable, Progress, BlameIsTrue
<1>10. CASE StatementFails(n)
  <2>1. TypeOK'
    BY <1>0, <1>10 DEF StatementFails, TypeOK, PC, Working, Holding, InTable, Reasons
  <2>2. LockHeld'
    BY <1>0, <1>10 DEF StatementFails, TypeOK, LockHeld, Holding, InTable
  <2> QED BY <1>0, <1>10, <2>1, <2>2, QuietStep
          DEF StatementFails, TypeOK, InTable, Progress, InDoubt, BlameIsTrue
<1>11. CASE Die(n)
  <2>0. pc[n] = "commit" => /\ at[n] <= SchemaVersion(n) /\ LatestBefore(at[n])
                           /\ lock = n
    BY <1>0 DEF Progress, InTable, LockHeld, Holding
  <2>1. pc[n] = "commit" => Bundle[n][at[n]] \in Checksums
    BY <1>1, <2>0, BundleTypes
  <2>2. TypeOK'
    BY <1>0, <1>11, <2>1 DEF Die, TypeOK, PC, Working, Reasons
  <2>3. LockHeld'
    BY <1>0, <1>11, NodesAssumption DEF Die, TypeOK, LockHeld, Holding, InTable
  <2>4. doubt' # None => lock' = Orphan /\ LatestBefore(doubt'.version)
    BY <1>0, <1>11, <2>0, NodesAssumption DEF Die, InDoubt
  <2> QED BY <1>0, <1>11, <2>2, <2>3, <2>4, QuietStep
          DEF Die, TypeOK, InTable, Progress, BlameIsTrue, Reasons
<1>12. CASE AbandonedWaiter(n)
  <2>1. TypeOK'
    BY <1>0, <1>12 DEF AbandonedWaiter, TypeOK
  <2>2. LockHeld'
    BY <1>0, <1>12, NodesAssumption DEF AbandonedWaiter, TypeOK, LockHeld
  <2>3. doubt' # None => lock' = Orphan /\ LatestBefore(doubt'.version)
    BY <1>0, <1>12, NodesAssumption DEF AbandonedWaiter, InDoubt
  <2> QED BY <1>0, <1>12, <2>1, <2>2, <2>3, QuietStep
          DEF AbandonedWaiter, TypeOK, InTable, Progress, BlameIsTrue
<1> QED BY <1>2, <1>3, <1>4, <1>5, <1>6, <1>7, <1>8, <1>9, <1>10, <1>11, <1>12

(* A committed version: it was the next one, so what every node has         *)
(* verified is as it was, and whoever was about to apply it held the lock.  *)
LEMMA CommittedRow ==
    ASSUME TypeOK, NEW v \in Versions, NEW sum \in Checksums,
           LatestBefore(v), Committed(v, sum)
    PROVE  /\ rows' \in Table /\ v \notin Recorded
           /\ Recorded' = Recorded \cup {v}
           /\ \A u \in Versions \ {v} : rows'[u] = rows[u]
           /\ rows'[v] = sum
<1>1. v \notin Recorded
  BY LatestIs, RecordedIs, VersionsAssumption DEF Versions
<1>2. rows' = [rows EXCEPT ![v] = sum] /\ rows \in Table
  BY DEF Committed, TypeOK
<1>3. Recorded' = {u \in Versions : rows'[u] # None}
  BY RecordedIs DEF Recorded, History!Recorded, History!Versions, Versions
<1>4. \A u \in Versions : rows'[u] # None <=> u \in Recorded \cup {v}
  BY <1>2, RecordedIs, ChecksumsAssumption DEF Table
<1> QED BY <1>1, <1>2, <1>3, <1>4, RecordedIs DEF Table

(* What a committed version leaves true: what nodes verified below it, why  *)
(* nodes refused to start, and that the objects are those of the rows.      *)
LEMMA AfterCommitted ==
    ASSUME IInv, NEW v \in Versions, NEW sum \in Checksums,
           LatestBefore(v), Committed(v, sum), verdict' = verdict
    PROVE  /\ SqlMatchesRows' /\ BlameIsTrue'
           /\ \A q \in Nodes, x \in Nat :
                 x <= SchemaVersion(q) + 1 /\ Done(q, x) => Done(q, x)'
<1>0. TypeOK /\ SqlMatchesRows /\ BlameIsTrue
  BY DEF IInv
<1>1. /\ v \notin Recorded
      /\ Recorded' = Recorded \cup {v}
      /\ \A u \in Versions \ {v} : rows'[u] = rows[u]
  BY <1>0, CommittedRow
<1>2. rows[v] = None
  BY <1>1, RecordedIs
<1>3. SqlMatchesRows'
  BY <1>0, <1>1 DEF SqlMatchesRows, Committed
<1>4. \A q \in Nodes : \A w \in 1..SchemaVersion(q) :
          w \in Versions /\ Bundle[q][w] # None
  BY BundleTypes, ChecksumsAssumption
<1>5. \A q \in Nodes, x \in Nat :
          x <= SchemaVersion(q) + 1 /\ Done(q, x) => Done(q, x)'
  <2> SUFFICES ASSUME NEW q \in Nodes, NEW x \in Nat, x <= SchemaVersion(q) + 1,
                      Done(q, x), NEW u \in 1..(x - 1)
               PROVE  rows'[u] = Bundle[q][u]
    BY DEF Done
  <2>1. SchemaVersion(q) \in 1..MaxVersion
    BY BundleTypes DEF Versions
  <2>2. u \in 1..SchemaVersion(q) /\ rows[u] = Bundle[q][u]
    BY <2>1, VersionsAssumption DEF Done
  <2> QED BY <1>1, <1>2, <1>4, <2>2
<1>6. BlameIsTrue'
  <2> SUFFICES ASSUME NEW q \in Nodes
               PROVE  /\ verdict[q] = "mismatch" =>
                            \E w \in 1..SchemaVersion(q) : rows'[w] \notin {None, Bundle[q][w]}
                      /\ verdict[q] = "noncontiguous" =>
                            \E w \in Recorded', u \in Versions \ Recorded' : u < w
                      /\ verdict[q] = "unsupported" => \E w \in Recorded' : w > SchemaVersion(q)
                      /\ verdict[q] # "exists"
    BY DEF BlameIsTrue
  <2>1. ASSUME verdict[q] = "mismatch"
        PROVE  \E w \in 1..SchemaVersion(q) : rows'[w] \notin {None, Bundle[q][w]}
    BY <1>0, <1>1, <1>2, <1>4, <2>1 DEF BlameIsTrue
  <2>2. ASSUME verdict[q] = "noncontiguous"
        PROVE  \E w \in Recorded', u \in Versions \ Recorded' : u < w
    <3>1. PICK w \in Recorded, u \in Versions \ Recorded : u < w
      BY <1>0, <2>2 DEF BlameIsTrue
    <3>2. w \in 1..MaxVersion /\ u \in 1..MaxVersion /\ v \in 1..MaxVersion /\ w < v
      BY RecordedIs, LatestIs DEF Versions
    <3>3. u # v
      BY <3>1, <3>2, VersionsAssumption
    <3> QED BY <1>1, <3>1, <3>3
  <2> QED BY <1>0, <1>1, <2>1, <2>2 DEF BlameIsTrue
<1> QED BY <1>3, <1>5, <1>6

(* The node whose COMMIT it is goes on with the next file.                  *)
LEMMA CommitStep ==
    ASSUME IInv, NEW n \in Nodes, Commit(n)
    PROVE  IInv'
<1>0. TypeOK /\ LockHeld /\ Progress /\ InDoubt /\ SqlMatchesRows /\ BlameIsTrue
  BY DEF IInv
<1>1. /\ at[n] <= SchemaVersion(n) /\ Done(n, at[n]) /\ LatestBefore(at[n])
      /\ lock = n /\ doubt = None /\ pc[n] = "commit"
  BY <1>0, NodesAssumption
  DEF Commit, Progress, InTable, LockHeld, Holding, InDoubt
<1>2. /\ at[n] \in 1..SchemaVersion(n) /\ SchemaVersion(n) \in 1..MaxVersion
      /\ at[n] \in Versions
  BY <1>0, <1>1, BundleTypes DEF TypeOK, Versions
<1>3. Bundle[n][at[n]] \in Checksums
  BY <1>2, BundleTypes
<1>4. Committed(at[n], Bundle[n][at[n]]) /\ Advance(n) /\ UNCHANGED sessions
  BY DEF Commit
<1>5. /\ rows' \in Table
      /\ Recorded' = Recorded \cup {at[n]}
      /\ rows'[at[n]] = Bundle[n][at[n]]
      /\ \A u \in Versions \ {at[n]} : rows'[u] = rows[u]
  BY <1>0, <1>1, <1>2, <1>3, <1>4, CommittedRow
<1>6. pc' \in [Nodes -> PC] /\ at' \in [Nodes -> Versions] /\ verdict' = verdict
  BY <1>0, <1>1, <1>4, AdvanceTypes
<1>7. /\ SqlMatchesRows' /\ BlameIsTrue'
      /\ \A q \in Nodes, x \in Nat : x <= SchemaVersion(q) + 1 /\ Done(q, x) => Done(q, x)'
  BY <1>1, <1>2, <1>3, <1>4, <1>6, AfterCommitted
<1>8. TypeOK'
  BY <1>0, <1>2, <1>4, <1>5, <1>6 DEF TypeOK, Committed, sessions
<1>9. LockHeld'
  BY <1>0, <1>1, <1>4 DEF TypeOK, LockHeld, Advance, Goto, Holding, InTable, sessions
<1>10. InDoubt'
  BY <1>1, <1>4 DEF InDoubt, sessions
<1>11. \A q \in Nodes \ {n} : /\ pc'[q] = pc[q] /\ at'[q] = at[q]
                              /\ pc[q] \notin Holding
  BY <1>0, <1>1, <1>4 DEF TypeOK, LockHeld, Advance, Goto
<1>12. \A u \in 1..at[n] : rows'[u] = Bundle[n][u]
  <2>1. \A u \in 1..(at[n] - 1) : u \in Versions \ {at[n]}
    BY <1>2, VersionsAssumption DEF Versions
  <2>2. \A u \in 1..(at[n] - 1) : rows'[u] = Bundle[n][u]
    BY <1>1, <1>5, <2>1 DEF Done
  <2>3. \A u \in 1..at[n] : u = at[n] \/ u \in 1..(at[n] - 1)
    BY <1>2
  <2> QED BY <1>5, <2>2, <2>3
<1>13. Progress'
  <2> SUFFICES ASSUME NEW q \in Nodes
               PROVE  /\ pc'[q] \in {"lock", "create"} => at'[q] = 1
                      /\ pc'[q] \in InTable => at'[q] <= SchemaVersion(q) /\ Done(q, at[q])'
                      /\ pc'[q] \in {"latest", "apply", "commit"} => at'[q] \notin Recorded'
                      /\ pc'[q] \in {"apply", "commit"} => LatestBefore(at[q])'
                      /\ pc'[q] = "check" \/ verdict'[q] = "ok" => Done(q, SchemaVersion(q) + 1)'
                      /\ pc'[q] = "serving" => verdict'[q] = "ok"
    BY DEF Progress
  <2>1. SchemaVersion(q) + 1 \in Nat
    BY BundleTypes, VersionsAssumption DEF Versions
  <2>2. verdict'[q] = "ok" => Done(q, SchemaVersion(q) + 1)'
    BY <1>0, <1>6, <1>7, <2>1 DEF Progress
  <2>3. CASE q # n
    BY <1>0, <1>6, <1>11, <2>2, <2>3 DEF Progress, Holding, InTable
  <2>4. CASE q = n /\ at[n] = SchemaVersion(n)
    <3>1. pc'[n] = "check"
      BY <1>0, <1>4, <2>4 DEF Advance, Goto, TypeOK
    <3>2. Done(n, SchemaVersion(n) + 1)'
      BY <1>2, <1>12, <2>4 DEF Done
    <3> QED BY <2>4, <3>1, <3>2 DEF InTable
  <2>5. CASE q = n /\ at[n] # SchemaVersion(n)
    <3>1. pc'[n] = "read" /\ at'[n] = at[n] + 1
      BY <1>0, <1>4, <2>5 DEF Advance, Goto, TypeOK
    <3>2. Done(n, at[n])' /\ at'[n] <= SchemaVersion(n)
      BY <1>2, <1>12, <2>5, <3>1 DEF Done
    <3> QED BY <2>2, <2>5, <3>1, <3>2 DEF InTable
  <2> QED BY <2>3, <2>4, <2>5
<1> QED BY <1>7, <1>8, <1>9, <1>10, <1>13 DEF IInv

(* A COMMIT whose client is gone: nobody holds the lock, nobody is between   *)
(* reading the table and writing it.                                        *)
LEMMA OrphanCommitStep ==
    ASSUME IInv, OrphanCommits
    PROVE  IInv'
<1>0. TypeOK /\ LockHeld /\ Progress /\ InDoubt /\ SqlMatchesRows /\ BlameIsTrue
  BY DEF IInv
<1> DEFINE v == doubt.version
           sum == doubt.sum
<1>1. /\ doubt # None /\ Committed(v, sum) /\ doubt' = None
      /\ UNCHANGED <<lock, waiting, pc, at, verdict>>
  BY DEF OrphanCommits
<1>2. v \in Versions /\ sum \in Checksums /\ LatestBefore(v) /\ lock = Orphan
  BY <1>0, <1>1 DEF TypeOK, InDoubt
<1> HIDE DEF v, sum
<1>3. rows' \in Table
  BY <1>0, <1>1, <1>2, CommittedRow
<1>4. /\ SqlMatchesRows' /\ BlameIsTrue'
      /\ \A q \in Nodes, x \in Nat : x <= SchemaVersion(q) + 1 /\ Done(q, x) => Done(q, x)'
  BY <1>1, <1>2, AfterCommitted
<1>5. TypeOK'
  BY <1>0, <1>1, <1>2, <1>3 DEF TypeOK, Committed
<1>6. LockHeld' /\ InDoubt'
  BY <1>0, <1>1 DEF LockHeld, InDoubt
<1>7. \A q \in Nodes : pc'[q] = pc[q] /\ pc[q] \notin Holding
  BY <1>0, <1>1, <1>2, NodesAssumption DEF LockHeld
<1>8. Progress'
  <2>1. \A q \in Nodes : SchemaVersion(q) + 1 \in Nat
    BY BundleTypes, VersionsAssumption DEF Versions
  <2>2. \A q \in Nodes : verdict'[q] = "ok" => Done(q, SchemaVersion(q) + 1)'
    BY <1>0, <1>1, <1>4, <2>1 DEF Progress
  <2> QED BY <1>0, <1>1, <1>7, <2>2 DEF Progress, Holding, InTable
<1> QED BY <1>4, <1>5, <1>6, <1>8 DEF IInv

(* Nothing a node relies on changes: an abandoned session ends, or nothing  *)
(* happens.                                                                 *)
LEMMA EmptyStep ==
    ASSUME IInv, UNCHANGED vars \/ OrphanEnds
    PROVE  IInv'
<1>0. TypeOK /\ LockHeld /\ Progress /\ InDoubt /\ SqlMatchesRows /\ BlameIsTrue
  BY DEF IInv
<1>1. /\ UNCHANGED <<database, waiting, pc, at, verdict>>
      /\ \/ lock' = lock /\ doubt' = doubt
         \/ lock = Orphan /\ lock' = None /\ doubt' = None
  BY DEF vars, sessions, OrphanEnds
<1>2. /\ Recorded' = Recorded
      /\ \A v : LatestBefore(v)' <=> LatestBefore(v)
      /\ \A q, v : Done(q, v)' <=> Done(q, v)
  BY <1>1, SameRows DEF database
<1>3. TypeOK'
  BY <1>0, <1>1 DEF TypeOK, database
<1>4. LockHeld'
  BY <1>0, <1>1, NodesAssumption DEF LockHeld
<1>5. InDoubt' /\ SqlMatchesRows'
  BY <1>0, <1>1, <1>2 DEF InDoubt, SqlMatchesRows, database
<1>6. Progress'
  BY <1>0, <1>1, <1>2 DEF Progress
<1>7. BlameIsTrue'
  BY <1>0, <1>1, <1>2 DEF BlameIsTrue, database
<1> QED BY <1>3, <1>4, <1>5, <1>6, <1>7 DEF IInv

LEMMA NextStep ==
    ASSUME IInv, [Next]_vars
    PROVE  IInv'
<1>1. CASE Next
  <2>1. ASSUME NEW n \in Nodes,
               \/ Start(n) \/ Lock(n) \/ Step(n)
               \/ StatementFails(n) \/ Die(n) \/ AbandonedWaiter(n)
        PROVE  IInv'
    BY <2>1, QuietSteps, CommitStep DEF Step
  <2> QED BY <1>1, <2>1, OrphanCommitStep, EmptyStep DEF Next
<1> QED BY <1>1, EmptyStep

-----------------------------------------------------------------------------
(* Nodes that migrate, fail and die together: the whole invariant, with the *)
(* types, the mutual exclusion of the advisory lock and what each statement *)
(* of Migrate relies on.                                                    *)
THEOREM MigrationInvariant == Spec => []IInv
<1>1. Init => IInv
  BY InitInvariant
<1>2. IInv /\ [Next]_vars => IInv'
  BY NextStep
<1> QED BY <1>1, <1>2, PTL DEF Spec

(* A migration's SQL and its row appear together or not at all (conn.Begin  *)
(* to tx.Commit), whatever dies in between.                                 *)
THEOREM SqlAndRows == Spec => []SqlMatchesRows
<1>1. IInv => SqlMatchesRows
  BY DEF IInv
<1> QED BY <1>1, MigrationInvariant, PTL

(* A node refuses to start only for what is wrong with the table, never     *)
(* because another node was migrating it.                                   *)
THEOREM BlameIsAlwaysTrue == Spec => []BlameIsTrue
<1>1. IInv => BlameIsTrue
  BY DEF IInv
<1> QED BY <1>1, MigrationInvariant, PTL

(* A node that serves finds in the table the checksums of the very files it *)
(* embeds, however many releases migrate after it.                          *)
THEOREM KnownSchemaServed == Spec => []ServesKnownSchema
<1>1. IInv => ServesKnownSchema
  <2> SUFFICES ASSUME IInv, NEW n \in Nodes, pc[n] = "serving",
                      NEW v \in 1..SchemaVersion(n)
               PROVE  rows[v] = Bundle[n][v]
    BY DEF ServesKnownSchema
  <2>1. Done(n, SchemaVersion(n) + 1)
    BY DEF IInv, Progress
  <2>2. v \in 1..((SchemaVersion(n) + 1) - 1)
    BY BundleTypes, VersionsAssumption DEF Versions
  <2> QED BY <2>1, <2>2 DEF Done
<1> QED BY <1>1, MigrationInvariant, PTL

-----------------------------------------------------------------------------
(* Every step is a step of SchemaHistory or changes no row.                 *)
LEMMA StepImplements ==
    ASSUME IInv, [Next]_vars
    PROVE  [History!Next]_rows
<1>0. TypeOK /\ Progress /\ InDoubt /\ LockHeld
  BY DEF IInv
<1>1. ASSUME NEW v \in Versions, NEW sum \in Checksums, LatestBefore(v), Committed(v, sum)
      PROVE  History!Next
  BY <1>1 DEF LatestBefore, Committed, History!Next, History!Apply, Versions, History!Versions
<1>2. CASE Next
  <2>1. ASSUME NEW n \in Nodes, Commit(n)
        PROVE  History!Next
    <3>1. at[n] \in Versions /\ at[n] \in 1..SchemaVersion(n) /\ LatestBefore(at[n])
      <4>1. at[n] <= SchemaVersion(n) /\ at[n] \in Versions /\ LatestBefore(at[n])
        BY <1>0, <2>1 DEF Commit, TypeOK, Progress, InTable
      <4> QED BY <4>1, BundleTypes, VersionsAssumption DEF Versions
    <3>2. Bundle[n][at[n]] \in Checksums
      BY <3>1, BundleTypes
    <3> QED BY <1>1, <2>1, <3>1, <3>2 DEF Commit
  <2>2. ASSUME OrphanCommits
        PROVE  History!Next
    BY <1>0, <1>1, <2>2 DEF OrphanCommits, TypeOK, InDoubt
  <2>3. ASSUME NEW n \in Nodes,
               \/ Start(n) \/ Lock(n) \/ Create(n) \/ Read(n) \/ Latest(n) \/ Apply(n)
               \/ Check(n) \/ Unlock(n) \/ StatementFails(n) \/ Die(n) \/ AbandonedWaiter(n)
        PROVE  rows' = rows
    BY <2>3 DEF Start, Lock, Create, Read, Latest, Apply, Execute, Check, Unlock,
                StatementFails, Die, AbandonedWaiter, database
  <2>4. OrphanEnds => rows' = rows
    BY DEF OrphanEnds, database
  <2> QED BY <1>2, <2>1, <2>2, <2>3, <2>4 DEF Next, Step
<1> QED BY <1>2 DEF vars, database

(* Migrate changes the table as SchemaHistory promises: in order, one       *)
(* version at a time, with nothing rewritten.                               *)
THEOREM MigrateImplementsHistory == Spec => ImplementsHistory
<1>1. Init => History!Init
  BY DEF Init, History!Init
<1>2. IInv /\ [Next]_vars => [History!Next]_rows
  BY StepImplements
<1> QED BY <1>1, <1>2, MigrationInvariant, PTL DEF Spec, ImplementsHistory, History!Spec
=============================================================================
