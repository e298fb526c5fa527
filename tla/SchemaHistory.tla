---------------------------- MODULE SchemaHistory --------------------------
(***************************************************************************)
(* What the table "migration" promises, whoever writes it: versions come   *)
(* one at a time and in order, and none is changed or taken back.          *)
(***************************************************************************)
EXTENDS Naturals

CONSTANTS
    MaxVersion,     \* versions are numbered 1..MaxVersion
    Checksums,      \* SHA-256 of the embedded files
    None,
    Seeds           \* what the table may hold when the first node starts

Versions == 1..MaxVersion
Table == [Versions -> Checksums \cup {None}]

VARIABLE rows       \* version -> the checksum recorded for it

Recorded == {v \in Versions : rows[v] # None}

(* COALESCE(max(version), 0) = v - 1                                        *)
LatestBefore(v) == (\A u \in Recorded : u < v) /\ (v = 1 \/ v - 1 \in Recorded)

Init == rows \in Seeds

Apply(v, sum) ==
    /\ LatestBefore(v)
    /\ rows' = [rows EXCEPT ![v] = sum]

Next == \E v \in Versions, sum \in Checksums : Apply(v, sum)

Spec == Init /\ [][Next]_rows
=============================================================================
