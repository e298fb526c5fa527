----------------------------- MODULE LoginBucket ---------------------------
(***************************************************************************)
(* allowLogin: the bucket of sign-in attempts of one admin node, from its  *)
(* start on. A mutex makes each call one step, and uptime is the monotonic *)
(* clock it reads. Tokens are counted in the seconds they take to come     *)
(* back, so that a fraction of a token is a whole number.                  *)
(***************************************************************************)
EXTENDS Naturals

CONSTANTS
    Never,
    Refill,         \* seconds in which a token comes back (12)
    Capacity,       \* the tokens a bucket holds (5), in seconds
    MaxUptime       \* bound of the runs

ASSUME BucketAssumption == Refill \in Nat \ {0} /\ Capacity \in Nat /\ Capacity >= Refill
ASSUME UptimeAssumption == MaxUptime \in Nat
ASSUME NeverAssumption == Never \notin Nat

VARIABLES
    uptime,
    tokens,     \* adminUI.tokens, times Refill
    refill,     \* adminUI.refill
    (* what the properties compare them with *)
    spent,      \* the token seconds spent since the start
    admitted,   \* [at, before] of each attempt admitted: when, and what was spent before it
    refused     \* when the last 429 was answered, or Never

bucket == <<uptime, tokens, refill, spent, admitted, refused>>

BucketTypes ==
    /\ uptime \in 0..MaxUptime
    /\ tokens \in 0..Capacity
    /\ refill \in 0..uptime
    /\ spent \in Nat
    /\ admitted \subseteq [at : 0..uptime, before : Nat]
    /\ refused \in 0..uptime \cup {Never}

BucketInit ==
    /\ uptime = 0 /\ tokens = Capacity /\ refill = 0
    /\ spent = 0 /\ admitted = {} /\ refused = Never

-----------------------------------------------------------------------------
Lower(a, b) == IF a < b THEN a ELSE b

(* Faulty variants: tokens pile up beyond the capacity; a started token is  *)
(* forgotten with every call.                                               *)
Uncapped == tokens + (uptime - refill)
WholeTokens == Lower(Capacity, tokens + Refill * ((uptime - refill) \div Refill))
Refilled == Lower(Capacity, tokens + (uptime - refill))

Admit ==
    /\ Refilled >= Refill
    /\ tokens' = Refilled - Refill
    /\ refill' = uptime
    /\ spent' = spent + Refill
    /\ admitted' = admitted \cup {[at |-> uptime, before |-> spent]}
    /\ UNCHANGED <<uptime, refused>>

Refuse ==
    /\ Refilled < Refill
    /\ tokens' = Refilled
    /\ refill' = uptime
    /\ refused' = uptime
    /\ UNCHANGED <<uptime, spent, admitted>>

TimePasses ==
    /\ uptime < MaxUptime
    /\ uptime' = uptime + 1
    /\ UNCHANGED <<tokens, refill, spent, admitted, refused>>

BucketNext == Admit \/ Refuse \/ TimePasses

BucketSpec == BucketInit /\ [][BucketNext]_bucket
-----------------------------------------------------------------------------
(* From any attempt to any later one a node starts at most a bucketful of   *)
(* password checks and one more for every 12 seconds between them, however  *)
(* the calls and their refills fall (admin.go, allowLogin).                 *)
AttemptsBounded ==
    \A a, b \in admitted : a.before <= b.before =>
        b.before + Refill - a.before <= Capacity + (b.at - a.at)

(* Refusals do not lengthen the wait: a 429 means that an attempt was let   *)
(* through less than 12 seconds before, however many were refused since. A  *)
(* token is back by the time its Retry-After names; another client may be   *)
(* the one to take it (admin.go, login).                                    *)
RefusalHasCause ==
    refused # Never =>
        \E a \in admitted : a.at <= refused /\ refused < a.at + Refill

(* Whatever was spent since an attempt is missing from the bucket or has    *)
(* come back since.                                                         *)
Accounted ==
    \A a \in admitted :
        /\ a.at <= refill /\ a.before + Refill <= spent
        /\ spent - a.before <= Capacity - tokens + (refill - a.at)

(* A bucket without a whole token has been full of tokens less than Refill  *)
(* seconds ago.                                                             *)
LastAttempt ==
    tokens < Refill => \E a \in admitted : a.at <= refill /\ refill <= a.at + tokens

BucketIInv == BucketTypes /\ Accounted /\ LastAttempt /\ AttemptsBounded /\ RefusalHasCause
=============================================================================
