--------------------------- MODULE MCPasskeyServer -------------------------
(***************************************************************************)
(* Small deployments for TLC: configurations, lock keys and the committed  *)
(* rows the runs start from.                                               *)
(***************************************************************************)
EXTENDS PasskeyServer, TLC

CONSTANTS
    n1, n2, shop, blog, alice, rp1, rp2, fp1, fp2, t0, t1, t2, c1, c2, a1,
    k1, k2, r1, r2, r3

(* Requests differ in nothing, and in an empty database neither do unused   *)
(* tokens and credential ids.                                               *)
Symmetric == Permutations(Requests)
FullySymmetric ==
    Permutations(Requests) \cup Permutations(Tokens) \cup Permutations(CredIds)

(* What the calls to come depend on: no guard reads the last answer.        *)
WithoutAnswers == <<tables, clock, locks, pc, req, tx>>

(* Slots differ in nothing, so that a run may tell them apart by what they  *)
(* serve: three calls at a time of which one is a finish, in one order.     *)
Role == r1 :> {"finish"} @@ r2 :> {"finish", "delete"}
          @@ r3 :> {"start", "finish", "delete"}
InRole == \A r \in Requests : pc[r] = "idle" /\ req'[r] # None => req'[r].op \in Role[r]

Client(rp, clients) == [rp |-> rp, clients |-> clients]

(* One application behind one relying party.                                *)
ShopOnly == [n \in Nodes |-> shop :> Client(rp1, {fp1})]

(* Both applications behind one relying party.                              *)
Shared == [n \in Nodes |-> [app \in Apps |-> Client(rp1, {fp1})]]

(* A rolling reconfiguration: n2 already serves the shop under rp2, for     *)
(* another client, and no longer knows the blog.                            *)
Rolling ==
    n1 :> (shop :> Client(rp1, {fp1}) @@ blog :> Client(rp1, {fp1}))
      @@ n2 :> (shop :> Client(rp2, {fp1, fp2}))

(* All scopes collide in one key, or every application has its own.         *)
OneKey == [s \in Scopes |-> k1]
KeyPerApp == [s \in Scopes |-> IF s[1] = shop THEN k1 ELSE k2]

-----------------------------------------------------------------------------
Shop == <<shop, alice>>
Stored(scope, wid, n) == [scope |-> scope, rp |-> rp1, wid |-> wid, count |-> n]
Pend(k, scope, allowed, expires) == NewCeremony(k, scope, rp1, allowed, expires)
Done(k, scope) == [Pend(k, scope, {}, 1) EXCEPT !.state = "succeeded"]

Tables(cers, creds) ==
    [ceremonies |-> [t \in Tokens |-> IF t \in DOMAIN cers THEN cers[t] ELSE None],
     credentials |-> [c \in CredIds |-> IF c \in DOMAIN creds THEN creds[c] ELSE None],
     history |-> [key \in Tokens \cup CredIds |->
        IF key \notin DOMAIN cers THEN <<>>
        ELSE IF cers[key].state = "pending" THEN <<StartEvent(cers[key])>>
        ELSE <<StartEvent(cers[key]), FinishEvent(cers[key], c1, "ok")>>]]

EmptySeed == Tables(<<>>, <<>>)

(* Alice registered c1 at t0 and began two logins with it, t1 and t2.       *)
LoginSeed ==
    Tables(t0 :> Done("registration", Shop)
             @@ t1 :> Pend("authentication", Shop, {a1}, 1)
             @@ t2 :> Pend("authentication", Shop, {a1}, 2),
           c1 :> Stored(Shop, a1, 0))

(* Alice registered c1 at the blog, at t0.                                  *)
Blog == <<blog, alice>>
BlogSeed == Tables(t0 :> Done("registration", Blog), c1 :> Stored(Blog, a1, 0))
=============================================================================
