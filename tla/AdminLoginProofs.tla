-------------------------- MODULE AdminLoginProofs -------------------------
(***************************************************************************)
(* Signing in to the admin pages: the bucket of attempts of a node, for    *)
(* every rate and capacity, and the session, for any nodes, browsers,      *)
(* identities and clocks.                                                  *)
(***************************************************************************)
EXTENDS LoginBucket, AdminSession, TLAPS

-----------------------------------------------------------------------------
(* The bucket.                                                             *)

(* What allowLogin finds: never more than a bucketful, and never less than  *)
(* what was there and has come back, unless the bucket is full.             *)
LEMMA RefilledIs ==
    ASSUME BucketTypes
    PROVE  /\ Refilled \in 0..Capacity
           /\ Refilled <= tokens + (uptime - refill)
           /\ Refilled < Capacity => Refilled = tokens + (uptime - refill)
           /\ uptime \in Nat /\ refill \in 0..uptime /\ tokens \in 0..Capacity
BY BucketAssumption, UptimeAssumption DEF BucketTypes, Refilled, Lower

(* The types of the attempts on record.                                     *)
LEMMA AttemptTypes ==
    ASSUME BucketTypes, NEW a \in admitted
    PROVE  a.at \in 0..uptime /\ a.before \in Nat
BY DEF BucketTypes

(* Whatever has come back, the bucket still lacks what was spent.           *)
LEMMA StillMissing ==
    ASSUME BucketTypes, Accounted, NEW a \in admitted
    PROVE  spent - a.before <= Capacity - Refilled + (uptime - a.at)
<1>1. /\ spent - a.before <= Capacity - tokens + (refill - a.at)
      /\ a.at \in Nat /\ a.before \in Nat /\ spent \in Nat
  BY AttemptTypes, UptimeAssumption DEF Accounted, BucketTypes
<1> QED BY <1>1, RefilledIs, BucketAssumption

-----------------------------------------------------------------------------
LEMMA AdmitStep ==
    ASSUME BucketIInv, Admit
    PROVE  BucketIInv'
<1> DEFINE new == [at |-> uptime, before |-> spent]
<1>0. BucketTypes /\ Accounted /\ LastAttempt /\ AttemptsBounded /\ RefusalHasCause
  BY DEF BucketIInv
<1>1. /\ Refilled \in Refill..Capacity /\ uptime \in Nat /\ spent \in Nat
      /\ Refill \in Nat \ {0} /\ Capacity \in Nat
  BY <1>0, RefilledIs, BucketAssumption DEF Admit, BucketTypes
<1>2. /\ tokens' = Refilled - Refill /\ refill' = uptime /\ uptime' = uptime
      /\ spent' = spent + Refill /\ refused' = refused
      /\ admitted' = admitted \cup {new}
  BY DEF Admit
<1>3. new \in [at : 0..uptime, before : Nat] /\ new.at = uptime /\ new.before = spent
  BY <1>1
<1> HIDE DEF new
<1>4. BucketTypes'
  BY <1>0, <1>1, <1>2, <1>3 DEF BucketTypes
<1>5. \A a \in admitted :
          /\ a.at \in 0..uptime /\ a.before \in Nat /\ a.before + Refill <= spent
          /\ spent - a.before <= Capacity - Refilled + (uptime - a.at)
  BY <1>0, AttemptTypes, StillMissing DEF Accounted
<1>6. Accounted'
  <2> SUFFICES ASSUME NEW a \in admitted'
               PROVE  /\ a.at <= refill' /\ a.before + Refill <= spent'
                      /\ spent' - a.before <= Capacity - tokens' + (refill' - a.at)
    BY DEF Accounted
  <2>1. CASE a = new
    BY <1>1, <1>2, <1>3, <2>1
  <2>2. CASE a \in admitted
    BY <1>1, <1>2, <1>5, <2>2
  <2> QED BY <1>2, <2>1, <2>2
<1>7. LastAttempt'
  <2>1. new \in admitted' /\ new.at <= uptime /\ uptime <= new.at + (Refilled - Refill)
    BY <1>1, <1>2, <1>3
  <2> QED BY <1>2, <2>1 DEF LastAttempt
<1>8. AttemptsBounded'
  <2> SUFFICES ASSUME NEW a \in admitted', NEW b \in admitted', a.before <= b.before
               PROVE  b.before + Refill - a.before <= Capacity + (b.at - a.at)
    BY DEF AttemptsBounded
  <2>1. CASE a \in admitted /\ b \in admitted
    BY <1>0, <2>1 DEF AttemptsBounded
  <2>2. CASE a \in admitted /\ b = new
    BY <1>1, <1>3, <1>5, <2>2
  <2>3. CASE a = new /\ b \in admitted
    BY <1>1, <1>3, <1>5, <2>3
  <2>4. CASE a = new /\ b = new
    BY <1>1, <1>3, <2>4, BucketAssumption
  <2> QED BY <1>2, <2>1, <2>2, <2>3, <2>4
<1>9. RefusalHasCause'
  BY <1>0, <1>2 DEF RefusalHasCause
<1> QED BY <1>4, <1>6, <1>7, <1>8, <1>9 DEF BucketIInv

(* A refusal: the attempt that emptied the bucket is still too young.       *)
LEMMA RefuseStep ==
    ASSUME BucketIInv, Refuse
    PROVE  BucketIInv'
<1>0. BucketTypes /\ Accounted /\ LastAttempt /\ AttemptsBounded /\ RefusalHasCause
  BY DEF BucketIInv
<1>1. /\ Refilled \in 0..Capacity /\ Refilled < Refill
      /\ Refilled = tokens + (uptime - refill)
      /\ uptime \in Nat /\ refill \in 0..uptime /\ tokens \in 0..Capacity
      /\ Refill \in Nat /\ Capacity \in Nat
  BY <1>0, RefilledIs, BucketAssumption DEF Refuse
<1>2. /\ tokens' = Refilled /\ refill' = uptime /\ refused' = uptime
      /\ UNCHANGED <<uptime, spent, admitted>>
  BY DEF Refuse
<1>3. BucketTypes'
  BY <1>0, <1>1, <1>2 DEF BucketTypes
<1>4. Accounted'
  <2>1. \A a \in admitted :
            /\ a.at <= uptime /\ a.before + Refill <= spent
            /\ spent - a.before <= Capacity - Refilled + (uptime - a.at)
    BY <1>0, <1>1, AttemptTypes, StillMissing DEF Accounted
  <2> QED BY <1>2, <2>1 DEF Accounted
<1>5. PICK a \in admitted : a.at <= refill /\ refill <= a.at + tokens
  BY <1>0, <1>1 DEF LastAttempt
<1>6. a.at \in Nat /\ a.at <= uptime /\ uptime <= a.at + Refilled /\ uptime < a.at + Refill
  BY <1>0, <1>1, <1>5, AttemptTypes
<1>7. LastAttempt' /\ RefusalHasCause'
  BY <1>2, <1>6 DEF LastAttempt, RefusalHasCause
<1>8. AttemptsBounded'
  BY <1>0, <1>2 DEF AttemptsBounded
<1> QED BY <1>3, <1>4, <1>7, <1>8 DEF BucketIInv

LEMMA TimePassesStep ==
    ASSUME BucketIInv, TimePasses \/ UNCHANGED bucket
    PROVE  BucketIInv'
<1>0. BucketTypes /\ Accounted /\ LastAttempt /\ AttemptsBounded /\ RefusalHasCause
  BY DEF BucketIInv
<1>1. /\ UNCHANGED <<tokens, refill, spent, admitted, refused>>
      /\ uptime \in Nat /\ uptime' \in 0..MaxUptime /\ uptime <= uptime'
  BY <1>0, UptimeAssumption DEF TimePasses, bucket, BucketTypes
<1>2. 0..uptime \subseteq 0..uptime'
  BY <1>1, UptimeAssumption
<1>3. BucketTypes'
  BY <1>0, <1>1, <1>2 DEF BucketTypes
<1> QED BY <1>0, <1>1, <1>3
        DEF BucketIInv, Accounted, LastAttempt, AttemptsBounded, RefusalHasCause

-----------------------------------------------------------------------------
(* Every bucket of every node, from its start on.                           *)
THEOREM BucketInvariant == BucketSpec => []BucketIInv
<1>1. BucketInit => BucketIInv
  BY BucketAssumption, UptimeAssumption, NeverAssumption
  DEF BucketInit, BucketIInv, BucketTypes, Accounted, LastAttempt, AttemptsBounded, RefusalHasCause
<1>2. BucketIInv /\ [BucketNext]_bucket => BucketIInv'
  BY AdmitStep, RefuseStep, TimePassesStep DEF BucketNext
<1> QED BY <1>1, <1>2, PTL DEF BucketSpec

(* Between any two attempts that a node lets through there are at most a    *)
(* bucketful of others and one more for each Refill seconds (allowLogin).   *)
THEOREM AttemptsAlwaysBounded == BucketSpec => []AttemptsBounded
<1>1. BucketIInv => AttemptsBounded
  BY DEF BucketIInv
<1> QED BY <1>1, BucketInvariant, PTL

(* A login is refused only if one was let through less than Refill seconds  *)
(* before, whatever was refused in between: by the time Retry-After names,  *)
(* a token has come back.                                                   *)
THEOREM RefusalsHaveCause == BucketSpec => []RefusalHasCause
<1>1. BucketIInv => RefusalHasCause
  BY DEF BucketIInv
<1> QED BY <1>1, BucketInvariant, PTL

-----------------------------------------------------------------------------
(* The session.                                                            *)

LEMMA InitInvariant == Init => IInv
BY TimesAssumption DEF Init, IInv, TypeOK, CookiesEarned, SessionBounded

(* A step that forgets no login and no page, and gives no new cookie.       *)
LEMMA NothingEarned ==
    ASSUME CookiesEarned, SessionBounded, logins' = logins, page' = page,
           \A b \in Browsers : jar'[b] = jar[b] \/ jar'[b] = None
    PROVE  CookiesEarned' /\ SessionBounded'
BY DEF CookiesEarned, SessionBounded

(* bcrypt is done: a cookie comes with the login that earned it.            *)
LEMMA AnswerStep ==
    ASSUME IInv, NEW b \in Browsers, Answer(b)
    PROVE  IInv'
<1> DEFINE n == form[b].node
           typed == form[b].typed
           cookie == [identity |-> identity[n], expires |-> Unix(n) + MaxAge]
           login == [typed |-> typed, at |-> clock]
<1>0. TypeOK /\ CookiesEarned /\ SessionBounded
  BY DEF IInv
<1>1. n \in Nodes /\ typed \in Identities /\ clock \in Nat /\ skew[n] \in -MaxSkew..MaxSkew
  BY <1>0, TimesAssumption DEF Answer, TypeOK
<1>2. login \in [typed : Identities, at : 0..clock]
  BY <1>1
<1>3. /\ form' = [form EXCEPT ![b] = None]
      /\ UNCHANGED <<clock, skew, identity, page>>
  BY DEF Answer
<1>4. CASE typed # identity[n]
  <2>1. UNCHANGED <<jar, logins>>
    BY <1>4 DEF Answer
  <2>2. TypeOK'
    BY <1>0, <1>3, <2>1 DEF TypeOK
  <2> QED BY <1>0, <1>3, <2>1, <2>2, NothingEarned DEF IInv
<1>5. CASE typed = identity[n]
  <2>1. jar' = [jar EXCEPT ![b] = cookie] /\ logins' = logins \cup {login}
    BY <1>5 DEF Answer
  <2>2. cookie \in Cookie /\ cookie.identity = login.typed
        /\ cookie.expires <= login.at + MaxSkew + MaxAge
    BY <1>1, <1>5, TimesAssumption DEF Cookie, Unix
  <2> HIDE DEF n, typed, cookie, login
  <2>3. TypeOK'
    BY <1>0, <1>2, <1>3, <2>1, <2>2 DEF TypeOK
  <2>4. CookiesEarned'
    <3> SUFFICES ASSUME NEW c \in Browsers, jar'[c] # None
                 PROVE  \E l \in logins' : /\ l.typed = jar'[c].identity
                                           /\ jar'[c].expires <= l.at + MaxSkew + MaxAge
      BY DEF CookiesEarned
    <3>1. CASE c = b
      BY <1>0, <2>1, <2>2, <3>1 DEF TypeOK
    <3>2. CASE c # b
      BY <1>0, <2>1, <3>2 DEF TypeOK, CookiesEarned
    <3> QED BY <3>1, <3>2
  <2>5. SessionBounded'
    BY <1>0, <1>3, <2>1 DEF SessionBounded
  <2> QED BY <2>3, <2>4, <2>5 DEF IInv
<1> QED BY <1>4, <1>5

(* A page is served while the cookie is valid by the node's clock.          *)
LEMMA VisitStep ==
    ASSUME IInv, NEW b \in Browsers, NEW n \in Nodes, Visit(b, n)
    PROVE  IInv'
<1> DEFINE served == [identity |-> identity[n], at |-> clock]
<1>0. TypeOK /\ CookiesEarned /\ SessionBounded
  BY DEF IInv
<1>1. /\ jar[b] \in Cookie /\ jar[b].identity = identity[n]
      /\ jar[b].expires > clock + skew[n]
      /\ page' = served /\ UNCHANGED <<clock, skew, identity, form, jar, logins>>
  BY <1>0 DEF Visit, ValidCookie, Unix, TypeOK
<1>2. /\ clock \in Nat /\ skew[n] \in -MaxSkew..MaxSkew /\ jar[b].expires \in Int
      /\ identity[n] \in Identities
  BY <1>0, <1>1, TimesAssumption DEF TypeOK, Cookie
<1>3. PICK l \in logins : /\ l.typed = jar[b].identity
                          /\ jar[b].expires <= l.at + MaxSkew + MaxAge
  BY <1>0, <1>1 DEF CookiesEarned, Visit
<1>4. l.at \in 0..clock
  BY <1>0, <1>3 DEF TypeOK
<1>5. l.typed = identity[n] /\ l.at <= clock /\ clock < l.at + MaxAge + 2 * MaxSkew
  BY <1>1, <1>2, <1>3, <1>4, TimesAssumption
<1>6. served \in [identity : Identities, at : 0..clock]
  BY <1>2
<1>7. TypeOK'
  BY <1>0, <1>1, <1>6 DEF TypeOK
<1>8. SessionBounded'
  BY <1>1, <1>5 DEF SessionBounded
<1>9. CookiesEarned'
  BY <1>0, <1>1 DEF CookiesEarned
<1> QED BY <1>7, <1>8, <1>9 DEF IInv

LEMMA NextStep ==
    ASSUME IInv, [Next]_vars
    PROVE  IInv'
<1>0. TypeOK /\ CookiesEarned /\ SessionBounded
  BY DEF IInv
<1>1. ASSUME Tick
      PROVE  IInv'
  <2>1. clock \in Nat /\ clock' = clock + 1 /\ clock' \in 0..MaxClock
    BY <1>0, <1>1, TimesAssumption DEF TypeOK, Tick
  <2>2. 0..clock \subseteq 0..clock'
    BY <2>1
  <2>3. TypeOK'
    BY <1>0, <1>1, <2>1, <2>2 DEF TypeOK, Tick
  <2> QED BY <1>0, <1>1, <2>3, NothingEarned DEF Tick, IInv
<1>2. ASSUME NEW b \in Browsers, NEW n \in Nodes, NEW typed \in Identities, Submit(b, n, typed)
      PROVE  IInv'
  <2>1. TypeOK'
    BY <1>0, <1>2 DEF TypeOK, Submit
  <2> QED BY <1>0, <1>2, <2>1, NothingEarned DEF Submit, IInv
<1>3. ASSUME NEW b \in Browsers, Forget(b)
      PROVE  IInv'
  <2>1. TypeOK'
    BY <1>0, <1>3 DEF TypeOK, Forget
  <2>2. \A c \in Browsers : jar'[c] = jar[c] \/ jar'[c] = None
    BY <1>0, <1>3 DEF TypeOK, Forget
  <2> QED BY <1>0, <1>3, <2>1, <2>2, NothingEarned DEF Forget, IInv
<1>4. ASSUME NEW n \in Nodes, NEW id \in Identities \cup {None}, Restart(n, id)
      PROVE  IInv'
  <2>1. TypeOK'
    <3>1. /\ identity' = [identity EXCEPT ![n] = id]
          /\ form' = [b \in Browsers |->
                        IF form[b] # None /\ form[b].node = n THEN None ELSE form[b]]
          /\ UNCHANGED <<clock, skew, jar, logins, page>>
      BY <1>4 DEF Restart
    <3>2. \A b \in Browsers : form'[b] # None =>
              form'[b] = form[b] /\ form[b] # None /\ form[b].node # n
      BY <3>1
    <3>3. \A b \in Browsers : form'[b] # None => identity'[form'[b].node] # None
      BY <1>0, <3>1, <3>2 DEF TypeOK
    <3>4. /\ form' \in [Browsers -> [node : Nodes, typed : Identities] \cup {None}]
          /\ identity' \in [Nodes -> Identities \cup {None}]
      BY <1>0, <3>1 DEF TypeOK
    <3> QED BY <1>0, <3>1, <3>3, <3>4 DEF TypeOK
  <2> QED BY <1>0, <1>4, <2>1, NothingEarned DEF Restart, IInv
<1>5. ASSUME NEW n \in Nodes, NEW s \in -MaxSkew..MaxSkew, SetClock(n, s)
      PROVE  IInv'
  <2>1. TypeOK'
    BY <1>0, <1>5 DEF TypeOK, SetClock
  <2> QED BY <1>0, <1>5, <2>1, NothingEarned DEF SetClock, IInv
<1>6. CASE UNCHANGED vars
  BY <1>0, <1>6 DEF vars, IInv, TypeOK, CookiesEarned, SessionBounded
<1> QED BY <1>1, <1>2, <1>3, <1>4, <1>5, <1>6, AnswerStep, VisitStep DEF Next

-----------------------------------------------------------------------------
(* Types, and that every cookie was earned by a login it does not outlive.  *)
THEOREM SessionInvariant == Spec => []IInv
<1>1. IInv /\ [Next]_vars => IInv'
  BY NextStep
<1> QED BY <1>1, InitInvariant, PTL DEF Spec

(* The protected pages are for those who signed in with the identity the    *)
(* node has now, no longer ago than the cookie's age and the skew of two    *)
(* clocks (validCookie, cookieValue).                                       *)
THEOREM SessionsBounded == Spec => []SessionBounded
<1>1. IInv => SessionBounded
  BY DEF IInv
<1> QED BY <1>1, SessionInvariant, PTL
=============================================================================
