----------------------------- MODULE AdminSession --------------------------
(***************************************************************************)
(* Signing in to the admin pages of several nodes: the password check that *)
(* takes its time, and the stateless cookie that every node with the same  *)
(* configured identity accepts, by its own wall clock, until it expires.   *)
(* An identity stands for a username and a password hash, and for what a   *)
(* person has to type to match them. Whether an attempt gets as far as the *)
(* password check is for the bucket of LoginBucket to decide.              *)
(***************************************************************************)
EXTENDS Integers

CONSTANTS
    Nodes,
    Browsers,
    Identities,     \* what admin.username and admin.password_hash may be
    None,
    MaxAge,         \* adminCookieAge, in seconds
    MaxSkew,        \* how far a node's wall clock may be off
    MaxClock        \* bound of the runs

ASSUME TimesAssumption == MaxAge \in Nat /\ MaxSkew \in Nat /\ MaxClock \in Nat
ASSUME IdentitiesAssumption ==
    None \notin Identities

VARIABLES
    clock,      \* seconds since the system started
    skew,       \* node -> its wall clock minus clock
    identity,   \* node -> the identity in its config, None where admin is disabled
    form,       \* browser -> [node, typed] of the login bcrypt is at, or None
    jar,        \* browser -> the cookie it keeps, or None
    logins,     \* [typed, at] of the logins that succeeded, for the properties
    page        \* [identity, at] of the last protected page served, or None

vars == <<clock, skew, identity, form, jar, logins, page>>

Cookie == [identity : Identities, expires : Int]

TypeOK ==
    /\ clock \in 0..MaxClock
    /\ skew \in [Nodes -> -MaxSkew..MaxSkew]
    /\ identity \in [Nodes -> Identities \cup {None}]
    /\ form \in [Browsers -> [node : Nodes, typed : Identities] \cup {None}]
    /\ \A b \in Browsers : form[b] # None => identity[form[b].node] # None
    /\ jar \in [Browsers -> Cookie \cup {None}]
    /\ logins \subseteq [typed : Identities, at : 0..clock]
    /\ page \in [identity : Identities, at : 0..clock] \cup {None}

Init ==
    /\ clock = 0
    /\ skew \in [Nodes -> -MaxSkew..MaxSkew]
    /\ identity \in [Nodes -> Identities \cup {None}]
    /\ form = [b \in Browsers |-> None]
    /\ jar = [b \in Browsers |-> None]
    /\ logins = {} /\ page = None

-----------------------------------------------------------------------------
Unix(n) == clock + skew[n]

(* login as far as allowLogin lets it: the password check begins.           *)
Submit(b, n, typed) ==
    /\ form[b] = None /\ identity[n] # None
    /\ form' = [form EXCEPT ![b] = [node |-> n, typed |-> typed]]
    /\ UNCHANGED <<clock, skew, identity, jar, logins, page>>

(* bcrypt is done. The cookie is signed with the node's identity and dated  *)
(* by its wall clock as it is now.                                          *)
Answer(b) ==
    /\ form[b] # None
    /\ form' = [form EXCEPT ![b] = None]
    /\ LET n == form[b].node
           typed == form[b].typed
       IN  IF typed = identity[n]
             THEN /\ jar' = [jar EXCEPT ![b] =
                        [identity |-> identity[n], expires |-> Unix(n) + MaxAge]]
                  /\ logins' = logins \cup {[typed |-> typed, at |-> clock]}
             ELSE UNCHANGED <<jar, logins>>
    /\ UNCHANGED <<clock, skew, identity, page>>

(* protect: exactly one cookie, validCookie, then the page.                 *)
(* Faulty variants: the expiry is not checked; the identity is not signed.  *)
NeverExpires(n, c) == c.identity = identity[n]
Unsigned(n, c) == identity[n] # None /\ c.expires > Unix(n)
ValidCookie(n, c) == c.identity = identity[n] /\ c.expires > Unix(n)
Visit(b, n) ==
    /\ jar[b] # None
    /\ ValidCookie(n, jar[b])
    /\ page' = [identity |-> identity[n], at |-> clock]
    /\ UNCHANGED <<clock, skew, identity, form, jar, logins>>

(* logout asks the browser to drop its cookie, as does its age.             *)
Forget(b) ==
    /\ jar' = [jar EXCEPT ![b] = None]
    /\ UNCHANGED <<clock, skew, identity, form, logins, page>>

(* A node starts again with the config it finds. The logins it was working  *)
(* on are lost, or were answered before.                                    *)
Restart(n, id) ==
    /\ identity' = [identity EXCEPT ![n] = id]
    /\ form' = [b \in Browsers |->
                  IF form[b] # None /\ form[b].node = n THEN None ELSE form[b]]
    /\ UNCHANGED <<clock, skew, jar, logins, page>>

Tick ==
    /\ clock < MaxClock
    /\ clock' = clock + 1
    /\ UNCHANGED <<skew, identity, form, jar, logins, page>>

(* A node's wall clock is set.                                              *)
SetClock(n, s) ==
    /\ skew' = [skew EXCEPT ![n] = s]
    /\ UNCHANGED <<clock, identity, form, jar, logins, page>>

Next ==
    \/ Tick
    \/ \E b \in Browsers, n \in Nodes :
          (\E typed \in Identities : Submit(b, n, typed)) \/ Visit(b, n)
    \/ \E b \in Browsers : Answer(b) \/ Forget(b)
    \/ \E n \in Nodes : \/ \E id \in Identities \cup {None} : Restart(n, id)
                        \/ \E s \in -MaxSkew..MaxSkew : SetClock(n, s)

Spec == Init /\ [][Next]_vars
-----------------------------------------------------------------------------
(* A protected page is served only when somebody has signed in, on this     *)
(* node or another, with the very identity this node is configured with,    *)
(* less than the cookie's age ago as any two clocks see it (admin.go,       *)
(* validCookie).                                                            *)
SessionBounded ==
    page # None =>
        \E l \in logins : /\ l.typed = page.identity
                          /\ l.at <= page.at
                          /\ page.at < l.at + MaxAge + 2 * MaxSkew

(* A cookie is no better than the login that gave it.                       *)
CookiesEarned ==
    \A b \in Browsers : jar[b] # None =>
        \E l \in logins : /\ l.typed = jar[b].identity
                          /\ jar[b].expires <= l.at + MaxSkew + MaxAge

IInv == TypeOK /\ CookiesEarned /\ SessionBounded
=============================================================================
