---------------------------- MODULE PasskeyData ----------------------------
(***************************************************************************)
(* The data of the passkey server: the deployment's configuration, the     *)
(* rows of its four tables and the pure functions of package passkeys that *)
(* decide over them.  Every other module of the core extends this one.     *)
(*                                                                         *)
(* Tokens stand for token hashes, CredIds for UUIDs of credential rows,    *)
(* Authenticators for the WebAuthn credential ids that browsers send.      *)
(***************************************************************************)
EXTENDS Integers, FiniteSets, Sequences

CONSTANTS
    Nodes,          \* server processes that share the database
    Apps,           \* application codes
    Subjects,       \* the applications' user names
    RPs,            \* relying party identifiers
    Fingerprints,   \* fingerprints of verified client certificates
    Config,         \* node -> its PASSKEY_APPLICATIONS: code -> [rp, clients]
    Tokens,         \* ceremony tokens
    CredIds,        \* identifiers of credential rows
    Authenticators, \* credential ids created by authenticators
    LockKeys,       \* 64-bit keys of pg_advisory_xact_lock
    LockKey,        \* scope -> the first eight bytes of its user handle
    MaxCount,       \* largest signature counter, 2^32-1 in the schema
    TTL,            \* CeremonyTTL
    MaxTime,        \* bound on the clock
    Seed,           \* the committed rows the nodes start from
    None            \* SQL NULL, an absent row, an absent value

Kinds == {"registration", "authentication"}
CeremonyStates == {"pending", "succeeded", "failed", "expired"}

(* A scope is the (application, subject) pair that owns a credential. *)
Scopes == Apps \X Subjects
App(scope) == scope[1]

Counts == 0..MaxCount

Codes == {"invalid_request", "forbidden", "application_not_found",
          "credential_not_found", "conflict", "internal_error",
          "registration_not_found", "authentication_not_found",
          "registration_expired", "authentication_expired",
          "registration_invalid", "authentication_failed"}

NotFound(k) ==
    IF k = "registration" THEN "registration_not_found" ELSE "authentication_not_found"
Expired(k) ==
    IF k = "registration" THEN "registration_expired" ELSE "authentication_expired"
Invalid(k) ==
    IF k = "registration" THEN "registration_invalid" ELSE "authentication_failed"

-----------------------------------------------------------------------------
(* Rows.  "allowed" is the part of the stored WebAuthn session that a       *)
(* finish depends on: the credentials an assertion may use.                 *)
Ceremony == [kind : Kinds, scope : Scopes, rp : RPs, state : CeremonyStates,
             allowed : SUBSET Authenticators, expires : Nat,
             credential : CredIds \cup {None}]
Credential == [scope : Scopes, rp : RPs, wid : Authenticators,
               count : Counts]
Event == [kind : Kinds \cup {"credential"}, step : {"start", "finish", "delete"},
          scope : Scopes, credential : CredIds \cup {None},
          result : CeremonyStates, error : Codes \cup {None}]

CeremonyTable == [Tokens -> Ceremony \cup {None}]
CredentialTable == [CredIds -> Credential \cup {None}]
(* What LoadConfig lets through: distinct codes, each with clients.         *)
ConfigOK ==
    Config \in [Nodes -> UNION {[S -> [rp : RPs, clients : SUBSET Fingerprints \ {{}}]] :
                                 S \in SUBSET Apps \ {{}}}]

(* History rows, filed under the ceremony or the deleted credential they    *)
(* are about, in insertion order.                                           *)
HistoryTable == [Tokens \cup CredIds -> Seq(Event)]

-----------------------------------------------------------------------------
(* The service's table of applications, and Application.Authorize.          *)
Listed(n, app, fp) == fp \in Config[n][app].clients
Authorize(n, app, fp) ==
    IF app \notin DOMAIN Config[n] THEN "application_not_found"
    ELSE IF ~Listed(n, app, fp) THEN "forbidden"
    ELSE "ok"

(* The callback Finish runs on the locked ceremony.                         *)
AuthorizeFinish(n, row, fp) ==
    LET code == Authorize(n, App(row.scope), fp) IN
    IF code # "ok" THEN code
    ELSE IF Config[n][App(row.scope)].rp # row.rp THEN Invalid(row.kind)
    ELSE "ok"

(* Ceremony.Check.  Faulty variant: the instant of expiry still counts.     *)
CheckLate(row, now) ==
    IF row.state # "pending" THEN "conflict"
    ELSE IF now > row.expires THEN Expired(row.kind)
    ELSE "ok"
Check(row, now) ==
    IF row.state # "pending" THEN "conflict"
    ELSE IF now >= row.expires THEN Expired(row.kind)
    ELSE "ok"

(* The library's clone rule, which Verify turns into a failed assertion: a  *)
(* counter must grow unless the authenticator keeps none.                   *)
Advances(old, new) == new > old \/ (old = 0 /\ new = 0)

(* The ceremony state that stores an outcome.  Faulty variant: the outcome  *)
(* itself is stored.                                                        *)
StateOfRaw(k, outcome) == IF outcome = "ok" THEN "succeeded" ELSE outcome
StateOf(k, outcome) ==
    IF outcome = "ok" THEN "succeeded"
    ELSE IF outcome = Expired(k) THEN "expired"
    ELSE "failed"

NewCeremony(k, scope, rp, allowed, expires) ==
    [kind |-> k, scope |-> scope, rp |-> rp, state |-> "pending",
     allowed |-> allowed, expires |-> expires, credential |-> None]

(* The rows event() writes. *)
StartEvent(row) ==
    [kind |-> row.kind, step |-> "start", scope |-> row.scope, credential |-> None,
     result |-> "succeeded", error |-> None]
FinishEvent(row, id, outcome) ==
    [kind |-> row.kind, step |-> "finish", scope |-> row.scope,
     credential |-> IF outcome = "ok" THEN id ELSE None,
     result |-> StateOf(row.kind, outcome),
     error |-> IF outcome = "ok" THEN None ELSE outcome]
DeleteEvent(scope, id) ==
    [kind |-> "credential", step |-> "delete", scope |-> scope, credential |-> id,
     result |-> "succeeded", error |-> None]

-----------------------------------------------------------------------------
(* What must be true of the tables together, for any contents.              *)

(* The UNIQUE(rp_id, webauthn_id) of migration 001.                         *)
OneOwner(creds) ==
    \A c, d \in CredIds :
        /\ creds[c] # None /\ creds[d] # None
        /\ creds[c].rp = creds[d].rp /\ creds[c].wid = creds[d].wid
        => c = d

(* The history of a ceremony is its start and, once it is completed, one    *)
(* finish that agrees with the row.                                         *)
CeremonyLogged(row, log) ==
    IF row = None THEN log = <<>>
    ELSE /\ Len(log) = IF row.state = "pending" THEN 1 ELSE 2
         /\ log[1] = StartEvent(row)
         /\ row.state = "pending" => row.credential = None
         /\ row.state # "pending" =>
              /\ log[2].step = "finish" /\ log[2].kind = row.kind
              /\ log[2].scope = row.scope
              /\ log[2].result = row.state
              /\ (row.state = "succeeded") <=> (log[2].error = None)
              /\ (row.state = "succeeded") <=> (log[2].credential # None)
              /\ row.kind = "authentication" => row.credential = log[2].credential

(* The registrations whose history says they created credential c.          *)
Registered(c, cers, hist) ==
    {t \in Tokens : /\ cers[t] # None /\ cers[t].kind = "registration"
                    /\ cers[t].state = "succeeded"
                    /\ hist[t][2].credential = c}

(* A stored credential was created by one recorded registration of its      *)
(* scope and relying party; a deleted one has exactly one deletion, and     *)
(* nobody stores or creates it again.                                       *)
CredentialLogged(c, cers, creds, hist) ==
    /\ \A t, u \in Registered(c, cers, hist) : t = u
    /\ creds[c] # None =>
         /\ hist[c] = <<>>
         /\ \E t \in Registered(c, cers, hist) :
              cers[t].scope = creds[c].scope /\ cers[t].rp = creds[c].rp
    /\ creds[c] = None /\ Registered(c, cers, hist) # {} =>
         \E t \in Registered(c, cers, hist) :
              hist[c] = <<DeleteEvent(cers[t].scope, c)>>
    /\ Registered(c, cers, hist) = {} => hist[c] = <<>>

LogAgrees(cers, creds, hist) ==
    /\ \A t \in Tokens : CeremonyLogged(cers[t], hist[t])
    /\ \A c \in CredIds : CredentialLogged(c, cers, creds, hist)

-----------------------------------------------------------------------------
ASSUME ConfigAssumption == ConfigOK
ASSUME LockKeyAssumption == LockKey \in [Scopes -> LockKeys]
ASSUME MaxCountAssumption == MaxCount \in Nat
ASSUME MaxTimeAssumption == MaxTime \in Nat
ASSUME TTLAssumption == TTL \in Nat \ {0}
ASSUME NoneAssumption ==
    None \notin Ceremony \cup Credential \cup Tokens \cup CredIds \cup Codes \cup {"ok"}
ASSUME KeysAssumption == Tokens \cap CredIds = {}
ASSUME SeedAssumption ==
    /\ Seed.ceremonies \in CeremonyTable
    /\ Seed.credentials \in CredentialTable
    /\ Seed.history \in HistoryTable
    /\ OneOwner(Seed.credentials)
    /\ LogAgrees(Seed.ceremonies, Seed.credentials, Seed.history)
=============================================================================
