------------------------------ MODULE DemoPage -----------------------------
(***************************************************************************)
(* The demo page and its proxy: clicks that start ceremonies, the calls    *)
(* and the system dialog they wait for, the controls that are disabled     *)
(* meanwhile, and what is shown in the end. The Passkey Server is whatever *)
(* accepts or rejects a ceremony, or gives no answer that the proxy can    *)
(* use.                                                                    *)
(***************************************************************************)
EXTENDS Naturals

CONSTANTS
    Runs,       \* the ceremonies that clicks may start
    Subjects,   \* what may be typed into the field
    None

Kinds == {"register", "login", "invalidRegister"}
Controls == {"subject"} \cup Kinds
ASSUME RunsAssumption == None \notin Runs \cup Subjects

VARIABLES
    supported,  \* the context is secure and has WebAuthn
    disabled,   \* controls that do not take clicks or input
    field,      \* the subject typed, None when it is empty or too long
    run,        \* run -> [kind, subject, at]
    verdict,    \* run -> what the server decided on its finish, or None
    status,     \* the message shown: what it says and which run wrote it
    result      \* the run whose answer is shown, or None

vars == <<supported, disabled, field, run, verdict, status, result>>

Waiting == {"start", "dialog", "finish"}
Says == {"nothing", "bad subject", "working", "success", "unexpected",
         "cancelled", "refused", "no answer"}

TypeOK ==
    /\ supported \in BOOLEAN
    /\ disabled \subseteq Controls
    /\ field \in Subjects \cup {None}
    /\ run \in [Runs -> [kind : Kinds, subject : Subjects \cup {None},
                         at : {"unused", "over"} \cup Waiting]]
    /\ verdict \in [Runs -> {None, "accepted", "rejected"}]
    /\ status \in [says : Says, by : Runs \cup {None}]
    /\ result \in Runs \cup {None}

Blank == [says |-> "nothing", by |-> None]
Init ==
    /\ supported \in BOOLEAN
    /\ disabled = IF supported THEN {} ELSE Kinds
    /\ field \in Subjects \cup {None}
    /\ run = [r \in Runs |-> [kind |-> "login", subject |-> None, at |-> "unused"]]
    /\ verdict = [r \in Runs |-> None]
    /\ status = Blank /\ result = None

-----------------------------------------------------------------------------
Show(r, says) == status' = [says |-> says, by |-> r]
Goto(r, at) == run' = [run EXCEPT ![r].at = at]

Type(s) ==
    /\ "subject" \notin disabled
    /\ field' = s
    /\ UNCHANGED <<supported, disabled, run, verdict, status, result>>

(* ceremony and invalidRegistration, up to their first call.                *)
(* Faulty variants: the subject can still be edited; only the button that   *)
(* was clicked is disabled.                                                 *)
ButtonsOnly(kind) == Kinds
ItsButton(kind) == {"subject", kind}
AllControls(kind) == Controls
Click(r, kind) ==
    /\ kind \notin disabled
    /\ run[r].at = "unused"
    /\ IF field = None
         THEN Show(r, "bad subject") /\ UNCHANGED <<disabled, run, result>>
         ELSE /\ disabled' = disabled \cup AllControls(kind)
              /\ run' = [run EXCEPT ![r] = [kind |-> kind, subject |-> field, at |-> "start"]]
              /\ Show(r, "working") /\ result' = None
    /\ UNCHANGED <<supported, field, verdict>>

(* finally. A ceremony leaves the button for an invalid registration as it  *)
(* is.                                                                      *)
(* Faulty variant: nothing is enabled again after an error.                 *)
Nothing(r) == {}
Enabled(r) == IF run[r].kind = "invalidRegister" THEN Controls ELSE Controls \ {"invalidRegister"}
Finally(r) == disabled' = disabled \ Enabled(r)

(* An error is shown as what it is. An invalid registration shows every     *)
(* error as a refusal.                                                      *)
Fail(r, says) ==
    /\ Goto(r, "over") /\ Finally(r)
    /\ Show(r, IF run[r].kind = "invalidRegister" THEN "refused" ELSE says)
    /\ UNCHANGED <<supported, field, verdict, result>>

(* forward: what the proxy makes of the server's answer. Its client gives   *)
(* up after 10 seconds; an answer that is no JSON, or a status that is      *)
(* neither 200 nor 4xx with an error code, becomes an error of its own.     *)
(* Faulty variants: the body is passed on with status 200; the client waits *)
(* for ever.                                                                *)
StatusLost(answer) == IF answer = "silence" THEN "no answer" ELSE "ok"
Forwarded(answer) ==
    CASE answer = "accepted" -> "ok"
      [] answer = "rejected" -> "refused"
      [] OTHER -> "no answer"
WaitsForever == {}
TimedOut == {"silence"}
Unusable == TimedOut \cup {"server error", "garbled"}

(* The answer to a start: options and a token, or an error.                 *)
Started(r) ==
    /\ run[r].at = "start"
    /\ Goto(r, IF run[r].kind = "invalidRegister" THEN "finish" ELSE "dialog")
    /\ Show(r, "working")
    /\ UNCHANGED <<supported, disabled, field, verdict, result>>
StartFails(r, answer) ==
    /\ run[r].at = "start" /\ answer \in Unusable \cup {"rejected"}
    /\ Fail(r, Forwarded(answer))

(* navigator.credentials: a credential, or a refusal, a timeout, an error.  *)
Confirm(r) ==
    /\ run[r].at = "dialog"
    /\ Goto(r, "finish") /\ Show(r, "working")
    /\ UNCHANGED <<supported, disabled, field, verdict, result>>
Cancel(r) == run[r].at = "dialog" /\ Fail(r, "cancelled")

(* The server decides on a finish, whether or not anybody waits for it.     *)
Decide(r, v) ==
    /\ run[r].at = "finish" /\ verdict[r] = None
    /\ v = "accepted" => run[r].kind # "invalidRegister"
    /\ verdict' = [verdict EXCEPT ![r] = v]
    /\ UNCHANGED <<supported, disabled, field, run, status, result>>

(* The answer to a finish, or none.                                         *)
Answer(r, answer) ==
    /\ run[r].at = "finish"
    /\ answer = verdict[r] \/ answer \in Unusable
    /\ IF Forwarded(answer) # "ok" THEN Fail(r, Forwarded(answer))
       ELSE /\ Goto(r, "over") /\ Finally(r)
            /\ IF run[r].kind = "invalidRegister"
                 THEN Show(r, "unexpected") /\ UNCHANGED result
                 ELSE Show(r, "success") /\ result' = r
            /\ UNCHANGED <<supported, field, verdict>>

Next ==
    \/ \E s \in Subjects \cup {None} : Type(s)
    \/ \E r \in Runs :
        \/ \E kind \in Kinds : Click(r, kind)
        \/ Started(r) \/ Confirm(r) \/ Cancel(r)
        \/ \E v \in {"accepted", "rejected"} : Decide(r, v)
        \/ \E answer \in Unusable \cup {"accepted", "rejected"} :
              StartFails(r, answer) \/ Answer(r, answer)

Spec == Init /\ [][Next]_vars

(* The proxy's timeout answers a call that nothing else answers, and the    *)
(* browser ends a dialog after the timeout in its options.                  *)
FairSpec ==
    /\ Spec
    /\ \A r \in Runs :
        /\ WF_vars(\E answer \in TimedOut : StartFails(r, answer))
        /\ WF_vars(Confirm(r) \/ Cancel(r))
        /\ WF_vars(\E answer \in TimedOut : Answer(r, answer))
-----------------------------------------------------------------------------
Active == {r \in Runs : run[r].at \in Waiting}

(* A page that says a ceremony succeeded shows the result of that very run, *)
(* and the server has accepted it: no failure, timeout or garbled answer    *)
(* reads as a success (index.html, ceremony; main.go, forward).             *)
SuccessIsTrue ==
    status.says = "success" =>
        /\ result = status.by /\ run[result].at = "over"
        /\ verdict[result] = "accepted"

(* However calls, dialogs and clicks interleave, a page runs one ceremony   *)
(* at a time, for the subject its field shows, and what it says is about    *)
(* that one (index.html, the disabled controls).                            *)
OneRun ==
    \A r \in Active :
        /\ Active = {r}
        /\ field = run[r].subject
        /\ status.by = r /\ status.says = "working"

(* Whatever became of a ceremony, another one can be tried: its controls    *)
(* are enabled again (local-development.md, step 3).                        *)
RetryPossible ==
    supported /\ Active = {} => {"subject", "register", "login"} \cap disabled = {}

(* A ceremony in progress keeps every control disabled, and a page without  *)
(* WebAuthn keeps every button disabled and begins none (index.html).       *)
Controlled ==
    /\ Active # {} => disabled = Controls
    /\ ~supported => Kinds \subseteq disabled /\ Active = {}

IInv == TypeOK /\ Controlled /\ SuccessIsTrue /\ OneRun /\ RetryPossible

(* Every ceremony ends, although the server may leave every call without an *)
(* answer and the user every dialog alone (main.go, newClient's timeout).   *)
RunEnds == \A r \in Runs : run[r].at \in Waiting ~> run[r].at = "over"

(* The steps of local-development.md: after the ceremonies of steps 1 to 4, *)
(* "Click Test invalid registration".                                       *)
InvalidStaysAvailable ==
    supported /\ Active = {} => "invalidRegister" \notin disabled
=============================================================================
