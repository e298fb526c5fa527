---------------------------- MODULE DemoPageProofs -------------------------
(***************************************************************************)
(* The demo page, for any number of clicks and subjects.                   *)
(***************************************************************************)
EXTENDS DemoPage, TLAPS

LEMMA InitInvariant == Init => IInv
BY RunsAssumption DEF Init, IInv, TypeOK, Controlled, SuccessIsTrue, OneRun, RetryPossible,
     Active, Waiting, Says, Blank, Controls, Kinds

-----------------------------------------------------------------------------
(* The field takes input only while no ceremony is in progress.             *)
LEMMA TypeStep ==
    ASSUME IInv, NEW s \in Subjects \cup {None}, Type(s)
    PROVE  IInv'
<1>0. TypeOK /\ Controlled /\ SuccessIsTrue /\ RetryPossible
  BY DEF IInv
<1>1. /\ "subject" \notin disabled /\ field' = s
      /\ UNCHANGED <<supported, disabled, run, verdict, status, result>>
  BY DEF Type
<1>2. Active = {} /\ Active' = {}
  BY <1>0, <1>1 DEF Controlled, Controls, Active
<1>3. TypeOK'
  BY <1>0, <1>1 DEF TypeOK
<1>4. Controlled' /\ SuccessIsTrue' /\ RetryPossible'
  BY <1>0, <1>1, <1>2 DEF Controlled, SuccessIsTrue, RetryPossible
<1>5. OneRun'
  BY <1>2 DEF OneRun
<1> QED BY <1>3, <1>4, <1>5 DEF IInv

(* So do the buttons: a click finds the page at rest.                       *)
LEMMA ClickStep ==
    ASSUME IInv, NEW r \in Runs, NEW kind \in Kinds, Click(r, kind)
    PROVE  IInv'
<1>0. TypeOK /\ Controlled /\ SuccessIsTrue /\ RetryPossible
  BY DEF IInv
<1>1. kind \notin disabled /\ run[r].at = "unused" /\ UNCHANGED <<supported, field, verdict>>
  BY DEF Click
<1>2. supported /\ Active = {}
  BY <1>0, <1>1 DEF Controlled, Controls, TypeOK
<1>3. CASE field = None
  <2>1. /\ status' = [says |-> "bad subject", by |-> r]
        /\ UNCHANGED <<disabled, run, result>>
    BY <1>3 DEF Click, Show
  <2>2. Active' = {}
    BY <1>2, <2>1 DEF Active
  <2>3. TypeOK'
    BY <1>0, <1>1, <2>1 DEF TypeOK, Says
  <2>4. Controlled' /\ SuccessIsTrue' /\ OneRun' /\ RetryPossible'
    BY <1>0, <1>1, <1>2, <2>1, <2>2 DEF Controlled, SuccessIsTrue, OneRun, RetryPossible
  <2> QED BY <2>3, <2>4 DEF IInv
<1>4. CASE field # None
  <2>1. /\ disabled' = disabled \cup Controls
        /\ run' = [run EXCEPT ![r] = [kind |-> kind, subject |-> field, at |-> "start"]]
        /\ status' = [says |-> "working", by |-> r] /\ result' = None
    BY <1>4 DEF Click, Show, AllControls
  <2>2. Active' = {r} /\ run'[r].subject = field
    BY <1>0, <1>2, <2>1 DEF Active, Waiting, TypeOK
  <2>3. TypeOK'
    BY <1>0, <1>1, <2>1 DEF TypeOK, Says, Waiting
  <2>4. disabled' = Controls
    BY <1>0, <2>1 DEF TypeOK
  <2>5. Controlled' /\ SuccessIsTrue' /\ OneRun' /\ RetryPossible'
    BY <1>1, <1>2, <2>1, <2>2, <2>4 DEF Controlled, SuccessIsTrue, OneRun, RetryPossible
  <2> QED BY <2>3, <2>5 DEF IInv
<1> QED BY <1>3, <1>4

(* The ceremony in progress goes on to its next call or dialog.             *)
LEMMA GoesOn ==
    ASSUME IInv, NEW r \in Active, NEW at \in Waiting, Goto(r, at), Show(r, "working"),
           UNCHANGED <<supported, disabled, field, verdict, result>>
    PROVE  IInv'
<1>0. TypeOK /\ Controlled /\ OneRun
  BY DEF IInv
<1>1. /\ r \in Runs /\ run' = [run EXCEPT ![r].at = at]
      /\ status' = [says |-> "working", by |-> r]
  BY DEF Goto, Show, Active
<1>2. Active = {r} /\ field = run[r].subject
  BY <1>0 DEF OneRun
<1>3. Active' = {r} /\ run'[r].subject = run[r].subject
  BY <1>0, <1>1, <1>2 DEF Active, TypeOK
<1>4. TypeOK'
  BY <1>0, <1>1 DEF TypeOK, Says
<1>5. Controlled' /\ SuccessIsTrue' /\ OneRun' /\ RetryPossible'
  BY <1>0, <1>1, <1>2, <1>3 DEF Controlled, SuccessIsTrue, OneRun, RetryPossible
<1> QED BY <1>4, <1>5 DEF IInv

(* It is over: whatever its outcome, the controls of another one are        *)
(* enabled, and success is said only of a run that was accepted.            *)
LEMMA GoesOver ==
    ASSUME IInv, NEW r \in Active, NEW says \in Says, Goto(r, "over"), Finally(r), Show(r, says),
           UNCHANGED <<supported, field, verdict>>, result' \in {result, r},
           says = "success" => result' = r /\ verdict[r] = "accepted"
    PROVE  IInv'
<1>0. TypeOK /\ Controlled /\ OneRun
  BY DEF IInv
<1>1. /\ r \in Runs /\ run' = [run EXCEPT ![r].at = "over"]
      /\ disabled' = disabled \ Enabled(r)
      /\ status' = [says |-> says, by |-> r]
  BY DEF Goto, Show, Finally, Active
<1>2. Active = {r} /\ supported
  BY <1>0 DEF OneRun, Controlled, TypeOK
<1>3. Active' = {} /\ run'[r].at = "over"
  BY <1>0, <1>1, <1>2 DEF Active, TypeOK, Waiting
<1>4. TypeOK'
  BY <1>0, <1>1 DEF TypeOK
<1>5. {"subject", "register", "login"} \cap disabled' = {}
  BY <1>1 DEF Enabled, Controls, Kinds
<1>6. Controlled' /\ OneRun' /\ RetryPossible'
  BY <1>2, <1>3, <1>5 DEF Controlled, OneRun, RetryPossible
<1>7. SuccessIsTrue'
  BY <1>1, <1>3 DEF SuccessIsTrue
<1> QED BY <1>4, <1>6, <1>7 DEF IInv

(* An error is never shown as a success.                                    *)
LEMMA FailStep ==
    ASSUME IInv, NEW r \in Active, NEW says \in {"cancelled", "refused", "no answer"}, Fail(r, says)
    PROVE  IInv'
<1> DEFINE shown == IF run[r].kind = "invalidRegister" THEN "refused" ELSE says
<1>1. /\ shown \in Says /\ shown # "success"
      /\ Goto(r, "over") /\ Finally(r) /\ Show(r, shown)
      /\ UNCHANGED <<supported, field, verdict, result>>
  BY DEF Fail, Says
<1> HIDE DEF shown
<1> QED BY <1>1, GoesOver

(* A decision of the server is about the ceremony in progress, of which     *)
(* nothing has been said but that it is.                                    *)
LEMMA DecideStep ==
    ASSUME IInv, NEW r \in Runs, NEW v \in {"accepted", "rejected"}, Decide(r, v)
    PROVE  IInv'
<1>0. TypeOK /\ Controlled /\ OneRun /\ RetryPossible
  BY DEF IInv
<1>1. /\ run[r].at = "finish" /\ verdict' = [verdict EXCEPT ![r] = v]
      /\ UNCHANGED <<supported, disabled, field, run, status, result>>
  BY DEF Decide
<1>2. r \in Active
  BY <1>1 DEF Active, Waiting
<1>3. status.says = "working" /\ Active' = Active
  BY <1>0, <1>1, <1>2 DEF OneRun, Active
<1>4. TypeOK'
  BY <1>0, <1>1 DEF TypeOK
<1>5. Controlled' /\ SuccessIsTrue' /\ OneRun' /\ RetryPossible'
  BY <1>0, <1>1, <1>3 DEF Controlled, SuccessIsTrue, OneRun, RetryPossible
<1> QED BY <1>4, <1>5 DEF IInv

(* What the proxy forwards as a success is the server's acceptance.         *)
LEMMA AnswerStep ==
    ASSUME IInv, NEW r \in Runs, NEW answer \in Unusable \cup {"accepted", "rejected"},
           Answer(r, answer)
    PROVE  IInv'
<1>1. r \in Active /\ (answer = verdict[r] \/ answer \in Unusable)
  BY DEF Answer, Active, Waiting
<1>2. CASE Forwarded(answer) # "ok"
  BY <1>1, <1>2, FailStep DEF Answer, Forwarded
<1>3. CASE Forwarded(answer) = "ok"
  <2>1. verdict[r] = "accepted"
    BY <1>1, <1>3 DEF Forwarded, Unusable, TimedOut
  <2>2. CASE run[r].kind = "invalidRegister"
    BY <1>1, <1>3, <2>2, GoesOver DEF Answer, Says
  <2>3. CASE run[r].kind # "invalidRegister"
    BY <1>1, <1>3, <2>1, <2>3, GoesOver DEF Answer, Says
  <2> QED BY <2>2, <2>3
<1> QED BY <1>2, <1>3

LEMMA StartFailsStep ==
    ASSUME IInv, NEW r \in Runs, NEW answer, StartFails(r, answer)
    PROVE  IInv'
<1>1. r \in Active /\ Forwarded(answer) \in {"refused", "no answer"} /\ Fail(r, Forwarded(answer))
  BY DEF StartFails, Active, Waiting, Forwarded, Unusable, TimedOut
<1> QED BY <1>1, FailStep

-----------------------------------------------------------------------------
(* The inductive invariant: one ceremony at a time holds every control, and *)
(* what is shown is about it, or was the last one's outcome (index.html).   *)
THEOREM PageInvariant == Spec => []IInv
<1>1. Init => IInv
  BY InitInvariant
<1>2. IInv /\ [Next]_vars => IInv'
  <2> SUFFICES ASSUME IInv, [Next]_vars
               PROVE  IInv'
    OBVIOUS
  <2>1. ASSUME NEW s \in Subjects \cup {None}, Type(s) PROVE IInv'
    BY <2>1, TypeStep
  <2>2. ASSUME NEW r \in Runs, NEW kind \in Kinds, Click(r, kind) PROVE IInv'
    BY <2>2, ClickStep
  <2>3. ASSUME NEW r \in Runs, Started(r) PROVE IInv'
    <3>1. r \in Active
      BY <2>3 DEF Started, Active, Waiting
    <3> QED BY <2>3, <3>1, GoesOn DEF Started, Waiting
  <2>4. ASSUME NEW r \in Runs, Confirm(r) PROVE IInv'
    <3>1. r \in Active
      BY <2>4 DEF Confirm, Active, Waiting
    <3> QED BY <2>4, <3>1, GoesOn DEF Confirm, Waiting
  <2>5. ASSUME NEW r \in Runs, Cancel(r) PROVE IInv'
    <3>1. r \in Active
      BY <2>5 DEF Cancel, Active, Waiting
    <3> QED BY <2>5, <3>1, FailStep DEF Cancel
  <2>6. ASSUME NEW r \in Runs, NEW v \in {"accepted", "rejected"}, Decide(r, v) PROVE IInv'
    BY <2>6, DecideStep
  <2>7. ASSUME NEW r \in Runs, NEW answer \in Unusable \cup {"accepted", "rejected"},
               StartFails(r, answer) \/ Answer(r, answer)
        PROVE  IInv'
    BY <2>7, StartFailsStep, AnswerStep
  <2>8. CASE UNCHANGED vars
    BY <2>8 DEF vars, IInv, TypeOK, Controlled, SuccessIsTrue, OneRun, RetryPossible, Active
  <2> QED BY <2>1, <2>2, <2>3, <2>4, <2>5, <2>6, <2>7, <2>8 DEF Next
<1> QED BY <1>1, <1>2, PTL DEF Spec

(* A success that is shown is the server's, of the run whose result is      *)
(* shown (index.html, ceremony; main.go, forward).                          *)
THEOREM SuccessAlwaysTrue == Spec => []SuccessIsTrue
<1>1. IInv => SuccessIsTrue
  BY DEF IInv
<1> QED BY <1>1, PageInvariant, PTL

(* The page runs one ceremony at a time, for the subject in its field       *)
(* (index.html, the disabled controls).                                     *)
THEOREM AlwaysOneRun == Spec => []OneRun
<1>1. IInv => OneRun
  BY DEF IInv
<1> QED BY <1>1, PageInvariant, PTL

(* Whatever became of a ceremony, another can be tried (index.html,         *)
(* finally).                                                                *)
THEOREM RetryAlwaysPossible == Spec => []RetryPossible
<1>1. IInv => RetryPossible
  BY DEF IInv
<1> QED BY <1>1, PageInvariant, PTL
=============================================================================
