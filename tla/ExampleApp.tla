------------------------------ MODULE ExampleApp ------------------------------
(***************************************************************************)
(* The example application on Windows: the process and its window, and in  *)
(* it the Dart code of AutoLock, which runs as long as the message loop    *)
(* and the engine do.  A biometric operation of the one is the coroutine   *)
(* of the plugin in the other.                                             *)
(***************************************************************************)
EXTENDS WindowsRunner

CONSTANTS Timeout, Handlers

VARIABLES status, operation, loadState, locker, timer, left, starting, call, sheet, setting,
          unmarked, lifecycle, missed

Session == INSTANCE AutoLock

ASSUME SessionTimeout == Session!TimeoutAssumption

session == <<status, operation, loadState, locker, timer, left, starting, call, sheet, setting,
             unmarked, lifecycle, missed>>
allVars == <<vars, session>>

AppInit == Init /\ Session!Init

\* The application can be used.
InUse == Reaches("loop") /\ controller = "running" /\ shown

\* The isolate goes with the engine.  It is taken to end as soon as the window is being
\* destroyed: from there to the end of the engine is one turn of the message loop, in
\* which the session takes no step.
SessionEnds ==
    /\ status' = "notInitialized" /\ operation' = "idle" /\ locker' = "locked"
    /\ timer' = "none" /\ left' = 0
    /\ loadState' = "none" /\ starting' = "no" /\ sheet' = "none" /\ unmarked' = FALSE
    /\ call' = [h \in Handlers |-> Session!NoCall] /\ setting' = Session!NoCall
    /\ lifecycle' = "resumed" /\ missed' = "no"

\* What the runner does.
RunnerStep ==
    /\ Main \/ Destroying \/ CompleteFrame \/ Show \/ Close
    /\ IF InUse /\ ~InUse'
       THEN SessionEnds ELSE UNCHANGED session

\* The coroutine of a biometric operation that the application has begun or ended.
FollowsPrompt ==
    IF Session!Prompting' = Session!Prompting THEN UNCHANGED vars
    ELSE IF Session!Prompting' THEN Await ELSE Resume

SessionStep(A) == InUse /\ A /\ FollowsPrompt

\* A coroutine goes on after its engine.
Orphan == Resume /\ controller # "running" /\ UNCHANGED session

AppNext ==
    \/ RunnerStep \/ Orphan
    \/ SessionStep(Session!User) \/ SessionStep(Session!AppResumed)
    \/ SessionStep(Session!Progress) \/ SessionStep(Session!Tick)
    \/ SessionStep(Session!TimerFires)

AppSpec == AppInit /\ [][AppNext]_allVars

Runs(A) == A /\ RunnerStep

\* The fairness of the runner, whose thread either goes on in wWinMain or destroys,
\* and of the Dart event loop: time passes or a timer fires, reads of the vault end,
\* and so does every biometric prompt, by a timeout of Windows.  The user need not
\* do anything, not even come back to the application.
AppFairness ==
    /\ WF_allVars(Runs(Main \/ Destroying)) /\ WF_allVars(Runs(CompleteFrame \/ Show))
    /\ WF_allVars(SessionStep(Session!Progress))
    /\ WF_allVars(SessionStep(Session!Tick \/ Session!TimerFires))

AppFairSpec == AppSpec /\ AppFairness

-----------------------------------------------------------------------------
(* Properties *)

SessionTypeOK == Session!TypeOK

\* As stated in AutoLock, for the application that a close may end at any step.
StatusAgrees == Session!StatusAgrees
SessionIsTimed == Session!SessionIsTimed
LockedHasNoTimer == Session!LockedHasNoTimer
PromptsAreNotLocked ==
    [][Session!Prompting /\ status = "unlocked" /\ ~unmarked => status' # "locked"]_allVars

\* README, "Automatic locking after configurable inactivity timeout", as far as the
\* code keeps it: when the user does nothing any more but leave the application and
\* come back, with no settings sheet left open, the session is locked or closed in
\* the end, unless the timeout could not be read.
InactiveSessionLocks ==
    /\ <>[][~SessionStep(Session!User) \/ SessionStep(Session!Leave)]_allVars
    /\ []<>(lifecycle = "inactive") /\ []<>(lifecycle = "resumed")
    /\ []<>(sheet = "none")
    => []<>(status # "unlocked" \/ missed = "unread")

=============================================================================
