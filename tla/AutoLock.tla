------------------------------- MODULE AutoLock -------------------------------
(***************************************************************************)
(* The automatic lock of the example application: TimerServiceImpl, the    *)
(* part of LockerBloc and SettingsBloc that starts, extends and stops it,  *)
(* and the locker behind them, of which only locked or unlocked is kept.   *)
(* A step is one event of the Dart event loop with every microtask after   *)
(* it: a lock request, the locker's new state and what the bloc makes of   *)
(* it are one step, while each access to the file or the key store ends in *)
(* a step of its own.                                                      *)
(***************************************************************************)
EXTENDS Integers

CONSTANTS
    Timeout,   \* the inactivity timeout, in ticks
    Handlers   \* BOUND: event handlers of LockerBloc that can be under way at once

TimeoutAssumption == Timeout \in Nat \ {0}

VARIABLES
    status,     \* LockerBloc: state.status
    operation,  \* LockerBloc: state.biometricOperationState
    locker,     \* MFALocker: its state
    timer,      \* TimerServiceImpl: _lockTimer
    left,       \* the ticks to _endTimestamp
    starting,   \* startTimer awaits the timeout of the vault, and for whom
    loadState,  \* LockerBloc: state.loadState
    call,       \* the vault operation of each handler of LockerBloc
    sheet,      \* the authentication sheet of the settings: none, password, biometric
    setting,    \* the update of the timeout under way in SettingsBloc
    lifecycle,  \* AppLifecycleState: in the foreground or not
    missed,     \* HISTORY: why an unlocked session has no timer running
    unmarked    \* HISTORY: the end of one operation cleared the mark of another

bloc == <<status, operation, loadState>>
service == <<timer, left>>
work == <<starting, call, sheet, setting, unmarked>>
vars == <<bloc, locker, service, work, lifecycle, missed>>

\* A call: the operation, whether it asks for biometrics, and whether it has been
\* through loadAllMetaIfLocked.  "entry" stands for the operations on entries, on the
\* password and on the biometric wrap, "tail" for what a failed prompt leaves to do.
NoCall == [op |-> "none", bio |-> FALSE, loaded |-> FALSE]
Called(op, bio) == [op |-> op, bio |-> bio, loaded |-> FALSE]

Operations == {"none", "init", "unlock", "entry", "erase", "tail"}
Calls == [op : Operations, bio : BOOLEAN, loaded : BOOLEAN]
Status == {"notInitialized", "settingInitialEntry", "locked", "unlocked"}

Init ==
    /\ status \in {"notInitialized", "locked"}
    /\ operation = "idle"
    /\ locker = "locked"
    /\ timer = "none" /\ left = 0
    /\ loadState = "none" /\ starting = "no" /\ call = [h \in Handlers |-> NoCall]
    /\ sheet = "none" /\ setting = NoCall /\ unmarked = FALSE
    /\ lifecycle = "resumed"
    /\ missed = "no"

-----------------------------------------------------------------------------
(* TimerServiceImpl *)

\* _scheduleTimer
Schedules == timer' = "running" /\ left' = Timeout /\ missed' = "no"

KeepsTimer == UNCHANGED <<service, missed>>

\* Mutant: the end of the cancelled timer stays behind.
Stops_KeepsEnd == timer' = "none" /\ left' = left /\ missed' = "no"

\* stopTimer
Stops == timer' = "none" /\ left' = 0 /\ missed' = "no"

\* Mutant: touch starts over only what is left of a timer that nobody restarts.
Touches_Stops == IF timer = "running" THEN Stops ELSE KeepsTimer

\* touch
Touches == IF timer = "running" THEN Schedules ELSE KeepsTimer

ShouldLockOnResume == timer # "none" /\ left = 0

Tick ==
    /\ left > 0
    /\ left' = left - 1
    /\ UNCHANGED <<bloc, locker, timer, work, lifecycle, missed>>

-----------------------------------------------------------------------------
(* Locking *)

\* The locker locks, its state reaches the bloc, which stops the timer.
Locks ==
    /\ locker' = "locked" /\ status' = "locked" /\ loadState' = "none"
    /\ Stops

\* Mutant: only the wait for the application to resume is respected.
MayLock_InProgress == operation # "awaitingResume"

\* _onLockRequested drops the request during a biometric operation.
MayLock == operation = "idle"

\* The lock button, which no overlay covers.
LockRequested ==
    /\ lifecycle = "resumed" /\ status = "unlocked"
    /\ MayLock
    /\ Locks
    /\ UNCHANGED <<operation, work, lifecycle>>

\* _onTimerExpired: a timer that has fired is not running any more.
TimerFires ==
    /\ timer = "running" /\ left = 0
    /\ IF status = "unlocked" /\ MayLock THEN Locks
       ELSE /\ timer' = "fired"
            /\ missed' = IF status = "unlocked" THEN "dropped" ELSE missed
            /\ UNCHANGED <<locker, status, loadState, left>>
    /\ UNCHANGED <<operation, work, lifecycle>>

NoLongerAwaits == operation' = IF operation = "awaitingResume" THEN "idle" ELSE operation

\* _onActivityDetected, for every touch of the screen.
Activity ==
    /\ lifecycle = "resumed"
    /\ IF status = "unlocked" THEN Touches ELSE KeepsTimer
    /\ NoLongerAwaits
    /\ UNCHANGED <<locker, status, loadState, work, lifecycle>>

Leave ==
    /\ lifecycle = "resumed"
    /\ lifecycle' = "inactive"
    /\ UNCHANGED <<bloc, locker, service, work, missed>>

\* Mutant: the wait for the resume is left to the next touch.
AppResumed_KeepsWaiting ==
    /\ lifecycle # "resumed"
    /\ lifecycle' = "resumed"
    /\ IF ShouldLockOnResume /\ status = "unlocked" /\ MayLock THEN Locks
       ELSE KeepsTimer /\ UNCHANGED <<locker, status, loadState>>
    /\ UNCHANGED <<operation, work>>

\* _onAppResumed: it locks or it clears the wait, not both.
AppResumed ==
    /\ lifecycle # "resumed"
    /\ lifecycle' = "resumed"
    /\ IF ShouldLockOnResume /\ status = "unlocked" /\ MayLock THEN Locks
       ELSE KeepsTimer /\ UNCHANGED <<locker, status, loadState>>
    /\ NoLongerAwaits
    /\ UNCHANGED work

-----------------------------------------------------------------------------
(* Unlocking *)

\* loadAllMetaIfLocked of a call.  The bloc takes the new state for an unlock,
\* _refreshUnlockedState, unless it is initializing the vault.
Unlocks ==
    /\ locker' = "unlocked"
    /\ starting' = IF locker = "locked" /\ status = "locked" THEN "unlocking" ELSE starting
    /\ UNCHANGED <<bloc, service, missed>>

\* startTimer goes on, and the session is shown.
TimerStarts ==
    /\ starting # "no"
    /\ Schedules
    /\ status' = "unlocked" /\ starting' = "no" /\ loadState' = "none"
    /\ UNCHANGED <<operation, locker, call, sheet, setting, unmarked, lifecycle>>

\* The timeout of the vault cannot be read: an unlock shows the session without a
\* timer, an initialization stays where it is.
TimerFails ==
    /\ starting # "no"
    /\ status' = IF starting = "unlocking" THEN "unlocked" ELSE status
    /\ missed' = "unread" /\ starting' = "no" /\ loadState' = "none"
    /\ UNCHANGED <<operation, locker, service, call, sheet, setting, unmarked, lifecycle>>

-----------------------------------------------------------------------------
(* The vault operations of LockerBloc *)

\* The setup screens up to the first entry.
SetUp ==
    /\ status = "notInitialized"
    /\ status' = "settingInitialEntry"
    /\ UNCHANGED <<operation, loadState, locker, service, work, lifecycle, missed>>

\* What the user can ask for.  LoadingOverlay, or a disabled button, is in the way while
\* loadState is loading; but it is one flag for all the calls, which the end of any of
\* them resets.
\* BOUND: a vault is set up again after the calls of the last one have ended.
OfferedAtSetup ==
    {c \in {Called("init", FALSE)} :
        /\ loadState = "none" /\ starting = "no"
        /\ \A h \in Handlers : call[h].op \in {"none", "tail"}}

OfferedLocked ==
    {c \in [op : {"unlock"}, bio : BOOLEAN, loaded : {FALSE}] : loadState = "none"}

\* The screens of the entries, of the password and of the biometric switch.
OfferedEntries ==
    {c \in [op : {"entry"}, bio : BOOLEAN, loaded : {FALSE}] : loadState = "none"}

\* Erasing is on the application bar, which nothing covers.
OfferedErase == {Called("erase", FALSE)}

Offered ==
    CASE status = "settingInitialEntry" -> OfferedAtSetup
      [] status = "locked" -> OfferedLocked
      [] status = "unlocked" /\ sheet = "none" -> OfferedEntries \cup OfferedErase
      [] OTHER -> {}

Begin(h) ==
    /\ lifecycle = "resumed" /\ call[h] = NoCall
    /\ \E c \in Offered :
          /\ call' = [call EXCEPT ![h] = c]
          /\ operation' = IF c.bio THEN "inProgress" ELSE operation
          /\ unmarked' = (unmarked /\ ~c.bio)
    /\ loadState' = "loading"
    /\ UNCHANGED <<status, locker, service, starting, sheet, setting, lifecycle, missed>>

\* One call at a time is in the locker's _sync.
CallOwns(h) ==
    /\ ~(setting.op = "save" /\ setting.loaded)
    /\ \A g \in Handlers \ {h} : ~call[g].loaded

\* What has still to load the vault, which there has to be but for the one that makes it.
Unloaded(h) ==
    /\ call[h].op \in {"init", "unlock", "entry"} /\ ~call[h].loaded
    /\ call[h].op = "init" \/ status \in {"locked", "unlocked"}

\* Mutant: a lock in the meantime is answered by unlocking behind the bloc's back.
CallLoads_Quietly(h) ==
    /\ Unloaded(h) /\ CallOwns(h)
    /\ call' = [call EXCEPT ![h].loaded = TRUE]
    /\ locker' = "unlocked"
    /\ UNCHANGED <<bloc, service, starting, missed, sheet, setting, unmarked, lifecycle>>

CallLoads(h) ==
    /\ Unloaded(h) /\ CallOwns(h)
    /\ call' = [call EXCEPT ![h].loaded = TRUE]
    /\ Unlocks
    /\ UNCHANGED <<sheet, setting, unmarked, lifecycle>>

\* Another biometric operation is in progress.
Beside(h) == (\E g \in Handlers \ {h} : call[g].bio) \/ sheet = "biometric"

\* The handler ends.  After a biometric operation the finally block waits for the
\* resume, an event sets idle, and where both happen the microtasks decide which is
\* last; what else is in progress loses its mark.
Ends(h, states) ==
    /\ call' = [call EXCEPT ![h] = NoCall]
    /\ IF call[h].bio THEN operation' \in states /\ unmarked' = Beside(h)
                      ELSE UNCHANGED <<operation, unmarked>>

\* After a password the overlay stays until the session is shown.
CallSucceeds(h) ==
    /\ call[h].loaded /\ (call[h].op = "init" => starting = "no")
    /\ Ends(h, {"idle"})
    /\ starting' = IF call[h].op = "init" THEN "initializing" ELSE starting
    /\ loadState' = IF call[h].op \in {"init", "unlock"} /\ ~call[h].bio THEN loadState ELSE "none"
    /\ UNCHANGED <<status, locker, service, sheet, setting, lifecycle, missed>>

MayFail(h) ==
    call[h].op \notin {"none", "tail"} /\ ~(call[h].op = "unlock" /\ call[h].loaded)

\* A wrong password for enabling biometrics sets no idle event.
CallFails(h) ==
    /\ MayFail(h)
    /\ Ends(h, {"idle", "awaitingResume"})
    /\ loadState' = "none"
    /\ UNCHANGED <<status, locker, service, starting, sheet, setting, lifecycle, missed>>

\* _handleBiometricFailure of a prompt that has failed: it resets loadState, and awaits
\* the state of the biometrics under the mark of the operation that is over.
PromptFails(h) ==
    /\ MayFail(h) /\ call[h].bio /\ call[h].op # "erase"
    /\ call' = [call EXCEPT ![h] = Called("tail", FALSE)]
    /\ unmarked' = (unmarked /\ Beside(h))
    /\ loadState' = "none"
    /\ UNCHANGED <<status, operation, locker, service, starting, sheet, setting, lifecycle,
                   missed>>

TailEnds(h) ==
    /\ call[h].op = "tail"
    /\ call' = [call EXCEPT ![h] = NoCall]
    /\ operation' \in {"idle", "awaitingResume"} /\ unmarked' = Beside(h)
    /\ loadState' = "none"
    /\ UNCHANGED <<status, locker, service, starting, sheet, setting, lifecycle, missed>>

\* It was a delete, and of the last entry: the handler goes on to erase the storage.
LastEntryDeleted(h) ==
    /\ call[h].op = "entry" /\ call[h].loaded
    /\ call' = [call EXCEPT ![h].op = "erase", ![h].loaded = FALSE]
    /\ UNCHANGED <<bloc, locker, service, starting, sheet, setting, unmarked, lifecycle, missed>>

\* eraseStorage locks the locker; a read that startTimer waits for comes before it
\* in the storage's _sync.  Whether the bloc hears of that lock, and stops
\* the timer, or only of the erased vault is up to the order of microtasks.
Erased(h) ==
    /\ call[h].op = "erase" /\ CallOwns(h) /\ starting = "no"
    /\ status' = "notInitialized" /\ locker' = "locked" /\ loadState' = "none"
    /\ Ends(h, {"awaitingResume"})
    /\ Stops \/ KeepsTimer
    /\ UNCHANGED <<starting, sheet, setting, lifecycle>>

-----------------------------------------------------------------------------
(* The timeout in the settings *)

OpenSheet ==
    /\ lifecycle = "resumed" /\ status = "unlocked" /\ loadState = "none"
    /\ sheet = "none" /\ setting = NoCall
    /\ \/ sheet' = "password" /\ UNCHANGED <<operation, unmarked>>
       \/ sheet' = "biometric" /\ operation' = "inProgress" /\ unmarked' = FALSE
    /\ UNCHANGED <<status, loadState, locker, service, starting, call, setting, lifecycle, missed>>

\* When the sheet is there, and when the user tries again.
AskBiometrics ==
    /\ sheet = "biometric" /\ setting = NoCall
    /\ setting' = Called("save", TRUE)
    /\ UNCHANGED <<bloc, locker, service, starting, call, sheet, unmarked, lifecycle, missed>>

\* Cancelled, done, or with a password.
CloseSheet ==
    /\ lifecycle = "resumed" /\ sheet # "none" /\ setting = NoCall
    /\ sheet' = "none"
    /\ IF sheet = "biometric"
       THEN operation' = "idle" /\ unmarked' = \E h \in Handlers : call[h].bio
       ELSE UNCHANGED <<operation, unmarked>>
    /\ setting' \in {NoCall, Called("save", FALSE)}
    /\ UNCHANGED <<status, loadState, locker, service, starting, call, lifecycle, missed>>

\* There has to be a vault, and one that the password or key is for.
SettingLoads ==
    /\ setting.op = "save" /\ ~setting.loaded
    /\ \A h \in Handlers : ~call[h].loaded
    /\ status \in {"locked", "unlocked"}
    /\ setting' = [setting EXCEPT !.loaded = TRUE]
    /\ Unlocks
    /\ UNCHANGED <<call, sheet, unmarked, lifecycle>>

\* The vault has the new timeout, the timer service reads it back.
SettingSaved ==
    /\ setting.op = "save" /\ setting.loaded
    /\ setting' = [setting EXCEPT !.op = "retime"]
    /\ UNCHANGED <<bloc, locker, service, starting, call, sheet, unmarked, lifecycle, missed>>

SettingFails ==
    /\ setting.op # "none"
    /\ setting' = NoCall
    /\ UNCHANGED <<bloc, locker, service, starting, call, sheet, unmarked, lifecycle, missed>>

\* Mutant: whether the timer runs is not asked again after the await.
Retimed_Unchecked ==
    /\ setting.op = "retime"
    /\ setting' = NoCall
    /\ Schedules
    /\ UNCHANGED <<bloc, locker, starting, call, sheet, unmarked, lifecycle>>

\* updateLockTimeout of the timer service goes on.
Retimed ==
    /\ setting.op = "retime"
    /\ setting' = NoCall
    /\ Touches
    /\ UNCHANGED <<bloc, locker, starting, call, sheet, unmarked, lifecycle>>

-----------------------------------------------------------------------------

User ==
    \/ LockRequested \/ Activity \/ Leave \/ SetUp
    \/ OpenSheet \/ CloseSheet \/ AskBiometrics
    \/ \E h \in Handlers : Begin(h)

\* What goes on by itself, once it has begun.
Progress ==
    \/ TimerStarts \/ TimerFails
    \/ \E h \in Handlers :
          \/ CallLoads(h) \/ CallSucceeds(h) \/ CallFails(h) \/ PromptFails(h) \/ TailEnds(h)
          \/ LastEntryDeleted(h) \/ Erased(h)
    \/ SettingLoads \/ SettingSaved \/ SettingFails \/ Retimed

Next == User \/ AppResumed \/ Progress \/ Tick \/ TimerFires

Spec == Init /\ [][Next]_vars

\* A biometric operation of the blocs is under way, with the prompts of its platform.
\* The screen that tries out the TPM asks the plugin itself and marks nothing.
Prompting == (\E h \in Handlers : call[h].bio) \/ setting.bio

-----------------------------------------------------------------------------
(* Properties *)

\* Types.
TypeOK ==
    /\ status \in Status
    /\ operation \in {"idle", "inProgress", "awaitingResume"}
    /\ locker \in {"locked", "unlocked"} /\ lifecycle \in {"resumed", "inactive"}
    /\ timer \in {"none", "running", "fired"}
    /\ left \in 0..Timeout /\ (timer # "running" => left = 0)
    /\ starting \in {"no", "unlocking", "initializing"}
    /\ loadState \in {"none", "loading"} /\ call \in [Handlers -> Calls]
    /\ sheet \in {"none", "password", "biometric"}
    /\ setting \in [op : {"none", "save", "retime"}, bio : BOOLEAN, loaded : BOOLEAN]
    /\ missed \in {"no", "dropped", "unread"}
    /\ unmarked \in BOOLEAN

\* What the bloc shows is what the locker is, through locks that overtake calls and
\* calls that unlock again after a lock, but for the time startTimer takes.
StatusAgrees ==
    /\ status = "unlocked" => locker = "unlocked"
    /\ status = "locked" /\ locker = "unlocked" => starting = "unlocking"

\* An unlocked session has its timer running, through touches, changes of the
\* timeout, erasures and locks in between, unless the timer has fired during a
\* biometric operation or the timeout could not be read when the session began.
SessionIsTimed ==
    status = "unlocked" => timer = "running" \/ missed # "no"

\* No timer runs for a locked vault: neither startTimer nor updateLockTimeout, when
\* they go on after reading the vault, overtakes the stopTimer of a lock.
LockedHasNoTimer == status = "locked" => timer = "none"

\* The session is not locked under a biometric operation, by no timer, resume or
\* button, however the state that blocks the lock is set and cleared meanwhile, unless
\* the end of another operation has cleared it.
PromptsAreNotLocked ==
    [][Prompting /\ status = "unlocked" /\ ~unmarked => status' # "locked"]_vars

=============================================================================
