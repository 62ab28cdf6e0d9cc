--------------------------- MODULE ExampleAppProofs ---------------------------
(***************************************************************************)
(* The session of the example application for every timeout: proofs of     *)
(* the invariants of AutoLock, and that no prompt is locked away, in the   *)
(* application whose runner may take the engine down at any step.  And the *)
(* invariants of that runner, whatever the session does in it.             *)
(***************************************************************************)
EXTENDS ExampleApp, SequenceTheorems, TLAPS

\* What startTimer goes on to is what the locker and the bloc were when it began, and
\* nothing else is under way while the vault is set up.
StartIsCurrent ==
    /\ starting = "unlocking" => status = "locked" /\ locker = "unlocked"
    /\ starting = "initializing" =>
          /\ status = "settingInitialEntry" /\ locker = "unlocked"
          /\ \A h \in Handlers : call[h].op \in {"none", "tail"}
    /\ \A h \in Handlers : call[h].op = "init" =>
          /\ status = "settingInitialEntry" /\ ~call[h].bio
          /\ call[h].loaded => locker = "unlocked"
          /\ \A g \in Handlers \ {h} : call[g].op \in {"none", "tail"}

\* Whatever prompts has the bloc's biometric operation in progress, or has lost it to
\* the end of another.
PromptIsMarked ==
    /\ (\E h \in Handlers : call[h].bio) \/ sheet = "biometric" =>
          unmarked \/ operation = "inProgress"
    /\ setting.bio => sheet = "biometric"

SessionInv ==
    /\ SessionTypeOK /\ StartIsCurrent /\ PromptIsMarked
    /\ StatusAgrees /\ SessionIsTimed /\ LockedHasNoTimer

\* What can be asked for is a call that has not loaded anything.
LEMMA OfferedCalls ==
    ASSUME NEW c \in Session!Offered
    PROVE  /\ c \in Session!Calls /\ ~c.loaded
           /\ status = "settingInitialEntry" =>
                 /\ c.op = "init" /\ ~c.bio /\ starting = "no"
                 /\ \A h \in Handlers : call[h].op \in {"none", "tail"}
           /\ status # "settingInitialEntry" =>
                 c.op \in {"unlock", "entry", "erase"} /\ status \in {"locked", "unlocked"}
  <1> USE DEF Session!Calls, Session!Operations
  <1>1. CASE status = "settingInitialEntry"
    <2>1. /\ c = [op |-> "init", bio |-> FALSE, loaded |-> FALSE] /\ starting = "no"
          /\ \A h \in Handlers : call[h].op \in {"none", "tail"}
      BY <1>1 DEF Session!Offered, Session!OfferedAtSetup, Session!Called
    <2> QED
      BY <1>1, <2>1
  <1>2. CASE status = "locked"
    <2>1. c \in [op : {"unlock"}, bio : BOOLEAN, loaded : {FALSE}]
      BY <1>2 DEF Session!Offered, Session!OfferedLocked
    <2> QED
      BY <1>2, <2>1
  <1>3. CASE status = "unlocked" /\ sheet = "none"
    <2>1. \/ c \in [op : {"entry"}, bio : BOOLEAN, loaded : {FALSE}]
          \/ c = [op |-> "erase", bio |-> FALSE, loaded |-> FALSE]
      BY <1>3 DEF Session!Offered, Session!OfferedEntries, Session!OfferedErase,
                  Session!Called
    <2>2. CASE c \in [op : {"entry"}, bio : BOOLEAN, loaded : {FALSE}]
      BY <1>3, <2>2
    <2>3. CASE c = [op |-> "erase", bio |-> FALSE, loaded |-> FALSE]
      BY <1>3, <2>3
    <2> QED
      BY <2>1, <2>2, <2>3
  <1> QED
    BY <1>1, <1>2, <1>3 DEF Session!Offered

\* A handler that is done, or is left with its tail, is none that another waits for.
LEMMA HandlerEnds ==
    ASSUME SessionInv, NEW h \in Handlers, NEW r \in Session!Calls,
           r.op \in {"none", "tail"}, ~r.bio, ~r.loaded,
           call' = [call EXCEPT ![h] = r]
    PROVE  /\ call' \in [Handlers -> Session!Calls]
           /\ \A g \in Handlers : call'[g].op \in {"none", "tail", call[g].op}
           /\ \A g \in Handlers : call'[g].loaded => call[g].loaded
           /\ \A g \in Handlers : call'[g].bio => call[g].bio /\ g # h
           /\ call'[h].op \in {"none", "tail"} /\ \A g \in Handlers \ {h} : call'[g] = call[g]
  BY DEF SessionInv, SessionTypeOK, Session!TypeOK, Session!Calls

\* The handler of a call that ends as Ends says leaves every other prompt marked or
\* known to be unmarked.
LEMMA EndsMarks ==
    ASSUME SessionInv, NEW h \in Handlers, NEW states,
           states \subseteq {"idle", "awaitingResume"}, Session!Ends(h, states)
    PROVE  /\ call' = [call EXCEPT ![h] = Session!NoCall]
           /\ Session!NoCall \in Session!Calls
           /\ Session!NoCall.op = "none" /\ ~Session!NoCall.bio /\ ~Session!NoCall.loaded
           /\ operation' \in {"idle", "inProgress", "awaitingResume"}
           /\ unmarked' \in BOOLEAN
           /\ (\E g \in Handlers : call'[g].bio) \/ sheet = "biometric" =>
                 unmarked' \/ operation' = "inProgress"
  <1>1. /\ call' = [call EXCEPT ![h] = Session!NoCall]
        /\ Session!NoCall \in Session!Calls
        /\ Session!NoCall.op = "none" /\ ~Session!NoCall.bio /\ ~Session!NoCall.loaded
    BY DEF Session!Ends, Session!NoCall, Session!Calls, Session!Operations
  <1>2. /\ call \in [Handlers -> Session!Calls] /\ unmarked \in BOOLEAN
        /\ operation \in {"idle", "inProgress", "awaitingResume"}
    BY DEF SessionInv, SessionTypeOK, Session!TypeOK
  <1>3. \A g \in Handlers : call'[g].bio => call[g].bio /\ g # h
    BY <1>1, <1>2
  <1>4. CASE call[h].bio
    <2>1. operation' \in states /\ unmarked' = Session!Beside(h)
      BY <1>4 DEF Session!Ends
    <2>2. unmarked' \in BOOLEAN
      BY <2>1 DEF Session!Beside
    <2>3. (\E g \in Handlers : call'[g].bio) \/ sheet = "biometric" => unmarked'
      BY <1>3, <2>1 DEF Session!Beside
    <2> QED
      BY <1>1, <2>1, <2>2, <2>3
  <1>5. CASE ~call[h].bio
    <2>1. operation' = operation /\ unmarked' = unmarked
      BY <1>5 DEF Session!Ends
    <2> QED
      BY <1>1, <1>2, <1>3, <2>1 DEF SessionInv, PromptIsMarked
  <1> QED
    BY <1>4, <1>5

\* The user begins an operation.
LEMMA BeginStep ==
    ASSUME SessionInv, NEW h \in Handlers, Session!Begin(h)
    PROVE  SessionInv'
  <1>1. PICK c \in Session!Offered :
           /\ call' = [call EXCEPT ![h] = c]
           /\ operation' = IF c.bio THEN "inProgress" ELSE operation
           /\ unmarked' = (unmarked /\ ~c.bio)
    BY DEF Session!Begin
  <1>2. /\ call[h] = Session!NoCall /\ loadState' = "loading"
        /\ UNCHANGED <<status, locker, timer, left, starting, sheet, setting, lifecycle, missed>>
    BY DEF Session!Begin, Session!service
  <1>3. /\ call \in [Handlers -> Session!Calls] /\ unmarked \in BOOLEAN
        /\ operation \in {"idle", "inProgress", "awaitingResume"}
    BY DEF SessionInv, SessionTypeOK, Session!TypeOK
  <1>4. c \in Session!Calls /\ ~c.loaded
    BY OfferedCalls
  <1>5. /\ call' \in [Handlers -> Session!Calls] /\ call'[h] = c
        /\ \A g \in Handlers \ {h} : call'[g] = call[g]
    BY <1>1, <1>3, <1>4
  <1>6. c.bio \in BOOLEAN /\ (unmarked /\ ~c.bio) \in BOOLEAN
    BY <1>3, <1>4 DEF Session!Calls
  <1>7. SessionTypeOK'
    <2>1. operation' \in {"idle", "inProgress", "awaitingResume"} /\ unmarked' \in BOOLEAN
      BY <1>1, <1>3, <1>6
    <2> QED
      BY <1>2, <1>5, <2>1 DEF SessionInv, SessionTypeOK, Session!TypeOK
  <1>8. StartIsCurrent'
    <2>1. CASE status = "settingInitialEntry"
      <3>1. /\ c.op = "init" /\ ~c.bio /\ starting = "no"
            /\ \A g \in Handlers : call[g].op \in {"none", "tail"}
        BY <2>1, OfferedCalls
      <3> QED
        BY <1>2, <1>4, <1>5, <2>1, <3>1 DEF StartIsCurrent
    <2>2. CASE status # "settingInitialEntry"
      <3>1. c.op \in {"unlock", "entry", "erase"}
        BY <2>2, OfferedCalls
      <3>2. \A g \in Handlers : call'[g].op # "init"
        BY <1>5, <2>2, <3>1 DEF SessionInv, StartIsCurrent
      <3> QED
        BY <1>2, <2>2, <3>2 DEF SessionInv, StartIsCurrent
    <2> QED
      BY <2>1, <2>2
  <1>9. PromptIsMarked'
    <2>1. CASE c.bio
      BY <1>1, <1>2, <2>1 DEF SessionInv, PromptIsMarked
    <2>2. CASE ~c.bio
      <3>1. operation' = operation /\ unmarked' = unmarked
        BY <1>1, <1>3, <2>2
      <3>2. \A g \in Handlers : call'[g].bio => call[g].bio
        BY <1>5, <2>2
      <3> QED
        BY <1>2, <3>1, <3>2 DEF SessionInv, PromptIsMarked
    <2> QED
      BY <2>1, <2>2
  <1>10. StatusAgrees' /\ SessionIsTimed' /\ LockedHasNoTimer'
    BY <1>2
    DEF SessionInv, StatusAgrees, Session!StatusAgrees, SessionIsTimed,
        Session!SessionIsTimed, LockedHasNoTimer, Session!LockedHasNoTimer
  <1> QED
    BY <1>7, <1>8, <1>9, <1>10 DEF SessionInv

\* What the user does.
LEMMA UserStep ==
    ASSUME SessionInv, Session!User
    PROVE  SessionInv'
  <1> USE SessionTimeout
      DEF SessionInv, SessionTypeOK, Session!TypeOK, StartIsCurrent, PromptIsMarked,
          StatusAgrees, Session!StatusAgrees, SessionIsTimed, Session!SessionIsTimed,
          LockedHasNoTimer, Session!LockedHasNoTimer, Session!Status, Session!NoCall,
          Session!TimeoutAssumption, Session!bloc, Session!service, Session!work
  <1>1. CASE Session!LockRequested
    BY <1>1 DEF Session!LockRequested, Session!Locks, Session!MayLock, Session!Stops
  <1>2. CASE Session!Activity
    BY <1>2 DEF Session!Activity, Session!Touches, Session!KeepsTimer, Session!Schedules,
       Session!NoLongerAwaits
  <1>3. CASE Session!Leave
    BY <1>3 DEF Session!Leave
  <1>4. CASE Session!SetUp
    BY <1>4 DEF Session!SetUp
  <1>5. CASE \E h \in Handlers : Session!Begin(h)
    BY <1>5, BeginStep
  <1>6. CASE Session!OpenSheet
    BY <1>6 DEF Session!OpenSheet
  <1>7. CASE Session!CloseSheet
    <2>1. setting' \in {Session!NoCall, Session!Called("save", FALSE)}
      BY <1>7 DEF Session!CloseSheet
    <2>2. /\ setting' \in [op : {"none", "save", "retime"}, bio : BOOLEAN, loaded : BOOLEAN]
          /\ ~setting'.bio
      <3>1. CASE setting' = [op |-> "none", bio |-> FALSE, loaded |-> FALSE]
        BY <3>1
      <3>2. CASE setting' = [op |-> "save", bio |-> FALSE, loaded |-> FALSE]
        BY <3>2
      <3> QED
        BY <2>1, <3>1, <3>2 DEF Session!Called
    <2>3. /\ sheet' = "none"
          /\ UNCHANGED <<status, loadState, locker, timer, left, starting, call, lifecycle, missed>>
      BY <1>7 DEF Session!CloseSheet
    <2>4. /\ operation' \in {"idle", "inProgress", "awaitingResume"}
          /\ unmarked' \in BOOLEAN
          /\ (\E h \in Handlers : call[h].bio) => unmarked' \/ operation' = "inProgress"
      <3>1. CASE sheet = "biometric"
        <4>1. operation' = "idle" /\ unmarked' = \E h \in Handlers : call[h].bio
          BY <1>7, <3>1 DEF Session!CloseSheet
        <4> QED
          BY <4>1
      <3>2. CASE sheet # "biometric"
        <4>1. UNCHANGED <<operation, unmarked>>
          BY <1>7, <3>2 DEF Session!CloseSheet
        <4> QED
          BY <4>1
      <3> QED
        BY <3>1, <3>2
    <2> QED
      BY <2>2, <2>3, <2>4
  <1>8. CASE Session!AskBiometrics
    BY <1>8 DEF Session!AskBiometrics, Session!Called
  <1> QED
    BY <1>1, <1>2, <1>3, <1>4, <1>5, <1>6, <1>7, <1>8 DEF Session!User

\* What a handler of the bloc goes on to do.
LEMMA HandlerStep ==
    ASSUME SessionInv, NEW h \in Handlers,
           \/ Session!CallLoads(h) \/ Session!CallSucceeds(h) \/ Session!CallFails(h)
           \/ Session!PromptFails(h) \/ Session!TailEnds(h) \/ Session!LastEntryDeleted(h)
           \/ Session!Erased(h)
    PROVE  SessionInv'
  <1>0. /\ call \in [Handlers -> Session!Calls] /\ unmarked \in BOOLEAN
        /\ operation \in {"idle", "inProgress", "awaitingResume"}
    BY DEF SessionInv, SessionTypeOK, Session!TypeOK
  <1> DEFINE Rest == <<status, locker, timer, left, sheet, setting, lifecycle, missed>>
  <1>1. CASE Session!CallLoads(h)
    <2>1. /\ call' = [call EXCEPT ![h].loaded = TRUE]
          /\ call[h].op = "init" \/ status \in {"locked", "unlocked"}
          /\ UNCHANGED <<sheet, setting, unmarked, lifecycle>>
      BY <1>1 DEF Session!CallLoads, Session!Unloaded
    <2>2. /\ locker' = "unlocked"
          /\ starting' = IF locker = "locked" /\ status = "locked" THEN "unlocking"
                         ELSE starting
          /\ UNCHANGED <<status, operation, loadState, timer, left, missed>>
      BY <1>1 DEF Session!CallLoads, Session!Unlocks, Session!bloc, Session!service
    <2>3. /\ call' \in [Handlers -> Session!Calls]
          /\ \A g \in Handlers : call'[g].op = call[g].op /\ call'[g].bio = call[g].bio
      BY <1>0, <2>1 DEF Session!Calls
    <2>4. SessionTypeOK'
      BY <2>1, <2>2, <2>3 DEF SessionInv, SessionTypeOK, Session!TypeOK
    <2>5. StartIsCurrent'
      BY <2>2, <2>3 DEF SessionInv, StartIsCurrent
    <2>6. PromptIsMarked'
      BY <2>1, <2>2, <2>3 DEF SessionInv, PromptIsMarked
    <2>7. StatusAgrees' /\ SessionIsTimed' /\ LockedHasNoTimer'
      BY <2>2
      DEF SessionInv, StatusAgrees, Session!StatusAgrees, SessionIsTimed, StartIsCurrent,
          Session!SessionIsTimed, LockedHasNoTimer, Session!LockedHasNoTimer,
          SessionTypeOK, Session!TypeOK
    <2> QED
      BY <2>4, <2>5, <2>6, <2>7 DEF SessionInv
  <1>2. CASE Session!LastEntryDeleted(h)
    <2>1. /\ call[h].op = "entry"
          /\ call' = [call EXCEPT ![h] = [[call[h] EXCEPT !.op = "erase"] EXCEPT !.loaded = FALSE]]
          /\ UNCHANGED <<status, operation, loadState, locker, timer, left, starting, sheet,
                         setting, unmarked, lifecycle, missed>>
      BY <1>0, <1>2 DEF Session!LastEntryDeleted, Session!bloc, Session!service
    <2>2. /\ call' \in [Handlers -> Session!Calls] /\ call'[h].op = "erase"
          /\ \A g \in Handlers : call'[g].bio = call[g].bio
          /\ \A g \in Handlers \ {h} : call'[g] = call[g]
      BY <1>0, <2>1 DEF Session!Calls, Session!Operations
    <2>3. SessionTypeOK'
      BY <2>1, <2>2 DEF SessionInv, SessionTypeOK, Session!TypeOK
    <2>4. StartIsCurrent'
      BY <2>1, <2>2 DEF SessionInv, StartIsCurrent
    <2>5. PromptIsMarked'
      BY <2>1, <2>2 DEF SessionInv, PromptIsMarked
    <2>6. StatusAgrees' /\ SessionIsTimed' /\ LockedHasNoTimer'
      BY <2>1
      DEF SessionInv, StatusAgrees, Session!StatusAgrees, SessionIsTimed,
          Session!SessionIsTimed, LockedHasNoTimer, Session!LockedHasNoTimer
    <2> QED
      BY <2>3, <2>4, <2>5, <2>6 DEF SessionInv
  <1>3. ASSUME NEW r \in Session!Calls, r.op \in {"none", "tail"}, ~r.bio, ~r.loaded,
               call' = [call EXCEPT ![h] = r],
               operation' \in {"idle", "inProgress", "awaitingResume"},
               unmarked' \in BOOLEAN, loadState' \in {"none", "loading"},
               (\E g \in Handlers : call'[g].bio) \/ sheet = "biometric" =>
                   unmarked' \/ operation' = "inProgress",
               UNCHANGED Rest,
               starting' = starting \/ starting' = "initializing",
               starting' # starting => /\ call[h].op = "init" /\ call[h].loaded
        PROVE  SessionInv'
    <2>1. /\ call' \in [Handlers -> Session!Calls]
          /\ \A g \in Handlers : call'[g].op \in {"none", "tail", call[g].op}
          /\ \A g \in Handlers : call'[g].loaded => call[g].loaded
          /\ \A g \in Handlers : call'[g].bio => call[g].bio
          /\ call'[h].op \in {"none", "tail"} /\ \A g \in Handlers \ {h} : call'[g] = call[g]
      BY <1>3, HandlerEnds
    <2>2. SessionTypeOK'
      BY <1>3, <2>1 DEF SessionInv, SessionTypeOK, Session!TypeOK
    <2>3. StartIsCurrent'
      <3>1. CASE starting' = starting
        BY <1>3, <2>1, <3>1 DEF SessionInv, StartIsCurrent
      <3>2. CASE starting' # starting
        <4>1. /\ starting' = "initializing" /\ status = "settingInitialEntry"
              /\ locker = "unlocked"
              /\ \A g \in Handlers : call'[g].op \in {"none", "tail"}
          BY <1>3, <2>1, <3>2 DEF SessionInv, StartIsCurrent
        <4> QED
          BY <1>3, <4>1 DEF StartIsCurrent
      <3> QED
        BY <3>1, <3>2
    <2>4. PromptIsMarked'
      BY <1>3 DEF SessionInv, PromptIsMarked
    <2>5. StatusAgrees' /\ SessionIsTimed' /\ LockedHasNoTimer'
      BY <1>3
      DEF SessionInv, StatusAgrees, Session!StatusAgrees, SessionIsTimed, StartIsCurrent,
          Session!SessionIsTimed, LockedHasNoTimer, Session!LockedHasNoTimer
    <2> QED
      BY <2>2, <2>3, <2>4, <2>5 DEF SessionInv
  <1>4. CASE Session!CallSucceeds(h)
    <2>1. Session!Ends(h, {"idle"}) /\ loadState' \in {"none", "loading"}
      BY <1>4 DEF Session!CallSucceeds, SessionInv, SessionTypeOK, Session!TypeOK
    <2>2. /\ UNCHANGED Rest /\ call[h].loaded
          /\ starting' = IF call[h].op = "init" THEN "initializing" ELSE starting
      BY <1>4 DEF Session!CallSucceeds, Session!service
    <2> QED
      BY <1>3, <2>1, <2>2, EndsMarks
  <1>5. CASE Session!CallFails(h)
    <2>1. Session!Ends(h, {"idle", "awaitingResume"}) /\ loadState' = "none"
      BY <1>5 DEF Session!CallFails
    <2>2. UNCHANGED Rest /\ starting' = starting
      BY <1>5 DEF Session!CallFails, Session!service
    <2> QED
      BY <1>3, <2>1, <2>2, EndsMarks
  <1>6. CASE Session!PromptFails(h)
    <2>1. /\ call' = [call EXCEPT ![h] = Session!Called("tail", FALSE)]
          /\ unmarked' = (unmarked /\ Session!Beside(h)) /\ loadState' = "none"
          /\ UNCHANGED Rest /\ starting' = starting /\ operation' = operation
      BY <1>6 DEF Session!PromptFails, Session!service
    <2>2. /\ Session!Called("tail", FALSE) \in Session!Calls
          /\ Session!Called("tail", FALSE).op = "tail"
          /\ ~Session!Called("tail", FALSE).bio /\ ~Session!Called("tail", FALSE).loaded
      BY DEF Session!Called, Session!Calls, Session!Operations
    <2>3. \A g \in Handlers : call'[g].bio => call[g].bio /\ g # h
      BY <2>1, <2>2, HandlerEnds
    <2>4. (\E g \in Handlers : call'[g].bio) \/ sheet = "biometric" =>
             unmarked' \/ operation' = "inProgress"
      BY <2>1, <2>3 DEF SessionInv, PromptIsMarked, Session!Beside
    <2>5. unmarked' \in BOOLEAN
      BY <2>1
    <2> QED
      BY <1>0, <1>3, <2>1, <2>2, <2>4, <2>5
  <1>7. CASE Session!TailEnds(h)
    <2>1. /\ call' = [call EXCEPT ![h] = Session!NoCall]
          /\ operation' \in {"idle", "awaitingResume"} /\ unmarked' = Session!Beside(h)
          /\ loadState' = "none" /\ UNCHANGED Rest /\ starting' = starting
      BY <1>7 DEF Session!TailEnds, Session!service
    <2>2. /\ Session!NoCall \in Session!Calls
          /\ Session!NoCall.op = "none" /\ ~Session!NoCall.bio /\ ~Session!NoCall.loaded
      BY DEF Session!NoCall, Session!Calls, Session!Operations
    <2>3. \A g \in Handlers : call'[g].bio => call[g].bio /\ g # h
      BY <2>1, <2>2, HandlerEnds
    <2>4. (\E g \in Handlers : call'[g].bio) \/ sheet = "biometric" => unmarked'
      BY <2>1, <2>3 DEF Session!Beside
    <2>5. unmarked' \in BOOLEAN
      BY <2>1 DEF Session!Beside
    <2> QED
      BY <1>3, <2>1, <2>2, <2>4, <2>5
  <1>8. CASE Session!Erased(h)
    <2>1. /\ Session!Ends(h, {"awaitingResume"})
          /\ call[h].op = "erase" /\ starting = "no"
          /\ status' = "notInitialized" /\ locker' = "locked" /\ loadState' = "none"
          /\ UNCHANGED <<starting, sheet, setting, lifecycle>>
      BY <1>8 DEF Session!Erased
    <2>2. \/ timer' = "none" /\ left' = 0 /\ missed' = "no"
          \/ UNCHANGED <<timer, left, missed>>
      BY <1>8 DEF Session!Erased, Session!Stops, Session!KeepsTimer, Session!service
    <2>3. /\ call' = [call EXCEPT ![h] = Session!NoCall]
          /\ Session!NoCall \in Session!Calls
          /\ Session!NoCall.op = "none" /\ ~Session!NoCall.bio /\ ~Session!NoCall.loaded
          /\ operation' \in {"idle", "inProgress", "awaitingResume"}
          /\ unmarked' \in BOOLEAN
          /\ (\E g \in Handlers : call'[g].bio) \/ sheet = "biometric" =>
                 unmarked' \/ operation' = "inProgress"
      BY <2>1, EndsMarks
    <2>4. /\ call' \in [Handlers -> Session!Calls]
          /\ \A g \in Handlers : call'[g].op \in {"none", "tail", call[g].op}
      BY <2>3, HandlerEnds
    <2>5. \A g \in Handlers : call'[g].op # "init"
      BY <2>1, <2>4 DEF SessionInv, StartIsCurrent
    <2>6. SessionTypeOK'
      BY <2>1, <2>2, <2>3, <2>4, SessionTimeout
      DEF SessionInv, SessionTypeOK, Session!TypeOK, Session!Status, Session!TimeoutAssumption
    <2>7. StartIsCurrent' /\ PromptIsMarked'
      BY <2>1, <2>3, <2>5 DEF SessionInv, StartIsCurrent, PromptIsMarked
    <2>8. StatusAgrees' /\ SessionIsTimed' /\ LockedHasNoTimer'
      BY <2>1
      DEF StatusAgrees, Session!StatusAgrees, SessionIsTimed, Session!SessionIsTimed,
          LockedHasNoTimer, Session!LockedHasNoTimer
    <2> QED
      BY <2>6, <2>7, <2>8 DEF SessionInv
  <1> QED
    BY <1>1, <1>2, <1>4, <1>5, <1>6, <1>7, <1>8

\* What goes on by itself.
LEMMA ProgressStep ==
    ASSUME SessionInv, Session!Progress
    PROVE  SessionInv'
  <1> USE SessionTimeout
      DEF SessionInv, SessionTypeOK, Session!TypeOK, StartIsCurrent, PromptIsMarked,
          StatusAgrees, Session!StatusAgrees, SessionIsTimed, Session!SessionIsTimed,
          LockedHasNoTimer, Session!LockedHasNoTimer, Session!Status, Session!NoCall,
          Session!TimeoutAssumption, Session!bloc, Session!service, Session!work
  <1>1. CASE Session!TimerStarts
    BY <1>1 DEF Session!TimerStarts, Session!Schedules
  <1>2. CASE Session!TimerFails
    BY <1>2 DEF Session!TimerFails
  <1>3. CASE \E h \in Handlers :
                \/ Session!CallLoads(h) \/ Session!CallSucceeds(h) \/ Session!CallFails(h)
                \/ Session!PromptFails(h) \/ Session!TailEnds(h)
                \/ Session!LastEntryDeleted(h) \/ Session!Erased(h)
    BY <1>3, HandlerStep
  <1>4. CASE Session!SettingLoads
    <2>1. /\ setting' \in [op : {"none", "save", "retime"}, bio : BOOLEAN, loaded : BOOLEAN]
          /\ setting'.bio = setting.bio /\ status \in {"locked", "unlocked"}
      BY <1>4 DEF Session!SettingLoads
    <2>2. /\ locker' = "unlocked"
          /\ starting' = IF locker = "locked" /\ status = "locked" THEN "unlocking"
                         ELSE starting
          /\ UNCHANGED <<status, operation, loadState, timer, left, call, sheet, unmarked,
                         lifecycle, missed>>
      BY <1>4 DEF Session!SettingLoads, Session!Unlocks
    <2> QED
      BY <2>1, <2>2
  <1>5. CASE Session!SettingSaved
    BY <1>5 DEF Session!SettingSaved
  <1>6. CASE Session!SettingFails
    BY <1>6 DEF Session!SettingFails
  <1>7. CASE Session!Retimed
    BY <1>7 DEF Session!Retimed, Session!Touches, Session!Schedules, Session!KeepsTimer
  <1> QED
    BY <1>1, <1>2, <1>3, <1>4, <1>5, <1>6, <1>7 DEF Session!Progress

\* Time, the timer, and the application coming back.
LEMMA TimeStep ==
    ASSUME SessionInv, Session!AppResumed \/ Session!Tick \/ Session!TimerFires
    PROVE  SessionInv'
  <1> USE SessionTimeout
      DEF SessionInv, SessionTypeOK, Session!TypeOK, StartIsCurrent, PromptIsMarked,
          StatusAgrees, Session!StatusAgrees, SessionIsTimed, Session!SessionIsTimed,
          LockedHasNoTimer, Session!LockedHasNoTimer, Session!Status,
          Session!TimeoutAssumption, Session!bloc, Session!service, Session!work,
          Session!Locks, Session!MayLock, Session!Stops, Session!KeepsTimer
  <1>1. CASE Session!AppResumed
    BY <1>1 DEF Session!AppResumed, Session!ShouldLockOnResume, Session!NoLongerAwaits
  <1>2. CASE Session!Tick
    BY <1>2 DEF Session!Tick
  <1>3. CASE Session!TimerFires
    BY <1>3 DEF Session!TimerFires
  <1> QED
    BY <1>1, <1>2, <1>3

\* The session as it is before the window can be used and after that.
LEMMA EndStep ==
    ASSUME SessionInv, SessionEnds
    PROVE  SessionInv'
  <1>1. /\ Session!NoCall \in Session!Calls
        /\ Session!NoCall.op = "none" /\ ~Session!NoCall.bio /\ ~Session!NoCall.loaded
        /\ Session!NoCall \in [op : {"none", "save", "retime"}, bio : BOOLEAN, loaded : BOOLEAN]
    BY DEF Session!NoCall, Session!Calls, Session!Operations
  <1>2. /\ call' = [h \in Handlers |-> Session!NoCall] /\ setting' = Session!NoCall
        /\ status' \in {"notInitialized", "locked"} /\ locker' = "locked"
        /\ operation' = "idle" /\ loadState' = "none"
        /\ timer' = "none" /\ left' = 0 /\ starting' = "no" /\ sheet' = "none"
        /\ lifecycle' = "resumed" /\ missed' = "no" /\ unmarked' = FALSE
    BY DEF SessionEnds
  <1>3. call' \in [Handlers -> Session!Calls] /\ \A h \in Handlers : call'[h] = Session!NoCall
    BY <1>1, <1>2
  <1>4. unmarked' \in BOOLEAN
    BY <1>2
  <1>5. SessionTypeOK'
    BY <1>1, <1>2, <1>3, <1>4, SessionTimeout
    DEF SessionTypeOK, Session!TypeOK, Session!Status, Session!TimeoutAssumption
  <1>6. StartIsCurrent' /\ PromptIsMarked'
    BY <1>1, <1>2, <1>3 DEF StartIsCurrent, PromptIsMarked
  <1>7. StatusAgrees' /\ SessionIsTimed' /\ LockedHasNoTimer'
    BY <1>2
    DEF StatusAgrees, Session!StatusAgrees, SessionIsTimed, Session!SessionIsTimed,
        LockedHasNoTimer, Session!LockedHasNoTimer
  <1> QED
    BY <1>5, <1>6, <1>7 DEF SessionInv

\* The runner leaves the session alone until the window or the engine goes.
LEMMA SessionKept ==
    ASSUME SessionInv, UNCHANGED session
    PROVE  SessionInv'
  BY DEF session, SessionInv, SessionTypeOK, Session!TypeOK, StartIsCurrent,
         PromptIsMarked, StatusAgrees, Session!StatusAgrees, SessionIsTimed,
         Session!SessionIsTimed, LockedHasNoTimer, Session!LockedHasNoTimer,
         Session!Status

\* Any step of the application.
LEMMA AppStep ==
    ASSUME SessionInv, [AppNext]_allVars
    PROVE  SessionInv'
  <1>1. CASE RunnerStep
    <2>1. CASE SessionEnds
      BY <2>1, EndStep
    <2>2. CASE UNCHANGED session
      BY <2>2, SessionKept
    <2> QED
      BY <1>1, <2>1, <2>2 DEF RunnerStep
  <1>2. CASE Orphan \/ UNCHANGED allVars
    BY <1>2, SessionKept DEF Orphan, allVars
  <1>3. CASE SessionStep(Session!User)
    BY <1>3, UserStep DEF SessionStep
  <1>4. CASE SessionStep(Session!Progress)
    BY <1>4, ProgressStep DEF SessionStep
  <1>5. CASE \/ SessionStep(Session!AppResumed) \/ SessionStep(Session!Tick)
             \/ SessionStep(Session!TimerFires)
    BY <1>5, TimeStep DEF SessionStep
  <1> QED
    BY <1>1, <1>2, <1>3, <1>4, <1>5 DEF AppNext

\* The application begins with the session locked or not set up.
LEMMA AppStart ==
    ASSUME AppInit
    PROVE  SessionInv
  <1>1. /\ Session!NoCall \in Session!Calls
        /\ Session!NoCall.op = "none" /\ ~Session!NoCall.bio /\ ~Session!NoCall.loaded
        /\ Session!NoCall \in [op : {"none", "save", "retime"}, bio : BOOLEAN, loaded : BOOLEAN]
    BY DEF Session!NoCall, Session!Calls, Session!Operations
  <1>2. /\ call = [h \in Handlers |-> Session!NoCall] /\ setting = Session!NoCall
        /\ status \in {"notInitialized", "locked"} /\ locker = "locked"
        /\ operation = "idle" /\ loadState = "none"
        /\ timer = "none" /\ left = 0 /\ starting = "no" /\ sheet = "none"
        /\ lifecycle = "resumed" /\ missed = "no" /\ unmarked = FALSE
    BY DEF AppInit, Session!Init
  <1>3. call \in [Handlers -> Session!Calls] /\ \A h \in Handlers : call[h] = Session!NoCall
    BY <1>1, <1>2
  <1>4. unmarked \in BOOLEAN
    BY <1>2
  <1>5. SessionTypeOK
    BY <1>1, <1>2, <1>3, <1>4, SessionTimeout
    DEF SessionTypeOK, Session!TypeOK, Session!Status, Session!TimeoutAssumption
  <1>6. StartIsCurrent /\ PromptIsMarked
    BY <1>1, <1>2, <1>3 DEF StartIsCurrent, PromptIsMarked
  <1>7. StatusAgrees /\ SessionIsTimed /\ LockedHasNoTimer
    BY <1>2
    DEF StatusAgrees, Session!StatusAgrees, SessionIsTimed, Session!SessionIsTimed,
        LockedHasNoTimer, Session!LockedHasNoTimer
  <1> QED
    BY <1>5, <1>6, <1>7 DEF SessionInv

\* The inductive invariant holds of the application.
LEMMA Inductive == AppSpec => []SessionInv
  BY AppStart, AppStep, PTL DEF AppSpec

-----------------------------------------------------------------------------
(* Theorems *)

\* Type correctness of the session, and that a timer that is not running has no time
\* left, for every timeout and under every close of the window.
THEOREM SessionTypes == AppSpec => []SessionTypeOK
  BY Inductive, PTL DEF SessionInv

\* The bloc shows what the locker is, whatever overtakes what.
THEOREM BlocShowsLocker == AppSpec => []StatusAgrees
  BY Inductive, PTL DEF SessionInv

\* An unlocked session has a timer running or the reason is known.
THEOREM UnlockedIsTimed == AppSpec => []SessionIsTimed
  BY Inductive, PTL DEF SessionInv

\* No timer outlives its session.
THEOREM NoTimerWhenLocked == AppSpec => []LockedHasNoTimer
  BY Inductive, PTL DEF SessionInv

\* No timer, resume or button locks the session under a prompt.
THEOREM PromptsHoldTheLock == AppSpec => PromptsAreNotLocked
  <1>1. ASSUME SessionInv, [AppNext]_allVars, Session!Prompting, status = "unlocked",
               ~unmarked
        PROVE  status' # "locked"
    <2>1. operation = "inProgress"
      BY <1>1 DEF SessionInv, PromptIsMarked, Session!Prompting
    <2>2. CASE RunnerStep
      BY <1>1, <2>2 DEF RunnerStep, SessionEnds, session
    <2>3. CASE Orphan \/ UNCHANGED allVars
      BY <1>1, <2>3 DEF Orphan, session, allVars
    <2>4. CASE SessionStep(Session!User)
      BY <1>1, <2>1, <2>4
      DEF SessionStep, Session!User, Session!LockRequested, Session!MayLock,
          Session!Activity, Session!Leave, Session!SetUp, Session!Begin,
          Session!OpenSheet, Session!CloseSheet, Session!AskBiometrics, Session!bloc
    <2>5. CASE SessionStep(Session!Progress)
      BY <1>1, <2>5
      DEF SessionStep, Session!Progress, Session!TimerStarts, Session!TimerFails,
          Session!CallLoads, Session!CallSucceeds, Session!CallFails, Session!PromptFails,
          Session!TailEnds, Session!LastEntryDeleted, Session!Erased, Session!SettingLoads,
          Session!SettingSaved, Session!SettingFails, Session!Retimed, Session!Unlocks,
          Session!bloc
    <2>6. CASE \/ SessionStep(Session!AppResumed) \/ SessionStep(Session!Tick)
               \/ SessionStep(Session!TimerFires)
      BY <1>1, <2>1, <2>6
      DEF SessionStep, Session!AppResumed, Session!Tick, Session!TimerFires,
          Session!MayLock, Session!KeepsTimer, Session!bloc
    <2> QED
      BY <1>1, <2>2, <2>3, <2>4, <2>5, <2>6 DEF AppNext
  <1>2. SessionInv /\ [AppNext]_allVars =>
           [Session!Prompting /\ status = "unlocked" /\ ~unmarked => status' # "locked"]_allVars
    BY <1>1
  <1> QED
    BY <1>2, Inductive, PTL DEF AppSpec, PromptsAreNotLocked

-----------------------------------------------------------------------------
(* The runner of the application: the calls that destroy the window *)

\* A call on top of the ones that it returns to.
On(first, rest) == <<first>> \o rest

\* Where DestroyWindow returns to: WM_CLOSE, or Destroy that the destructor called.
Callers == {<<>>, On("clear", <<>>)}

\* Nothing is being destroyed: where wWinMain is tells what there is.
AtRest ==
    /\ stack = <<>> /\ window # "dying"
    /\ at \notin {"destructor", "exited"} => (handle <=> window \in {"live", "aborted"})
    /\ window = "aborted" => at \in {"return", "destructor", "exited"}
    /\ at = "start" => count = 0 /\ window = "none" /\ result = "none"
    /\ at \notin {"start", "destructor", "exited"} => count = 1
    /\ at \in {"controller", "content", "callback", "redraw"} => window = "live"
    /\ at \in {"content", "callback", "redraw"} => controller = "running"
    /\ at \in {"callback", "redraw"} => child = "live"
    /\ at = "loop" =>
          /\ quitOnClose
          /\ window = "live" => controller = "running" /\ child = "live"
          /\ window = "none" => quit
    /\ at \in {"destructor", "exited"} =>
          /\ count = 0 /\ window \in {"none", "aborted"} /\ ~handle
          /\ controller = "none"
          /\ ~classKnown /\ ~registered

\* What a caller of DestroyWindow leaves for when it returns.
CalledFrom(rest) ==
    \/ rest = <<>> /\ at = "loop" /\ count = 1 /\ quitOnClose
    \/ rest = On("clear", <<>>) /\ at = "destructor" /\ count = 0 /\ controller = "none"

\* DestroyWindow under way: the messages it sends, and what they have done.
InDestroyWindow(rest) ==
    \/ /\ stack = On("DestroyWindow", rest)
       /\ window = "live" \/ (window = "aborted" /\ at = "destructor")
    \/ stack = On("WM_DESTROY", On("WM_NCDESTROY", rest)) /\ window = "dying"
    \/ /\ window = "dying" /\ ~handle
       /\ \/ stack = On("Destroy", On("quit", On("WM_NCDESTROY", rest)))
          \/ stack = On("unregister", On("quit", On("WM_NCDESTROY", rest)))
          \/ stack = On("quit", On("WM_NCDESTROY", rest))
          \/ stack = On("WM_NCDESTROY", rest) /\ (at = "loop" => quit)

\* The destructor before it destroys the window and after.
InDestructor ==
    /\ at = "destructor" /\ count = 0 /\ controller = "none" /\ window # "dying"
    /\ \/ /\ stack = On("Destroy", <<>>)
          /\ handle <=> window \in {"live", "aborted"}
       \/ stack = On("clear", <<>>) /\ window \in {"none", "aborted"}
       \/ stack = On("unregister", <<>>) /\ window \in {"none", "aborted"} /\ ~handle

\* The inductive invariant of the runner.
RunnerInv ==
    /\ TypeOK
    /\ result = "EXIT_SUCCESS" => ~com
    /\ prompt = "orphaned" => quit
    /\ \/ AtRest
       \/ InDestructor
       \/ \E rest \in Callers : CalledFrom(rest) /\ InDestroyWindow(rest)

\* A call is what is on top, and what is below it is what it returns to.
LEMMA OnTop ==
    ASSUME NEW first \in Call, NEW rest \in Seq(Call)
    PROVE  /\ On(first, rest) \in Seq(Call) /\ On(first, rest) # <<>>
           /\ Head(On(first, rest)) = first /\ Tail(On(first, rest)) = rest
  BY DEF On

\* The calls below the ones that a call is replaced by.
LEMMA Replaced ==
    ASSUME NEW rest \in Seq(Call), NEW first \in Call, NEW second \in Call
    PROVE  /\ <<>> \o rest = rest
           /\ <<first>> \o rest = On(first, rest)
           /\ <<first, second>> \o rest = On(first, On(second, rest))
  <1>1. <<>> \o rest = rest
    OBVIOUS
  <1>2. <<first, second>> \o rest = <<first>> \o (<<second>> \o rest)
    <2>1. <<first>> \in Seq(Call) /\ <<second>> \in Seq(Call)
      OBVIOUS
    <2>2. <<first, second>> = <<first>> \o <<second>>
      <3> DEFINE both == <<first>> \o <<second>>
      <3>1. both \in Seq(Call) /\ Len(both) = 2
        BY <2>1
      <3>2. both[1] = first /\ both[2] = second
        BY <2>1
      <3>3. <<first, second>> \in Seq(Call) /\ Len(<<first, second>>) = 2
        OBVIOUS
      <3>4. \A i \in 1 .. 2 : both[i] = <<first, second>>[i]
        BY <3>2
      <3> HIDE DEF both
      <3>5. both = <<first, second>>
        BY <3>1, <3>3, <3>4, SeqEqual
      <3> QED
        BY <3>5 DEF both
    <2> QED
      BY <2>1, <2>2, ConcatAssociative
  <1> QED
    BY <1>1, <1>2 DEF On

\* What may be below a call is a stack of calls.
LEMMA CallersType == Callers \subseteq Seq(Call)
  <1>1. "clear" \in Call /\ <<>> \in Seq(Call)
    BY DEF Call
  <1> QED
    BY <1>1, OnTop DEF Callers

\* The calls under way, one by one: what is on top tells which they are.
LEMMA UnderWay ==
    ASSUME RunnerInv, stack # <<>>
    PROVE  \/ InDestructor
           \/ \E rest \in Callers : CalledFrom(rest) /\ InDestroyWindow(rest)
  BY DEF RunnerInv, AtRest

\* wWinMain acts only when nothing is being destroyed.
LEMMA NothingUnderWay ==
    ASSUME RunnerInv, stack = <<>>
    PROVE  AtRest
  <1>1. /\ <<>> \in Seq(Call)
        /\ \A c \in Call : \A rest \in Seq(Call) :
              On(c, rest) # <<>> /\ On(c, rest) \in Seq(Call)
    BY OnTop
  <1>2. ~InDestructor
    BY <1>1 DEF InDestructor, Call
  <1>3. ASSUME NEW rest \in Callers PROVE ~InDestroyWindow(rest)
    <2>1. rest \in Seq(Call)
      BY CallersType
    <2>2. {"DestroyWindow", "WM_DESTROY", "WM_NCDESTROY", "Destroy", "unregister", "quit"}
             \subseteq Call
      BY DEF Call
    <2>3. /\ On("WM_NCDESTROY", rest) \in Seq(Call)
          /\ On("quit", On("WM_NCDESTROY", rest)) \in Seq(Call)
      BY <1>1, <2>1, <2>2
    <2> QED
      BY <1>1, <2>1, <2>2, <2>3 DEF InDestroyWindow
  <1> QED
    BY <1>2, <1>3 DEF RunnerInv

\* The process before it has done anything.
LEMMA RunnerStart == Init => RunnerInv
  <1> SUFFICES ASSUME Init PROVE RunnerInv
    OBVIOUS
  <1>1. TypeOK
    <2>1. /\ com \in BOOLEAN /\ classKnown \in BOOLEAN /\ handle \in BOOLEAN
          /\ quitOnClose \in BOOLEAN /\ registered \in BOOLEAN
          /\ shown \in BOOLEAN /\ quit \in BOOLEAN
      BY Zenon DEF Init
    <2> QED
      BY <2>1 DEF Init, TypeOK, Place, NoFrame, Frame
  <1>2. AtRest
    BY DEF Init, AtRest
  <1> QED
    BY <1>1, <1>2 DEF Init, RunnerInv

\* wWinMain, Create and the destructor.
LEMMA MainStep ==
    ASSUME RunnerInv, Main
    PROVE  RunnerInv'
  <1>0. stack = <<>> /\ AtRest
    BY NothingUnderWay
    DEF Main, Reaches, Start, CreateController, AddContent, SetNextFrameCallback,
        ForceRedraw, LeaveLoop, CoUninitialize, Destructor, Exit
  <1> USE DEF RunnerInv, TypeOK, Reaches, Place, Frame, NoFrame
  <1>1. CASE Start
    <2>1. TypeOK'
      <3>1. com' \in BOOLEAN /\ handle' \in BOOLEAN /\ registered' \in BOOLEAN
        BY <1>1, Zenon DEF Start, GetWindowClass
      <3> QED
        BY <1>0, <1>1, <3>1 DEF Start, AtRest, GetWindowClass, Fails, engine
    <2>2. AtRest'
      BY <1>0, <1>1 DEF Start, AtRest, GetWindowClass, Fails, engine
    <2> QED
      BY <1>0, <1>1, <2>1, <2>2 DEF Start, AtRest, GetWindowClass, Fails, engine
  <1>2. CASE CreateController
    <2>1. TypeOK'
      <3>1. frame' \in Frame
        BY <1>2 DEF CreateController
      <3> QED
        BY <1>0, <1>2, <3>1 DEF CreateController, AtRest, Fails, os, win32
    <2>2. AtRest'
      BY <1>0, <1>2 DEF CreateController, AtRest, Fails, os, win32
    <2> QED
      BY <1>0, <1>2, <2>1, <2>2 DEF CreateController, AtRest, Fails, os, win32
  <1>3. CASE AddContent
    BY <1>0, <1>3 DEF AddContent, AtRest, os, engine
  <1>4. CASE SetNextFrameCallback
    BY <1>0, <1>4 DEF SetNextFrameCallback, AtRest, os, win32
  <1>5. CASE ForceRedraw
    BY <1>0, <1>5 DEF ForceRedraw, AtRest, SetQuitOnClose, os
  <1>6. CASE LeaveLoop
    BY <1>0, <1>6 DEF LeaveLoop, AtRest, os, win32, engine
  <1>7. CASE CoUninitialize
    <2>1. TypeOK'
      <3>1. com' \in BOOLEAN
        BY <1>7, Zenon DEF CoUninitialize
      <3> QED
        BY <1>0, <1>7, <3>1 DEF CoUninitialize, AtRest, os, win32, engine
    <2>2. AtRest'
      BY <1>0, <1>7 DEF CoUninitialize, AtRest, os, win32, engine
    <2> QED
      BY <1>0, <1>7, <2>1, <2>2 DEF CoUninitialize, AtRest, os, win32, engine
  <1>8. CASE Destructor
    <2>1. stack' = On("Destroy", <<>>) /\ stack' \in Seq(Call)
      <3>1. "Destroy" \in Call /\ <<>> \in Seq(Call) /\ stack' = <<"Destroy">>
        BY <1>8 DEF Destructor, Call
      <3>2. <<"Destroy">> = On("Destroy", <<>>)
        BY DEF On
      <3> QED
        BY <3>1, <3>2, OnTop
    <2>2. InDestructor'
      BY <1>0, <1>8, <2>1 DEF Destructor, AtRest, InDestructor, NoEngine, os
    <2>3. TypeOK'
      BY <1>0, <1>8, <2>1 DEF Destructor, AtRest, NoEngine, Gone, os
    <2> QED
      BY <1>8, <2>2, <2>3 DEF Destructor, os
  <1>9. CASE Exit
    BY <1>0, <1>9 DEF Exit, AtRest, os, win32, engine
  <1> QED
    BY <1>1, <1>2, <1>3, <1>4, <1>5, <1>6, <1>7, <1>8, <1>9 DEF Main

\* Every stack of the calls that destroy the window is a stack of calls.
LEMMA StacksAreCalls ==
    ASSUME NEW rest \in Callers
    PROVE  /\ rest \in Seq(Call)
           /\ On("WM_NCDESTROY", rest) \in Seq(Call)
           /\ On("quit", On("WM_NCDESTROY", rest)) \in Seq(Call)
           /\ On("clear", <<>>) \in Seq(Call) /\ <<>> \in Seq(Call)
           /\ {"Destroy", "DestroyWindow", "WM_DESTROY", "WM_NCDESTROY", "quit",
               "clear", "unregister"} \subseteq Call
  <1>1. {"Destroy", "DestroyWindow", "WM_DESTROY", "WM_NCDESTROY", "quit", "clear",
         "unregister"} \subseteq Call
    BY DEF Call
  <1>2. rest \in Seq(Call) /\ <<>> \in Seq(Call)
    BY CallersType
  <1>3. On("WM_NCDESTROY", rest) \in Seq(Call)
    BY <1>1, <1>2, OnTop
  <1> QED
    BY <1>1, <1>2, <1>3, OnTop

\* Inside the DestroyWindow that rest called: where the call on top returns to, and
\* what has been done before it.
DestroyWindowAt(c, rest) ==
    \/ /\ c = "DestroyWindow" /\ Tail(stack) = rest
       /\ window = "live" \/ (window = "aborted" /\ at = "destructor")
    \/ c = "WM_DESTROY" /\ Tail(stack) = On("WM_NCDESTROY", rest) /\ window = "dying"
    \/ /\ window = "dying" /\ ~handle
       /\ \/ /\ c \in {"Destroy", "unregister"}
             /\ Tail(stack) = On("quit", On("WM_NCDESTROY", rest))
          \/ c = "quit" /\ Tail(stack) = On("WM_NCDESTROY", rest)
          \/ c = "WM_NCDESTROY" /\ Tail(stack) = rest /\ (at = "loop" => quit)

\* The same for the calls of the destructor itself.
DestructorAt(c) ==
    /\ Tail(stack) = <<>>
    /\ \/ c = "Destroy" /\ (handle <=> window \in {"live", "aborted"})
       \/ c = "clear" /\ window \in {"none", "aborted"}
       \/ c = "unregister" /\ window \in {"none", "aborted"} /\ ~handle

\* Who is on top of the stack, and what is below.
LEMMA TopOfStack ==
    ASSUME RunnerInv, NEW c \in Call, Calls(c)
    PROVE  \/ InDestructor /\ DestructorAt(c)
           \/ \E rest \in Callers : CalledFrom(rest) /\ DestroyWindowAt(c, rest)
  <1>0. \A d \in Call : \A rest \in Seq(Call) :
           Head(On(d, rest)) = d /\ Tail(On(d, rest)) = rest
    BY OnTop
  <1>1. stack # <<>> /\ Head(stack) = c
    BY DEF Calls
  <1>2. CASE InDestructor
    <2>1. \A d \in Call : stack = On(d, <<>>) => d = c /\ Tail(stack) = <<>>
      <3>1. <<>> \in Seq(Call)
        OBVIOUS
      <3> QED
        BY <1>0, <1>1, <3>1
    <2> QED
      BY <1>2, <2>1 DEF InDestructor, DestructorAt, Call
  <1>3. ASSUME NEW rest \in Callers, CalledFrom(rest), InDestroyWindow(rest)
        PROVE  DestroyWindowAt(c, rest)
    <2>1. \A d \in Call : \A below \in Seq(Call) :
             stack = On(d, below) => c = d /\ Tail(stack) = below
      BY <1>0, <1>1
    <2>2. CASE /\ stack = On("DestroyWindow", rest)
               /\ window = "live" \/ (window = "aborted" /\ at = "destructor")
      BY <2>1, <2>2, StacksAreCalls DEF DestroyWindowAt
    <2>3. CASE stack = On("WM_DESTROY", On("WM_NCDESTROY", rest)) /\ window = "dying"
      BY <2>1, <2>3, StacksAreCalls DEF DestroyWindowAt
    <2>4. CASE /\ stack = On("Destroy", On("quit", On("WM_NCDESTROY", rest)))
               /\ window = "dying" /\ ~handle
      BY <2>1, <2>4, StacksAreCalls DEF DestroyWindowAt
    <2>5. CASE /\ stack = On("unregister", On("quit", On("WM_NCDESTROY", rest)))
               /\ window = "dying" /\ ~handle
      BY <2>1, <2>5, StacksAreCalls DEF DestroyWindowAt
    <2>6. CASE /\ stack = On("quit", On("WM_NCDESTROY", rest))
               /\ window = "dying" /\ ~handle
      BY <2>1, <2>6, StacksAreCalls DEF DestroyWindowAt
    <2>7. CASE /\ stack = On("WM_NCDESTROY", rest)
               /\ window = "dying" /\ ~handle /\ (at = "loop" => quit)
      BY <2>1, <2>7, StacksAreCalls DEF DestroyWindowAt
    <2> QED
      BY <1>3, <2>2, <2>3, <2>4, <2>5, <2>6, <2>7 DEF InDestroyWindow
  <1> QED
    BY <1>1, <1>2, <1>3, UnderWay

\* What a call is replaced by, when it does not return at once.
LEMMA Replacement ==
    ASSUME NEW below \in Seq(Call), Tail(stack) = below, NEW first \in Call,
           NEW second \in Call
    PROVE  /\ Becomes(<<>>) => stack' = below
           /\ Becomes(<<first>>) => stack' = On(first, below) /\ stack' \in Seq(Call)
           /\ Becomes(<<first, second>>) =>
                 stack' = On(first, On(second, below)) /\ stack' \in Seq(Call)
  <1>1. On(second, below) \in Seq(Call)
    BY OnTop
  <1>2. On(first, below) \in Seq(Call) /\ On(first, On(second, below)) \in Seq(Call)
    BY <1>1, OnTop
  <1> QED
    BY <1>2, Replaced DEF Becomes

\* Destroy, called by the destructor or by the handler of WM_DESTROY.
LEMMA DestroyStep ==
    ASSUME RunnerInv, Destroy
    PROVE  RunnerInv'
  <1>0. Calls("Destroy") /\ "Destroy" \in Call
    BY DEF Destroy, Call
  <1>1. /\ controller' = "none" /\ frame' = NoFrame /\ child' = Gone(child)
        /\ Becomes(IF handle THEN <<"DestroyWindow", "clear">> ELSE <<"unregister">>)
        /\ UNCHANGED <<at, result, com, window, classKnown, handle, quitOnClose, count,
                       registered, shown, quit, prompt>>
    BY DEF Destroy, NoEngine, process, os
  <1>2. stack' \in Seq(Call) => TypeOK'
    BY <1>1 DEF RunnerInv, TypeOK, NoFrame, Frame, Gone
  <1>3. CASE InDestructor /\ DestructorAt("Destroy")
    <2>1. /\ handle => stack' = On("DestroyWindow", On("clear", <<>>))
          /\ ~handle => stack' = On("unregister", <<>>)
          /\ stack' \in Seq(Call)
      <3>1. Tail(stack) = <<>> /\ <<>> \in Seq(Call)
        BY <1>3 DEF DestructorAt
      <3>2. {"DestroyWindow", "clear", "unregister"} \subseteq Call
        BY DEF Call
      <3> QED
        BY <1>1, <3>1, <3>2, Replacement
    <2>2. handle <=> window \in {"live", "aborted"}
      BY <1>3 DEF DestructorAt
    <2>3. CASE handle
      <3>1. CalledFrom(On("clear", <<>>))'
        BY <1>1, <1>3 DEF CalledFrom, InDestructor
      <3>2. InDestroyWindow(On("clear", <<>>))'
        BY <1>1, <1>3, <2>1, <2>2, <2>3 DEF InDestroyWindow, InDestructor
      <3> QED
        BY <1>1, <1>2, <2>1, <3>1, <3>2 DEF RunnerInv, Callers
    <2>4. CASE ~handle
      <3>1. InDestructor'
        BY <1>1, <1>3, <2>1, <2>2, <2>4 DEF InDestructor, RunnerInv, TypeOK
      <3> QED
        BY <1>1, <1>2, <2>1, <3>1 DEF RunnerInv
    <2> QED
      BY <2>3, <2>4
  <1>4. ASSUME NEW rest \in Callers, CalledFrom(rest), DestroyWindowAt("Destroy", rest)
        PROVE  RunnerInv'
    <2>1. window = "dying" /\ ~handle
      BY <1>4 DEF DestroyWindowAt
    <2>2. /\ stack' = On("unregister", On("quit", On("WM_NCDESTROY", rest)))
          /\ stack' \in Seq(Call)
      <3>1. Tail(stack) = On("quit", On("WM_NCDESTROY", rest))
        BY <1>4 DEF DestroyWindowAt
      <3> QED
        BY <1>1, <2>1, <3>1, Replacement, StacksAreCalls
    <2>3. CalledFrom(rest)'
      BY <1>1, <1>4 DEF CalledFrom
    <2>4. InDestroyWindow(rest)'
      BY <1>1, <2>1, <2>2 DEF InDestroyWindow
    <2> QED
      BY <1>1, <1>2, <2>2, <2>3, <2>4 DEF RunnerInv
  <1> QED
    BY <1>0, <1>3, <1>4, TopOfStack

\* The messages of DestroyWindow and what their handlers do.
LEMMA MessageStep ==
    ASSUME RunnerInv, DestroyWindow \/ OnWmDestroy \/ PostQuit \/ OnWmNcDestroy
    PROVE  RunnerInv'
  <1>0. {"DestroyWindow", "WM_DESTROY", "WM_NCDESTROY", "Destroy", "quit"} \subseteq Call
    BY DEF Call
  <1>1. CASE DestroyWindow
    <2>1. PICK rest \in Callers : CalledFrom(rest) /\ DestroyWindowAt("DestroyWindow", rest)
      BY <1>0, <1>1, TopOfStack DEF DestroyWindow, DestructorAt
    <2>2. Tail(stack) = rest
      BY <2>1 DEF DestroyWindowAt
    <2>3. /\ stack' \in Seq(Call)
          /\ IF window = "aborted" THEN stack' = rest
             ELSE stack' = On("WM_DESTROY", On("WM_NCDESTROY", rest))
      BY <1>0, <1>1, <2>2, Replacement, StacksAreCalls DEF DestroyWindow
    <2>4. ASSUME window = "aborted" PROVE InDestructor'
      <3>1. at = "destructor" /\ rest = On("clear", <<>>)
        BY <2>1, <2>4 DEF DestroyWindowAt, CalledFrom
      <3> QED
        BY <1>1, <2>1, <2>3, <2>4, <3>1
        DEF DestroyWindow, CalledFrom, InDestructor, process, win32, engine
    <2>5. ASSUME window # "aborted"
          PROVE  CalledFrom(rest)' /\ InDestroyWindow(rest)'
      BY <1>1, <2>1, <2>3, <2>5
      DEF DestroyWindow, CalledFrom, InDestroyWindow, process, win32, engine
    <2>6. TypeOK'
      BY <1>1, <2>3 DEF DestroyWindow, RunnerInv, TypeOK, process, win32, engine
    <2> QED
      BY <1>1, <2>4, <2>5, <2>6 DEF DestroyWindow, RunnerInv, process
  <1>2. CASE OnWmDestroy
    <2>1. PICK rest \in Callers : CalledFrom(rest) /\ DestroyWindowAt("WM_DESTROY", rest)
      BY <1>0, <1>2, TopOfStack DEF OnWmDestroy, DestructorAt
    <2>2. Tail(stack) = On("WM_NCDESTROY", rest) /\ window = "dying"
      BY <2>1 DEF DestroyWindowAt
    <2>3. /\ stack' = On("Destroy", On("quit", On("WM_NCDESTROY", rest)))
          /\ stack' \in Seq(Call)
      BY <1>0, <1>2, <2>2, Replacement, StacksAreCalls DEF OnWmDestroy
    <2>4. CalledFrom(rest)' /\ InDestroyWindow(rest)'
      BY <1>2, <2>1, <2>2, <2>3
      DEF OnWmDestroy, CalledFrom, InDestroyWindow, process, os, engine
    <2>5. TypeOK'
      <3>1. handle' \in BOOLEAN
        BY <1>2, Zenon DEF OnWmDestroy
      <3> QED
        BY <1>2, <2>3, <3>1 DEF OnWmDestroy, RunnerInv, TypeOK, process, os, engine
    <2> QED
      BY <1>2, <2>4, <2>5 DEF OnWmDestroy, RunnerInv, process
  <1>3. CASE PostQuit
    <2>1. PICK rest \in Callers : CalledFrom(rest) /\ DestroyWindowAt("quit", rest)
      BY <1>0, <1>3, TopOfStack DEF PostQuit, DestructorAt
    <2>2. Tail(stack) = On("WM_NCDESTROY", rest) /\ window = "dying" /\ ~handle
      BY <2>1 DEF DestroyWindowAt
    <2>3. stack' = On("WM_NCDESTROY", rest) /\ stack' \in Seq(Call)
      BY <1>0, <1>3, <2>2, Replacement, StacksAreCalls DEF PostQuit
    <2>4. /\ quit' = (quit \/ quitOnClose)
          /\ UNCHANGED <<at, result, com, window, classKnown, handle, child, quitOnClose,
                         count, registered, controller, frame, shown, prompt>>
      BY <1>3 DEF PostQuit, process, os, win32, engine
    <2>5. CalledFrom(rest)' /\ InDestroyWindow(rest)'
      BY <2>1, <2>2, <2>3, <2>4 DEF CalledFrom, InDestroyWindow
    <2>6. quit' \in BOOLEAN
      BY <2>4 DEF RunnerInv, TypeOK
    <2>7. TypeOK'
      BY <2>3, <2>4, <2>6 DEF RunnerInv, TypeOK
    <2> QED
      BY <2>4, <2>5, <2>7 DEF RunnerInv
  <1>4. CASE OnWmNcDestroy
    <2>1. PICK rest \in Callers : CalledFrom(rest) /\ DestroyWindowAt("WM_NCDESTROY", rest)
      BY <1>0, <1>4, TopOfStack DEF OnWmNcDestroy, DestructorAt
    <2>2. Tail(stack) = rest /\ ~handle /\ (at = "loop" => quit)
      BY <2>1 DEF DestroyWindowAt
    <2>3. stack' = rest /\ stack' \in Seq(Call)
      BY <1>0, <1>4, <2>2, Replacement, StacksAreCalls DEF OnWmNcDestroy
    <2>4. /\ window' = "none" /\ child' = Gone(child)
          /\ UNCHANGED <<at, result, com, classKnown, handle, quitOnClose, count,
                         registered, controller, frame, shown, quit, prompt>>
      BY <1>4 DEF OnWmNcDestroy, process, engine
    <2>5. ASSUME rest = <<>>, at = "loop", count = 1, quitOnClose PROVE AtRest'
      BY <2>2, <2>3, <2>4, <2>5 DEF AtRest
    <2>6. ASSUME rest = On("clear", <<>>), at = "destructor", count = 0,
                 controller = "none"
          PROVE  InDestructor'
      BY <2>3, <2>4, <2>6 DEF InDestructor
    <2>7. AtRest' \/ InDestructor'
      BY <2>1, <2>5, <2>6 DEF CalledFrom
    <2>8. TypeOK'
      BY <2>3, <2>4 DEF RunnerInv, TypeOK, Gone
    <2> QED
      BY <2>4, <2>7, <2>8 DEF RunnerInv
  <1> QED
    BY <1>1, <1>2, <1>3, <1>4

\* What the destructor does when DestroyWindow has returned, and Destroy at its end.
LEMMA ReturnStep ==
    ASSUME RunnerInv, ClearHandle \/ Unregister
    PROVE  RunnerInv'
  <1>0. {"clear", "unregister"} \subseteq Call /\ <<>> \in Seq(Call)
    BY DEF Call
  <1>1. CASE ClearHandle
    <2>1. InDestructor /\ DestructorAt("clear")
      BY <1>0, <1>1, TopOfStack DEF ClearHandle, DestroyWindowAt
    <2>2. stack' = On("unregister", <<>>) /\ stack' \in Seq(Call)
      BY <1>0, <1>1, <2>1, Replacement DEF ClearHandle, DestructorAt
    <2>3. InDestructor'
      BY <1>1, <2>1, <2>2 DEF ClearHandle, InDestructor, DestructorAt, process, os, engine
    <2>4. TypeOK'
      <3>1. handle' \in BOOLEAN
        BY <1>1, Zenon DEF ClearHandle
      <3> QED
        BY <1>1, <2>2, <3>1 DEF ClearHandle, RunnerInv, TypeOK, process, os, engine
    <2> QED
      BY <1>1, <2>3, <2>4 DEF ClearHandle, RunnerInv, process
  <1>2. CASE Unregister
    <2>1. /\ IF count = 0
             THEN classKnown' = (classKnown /\ Exists) /\ registered' = FALSE
             ELSE UNCHANGED <<classKnown, registered>>
          /\ UNCHANGED <<at, result, com, window, handle, child, quitOnClose, count,
                         controller, frame, shown, quit, prompt>>
      BY <1>2 DEF Unregister, process, engine
    <2>2. classKnown' \in BOOLEAN /\ registered' \in BOOLEAN
      <3>1. CASE count = 0
        BY <2>1, <3>1, Zenon
      <3>2. CASE count # 0
        BY <2>1, <3>2 DEF RunnerInv, TypeOK
      <3> QED
        BY <3>1, <3>2
    <2>3. stack' \in Seq(Call) => TypeOK'
      BY <2>1, <2>2 DEF RunnerInv, TypeOK
    <2>4. CASE InDestructor /\ DestructorAt("unregister")
      <3>1. stack' = <<>> /\ window \in {"none", "aborted"} /\ ~handle
        BY <1>0, <1>2, <2>4, Replacement DEF Unregister, DestructorAt
      <3>2. at = "destructor" /\ count = 0 /\ controller = "none"
        BY <2>4 DEF InDestructor
      <3>3. AtRest'
        BY <2>1, <3>1, <3>2 DEF AtRest, Exists
      <3> QED
        BY <1>0, <2>1, <2>3, <3>1, <3>3 DEF RunnerInv
    <2>5. ASSUME NEW rest \in Callers, CalledFrom(rest), DestroyWindowAt("unregister", rest)
          PROVE  RunnerInv'
      <3>1. /\ Tail(stack) = On("quit", On("WM_NCDESTROY", rest))
            /\ window = "dying" /\ ~handle
        BY <2>5 DEF DestroyWindowAt
      <3>2. /\ stack' = On("quit", On("WM_NCDESTROY", rest)) /\ stack' \in Seq(Call)
        BY <1>0, <1>2, <3>1, Replacement, StacksAreCalls DEF Unregister
      <3>3. CalledFrom(rest)' /\ InDestroyWindow(rest)'
        BY <2>1, <2>5, <3>1, <3>2 DEF CalledFrom, InDestroyWindow
      <3> QED
        BY <2>1, <2>3, <3>2, <3>3 DEF RunnerInv
    <2> QED
      BY <1>0, <1>2, <2>4, <2>5, TopOfStack DEF Unregister
  <1> QED
    BY <1>1, <1>2

\* The engine, the coroutines of the plugin and WM_CLOSE.
LEMMA LoopStep ==
    ASSUME RunnerInv, CompleteFrame \/ Show \/ Await \/ Resume \/ Close
    PROVE  RunnerInv'
  <1>1. CASE CompleteFrame
    <2>1. frame' \in Frame
      BY <1>1 DEF CompleteFrame, RunnerInv, TypeOK, Frame
    <2>2. UNCHANGED <<at, stack, result, com, window, classKnown, handle, child,
                      quitOnClose, count, registered, controller, shown, quit, prompt>>
      BY <1>1 DEF CompleteFrame, process, os, win32
    <2> QED
      BY <2>1, <2>2 DEF RunnerInv, TypeOK, AtRest, InDestructor, CalledFrom, InDestroyWindow
  <1>2. CASE Show
    <2>1. frame' \in Frame
      BY <1>2 DEF Show, RunnerInv, TypeOK, Frame
    <2>2. shown' \in BOOLEAN
      BY <1>2, Zenon DEF Show
    <2>3. UNCHANGED <<at, stack, result, com, window, classKnown, handle, child,
                      quitOnClose, count, registered, controller, quit, prompt>>
      BY <1>2 DEF Show, process, os, win32
    <2> QED
      BY <2>1, <2>2, <2>3
      DEF RunnerInv, TypeOK, AtRest, InDestructor, CalledFrom, InDestroyWindow
  <1>3. CASE Await \/ Resume
    <2>1. AtRest
      BY <1>3, NothingUnderWay DEF Await, Resume, Reaches
    <2>2. UNCHANGED <<at, stack, result, com, window, classKnown, handle, child,
                      quitOnClose, count, registered, controller, frame, shown, quit>>
      BY <1>3 DEF Await, Resume, process, os, win32, engine
    <2>3. AtRest'
      BY <2>1, <2>2 DEF AtRest
    <2>4. prompt' \in {"none", "awaited", "orphaned"}
      BY <1>3 DEF Await, Resume
    <2>5. prompt' = "orphaned" => quit
      BY <1>3, <2>1 DEF Await, Resume, Reaches, AtRest, RunnerInv, TypeOK
    <2> QED
      BY <2>2, <2>3, <2>4, <2>5 DEF RunnerInv, TypeOK
  <1>4. CASE Close
    <2>1. AtRest /\ at = "loop" /\ window = "live" /\ stack' = <<"DestroyWindow">>
      BY <1>4, NothingUnderWay DEF Close, Reaches
    <2>2. UNCHANGED <<at, result, com, window, classKnown, handle, child, quitOnClose,
                      count, registered, controller, frame, shown, quit, prompt>>
      BY <1>4 DEF Close, process, os, win32, engine
    <2>3. stack' = On("DestroyWindow", <<>>) /\ stack' \in Seq(Call)
      <3>1. "DestroyWindow" \in Call /\ <<>> \in Seq(Call)
        BY DEF Call
      <3>2. <<"DestroyWindow">> = On("DestroyWindow", <<>>)
        BY DEF On
      <3> QED
        BY <2>1, <3>1, <3>2, OnTop
    <2>4. CalledFrom(<<>>)' /\ InDestroyWindow(<<>>)'
      BY <2>1, <2>2, <2>3 DEF AtRest, CalledFrom, InDestroyWindow
    <2> QED
      BY <2>2, <2>3, <2>4 DEF RunnerInv, TypeOK, Callers
  <1> QED
    BY <1>1, <1>2, <1>3, <1>4

\* Any step of the runner.
LEMMA RunnerKept ==
    ASSUME RunnerInv, [Next]_vars
    PROVE  RunnerInv'
  <1>1. CASE Main
    BY <1>1, MainStep
  <1>2. CASE Destroying
    BY <1>2, DestroyStep, MessageStep, ReturnStep DEF Destroying
  <1>3. CASE CompleteFrame \/ Show \/ Await \/ Resume \/ Close
    BY <1>3, LoopStep
  <1>4. CASE UNCHANGED vars
    BY <1>4
    DEF vars, process, os, win32, engine, RunnerInv, TypeOK, AtRest, InDestructor,
        CalledFrom, InDestroyWindow
  <1> QED
    BY <1>1, <1>2, <1>3, <1>4 DEF Next

\* The inductive invariant holds of the runner by itself.
LEMMA RunnerInductive == Spec => []RunnerInv
  BY RunnerStart, RunnerKept, PTL DEF Spec

\* Whatever the session does, the application does with its process and its window
\* what the runner does: the session only asks for prompts.
THEOREM RunnerOfTheApp == AppSpec => Spec
  <1>1. AppInit => Init
    BY DEF AppInit
  <1>2. [AppNext]_allVars => [Next]_vars
    <2>1. CASE RunnerStep
      BY <2>1 DEF RunnerStep, Next
    <2>2. CASE Orphan
      BY <2>2 DEF Orphan, Next
    <2>3. CASE FollowsPrompt
      BY <2>3 DEF FollowsPrompt, Next
    <2>4. CASE UNCHANGED allVars
      BY <2>4 DEF allVars
    <2> QED
      BY <2>1, <2>2, <2>3, <2>4 DEF AppNext, SessionStep
  <1> QED
    BY <1>1, <1>2, PTL DEF AppSpec, Spec

\* Type correctness of the runner.
THEOREM RunnerTypes == AppSpec => []TypeOK
  BY RunnerOfTheApp, RunnerInductive, PTL DEF RunnerInv

\* No message is dispatched to a window without engine, handle and content, in an
\* application that may be closed at any step.
THEOREM WindowIsWhole == AppSpec => []MessagesFindEngine
  <1>1. RunnerInv => MessagesFindEngine
    BY NothingUnderWay DEF MessagesFindEngine, Reaches, AtRest
  <1> QED
    BY <1>1, RunnerOfTheApp, RunnerInductive, PTL

\* Destroy, WM_DESTROY and the destructor never destroy a window twice, and a
\* handle without a window only if the window was never completed.
THEOREM WindowDestroyedOnce == AppSpec => []DestroyedOnce
  <1>1. ASSUME RunnerInv, Calls("DestroyWindow")
        PROVE  window \in {"live", "aborted"}
    BY <1>1, TopOfStack DEF Call, DestructorAt, DestroyWindowAt
  <1>2. RunnerInv => DestroyedOnce
    BY <1>1 DEF DestroyedOnce
  <1> QED
    BY <1>2, RunnerOfTheApp, RunnerInductive, PTL

\* Every way out of wWinMain leaves nothing behind.
THEOREM LeavesNothing == AppSpec => []CleanExit
  <1>1. ASSUME RunnerInv, at = "exited" PROVE AtRest
    BY <1>1 DEF RunnerInv, InDestructor, CalledFrom
  <1>2. RunnerInv => CleanExit
    BY <1>1 DEF CleanExit, AtRest, RunnerInv, Exists
  <1> QED
    BY <1>2, RunnerOfTheApp, RunnerInductive, PTL

\* A coroutine finds its service destroyed only when the loop is about to end.
THEOREM OrphansAreLast == AppSpec => []OrphanedOnlyAtEnd
  BY RunnerOfTheApp, RunnerInductive, PTL DEF RunnerInv, OrphanedOnlyAtEnd

=============================================================================
