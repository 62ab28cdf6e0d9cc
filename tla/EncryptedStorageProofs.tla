------------------------ MODULE EncryptedStorageProofs ------------------------
(* Type correctness, Recoverable and SealedCoherent of EncryptedStorage, and  *)
(* that it implements VaultPromise, for any number of callers, any requests,  *)
(* any faults.                                                                *)
EXTENDS EncryptedStorage, StorageDataProofs

\* A caller that is not idle has asked for something.
Asked == \A c \in Callers : phase[c] # "idle" => request[c] \in Requests

\* A caller that has computed new contents holds a vault.
HoldsVault ==
    \A c \in Callers :
        phase[c] \in {"staged", "written", "cleared"} => save[c] \in Vault

TypeInv == TypeOK /\ Asked /\ HoldsVault

-----------------------------------------------------------------------------
(* Types *)

\* Every outcome the actions choose from has the facts of OutcomeFacts, on the
\* file as it is and on a file that cannot be seen.
LEMMA OutcomeOfCall ==
    ASSUME NEW r \in Requests, NEW d \in Disk, NEW o \in Outcomes(r, d)
    PROVE  /\ o.answer \in Answers
           /\ IsSave(r, o)
                 => o.next \in Vault /\ ((IsSealed(d) => Coherent(d)) => Coherent(o.next))
           /\ ~IsSave(r, o) => o.next \in {d, Absent}
BY OutcomeFacts, StorageCallsAssumption DEF IsSave

\* The initial state is well-typed.
LEMMA TypeInit == Init => TypeInv
BY StorageCallsAssumption
   DEF Init, TypeInv, TypeOK, Asked, HoldsVault, Disk, Phase, NoAnswer, Answer,
       Answers, Status

\* Finishing an operation keeps the types of the calls.
LEMMA FinishesType ==
    ASSUME TypeInv, NEW c \in Callers, NEW a \in Answers, Finishes(c, a),
           phase[c] # "idle"
    PROVE  /\ phase' \in [Callers -> Phase]
           /\ request' \in [Callers -> Requests \cup {NoRequest}]
           /\ answer' \in [Callers -> Answers]
           /\ save' \in [Callers -> Vault \cup {Absent}]
           /\ Asked'
           /\ HoldsVault'
BY DEF TypeInv, TypeOK, Asked, HoldsVault, Finishes, MovesTo, Phase

\* So does staging a save.
LEMMA StagesType ==
    ASSUME TypeInv, NEW c \in Callers, NEW o, o.answer \in Answers,
           o.next \in Vault, Stages(c, o), phase[c] # "idle"
    PROVE  /\ phase' \in [Callers -> Phase]
           /\ request' \in [Callers -> Requests \cup {NoRequest}]
           /\ answer' \in [Callers -> Answers]
           /\ save' \in [Callers -> Vault \cup {Absent}]
           /\ Asked'
           /\ HoldsVault'
BY DEF TypeInv, TypeOK, Asked, HoldsVault, Stages, MovesTo, Phase

\* A call that is about to be granted or refused has asked for something, and
\* what it takes the vault to be is the file or none.
LEMMA DecidesFacts ==
    ASSUME TypeInv, NEW c \in Callers, Decides(c)
    PROVE  /\ phase[c] \in {"queued", "probed"}
           /\ request[c] \in Requests
           /\ Seen(c) \in Disk /\ Seen(c) \in {file, Absent}
BY DEF TypeInv, TypeOK, Asked, Decides, Owns, Seen, Disk

\* What Serve answers and what it leaves.
LEMMA ServeFacts ==
    ASSUME TypeInv, NEW c \in Callers, Serve(c)
    PROVE  \E o \in Outcomes(request[c], Seen(c)) :
              /\ ~IsSave(request[c], o) /\ Finishes(c, o.answer)
              /\ o.answer \in Answers
              /\ file' \in {file, Absent}
              /\ file' = IF phase[c] = "probed" THEN file ELSE o.next
<1>1. /\ request[c] \in Requests
      /\ Seen(c) \in Disk
      /\ phase[c] # "probed" => Seen(c) = file
  BY DecidesFacts DEF Serve, Seen
<1>2. PICK o \in Outcomes(request[c], Seen(c)) :
          /\ ~IsSave(request[c], o) /\ Finishes(c, o.answer)
          /\ file' = IF phase[c] = "probed" THEN file ELSE o.next
  BY DEF Serve
<1>3. o.answer \in Answers /\ o.next \in {Seen(c), Absent}
  BY <1>1, <1>2, OutcomeOfCall
<1>4. QED
  BY <1>1, <1>2, <1>3

\* Every step keeps the types.
LEMMA TypeStep == TypeInv /\ [Next]_vars => TypeInv'
<1> SUFFICES ASSUME TypeInv, [Next]_vars PROVE TypeInv'
  OBVIOUS
<1> USE DEF disk, calls
<1>0. \A error \in {"io", "invalidStorage"}, r \in Requests :
          Failure(r, error) \in Answers
  BY FailureType DEF Status
<1>1. ASSUME NEW c \in Callers, Invoke(c) PROVE TypeInv'
  BY <1>1 DEF TypeInv, TypeOK, Asked, HoldsVault, Invoke, Phase
<1>2. ASSUME NEW c \in Callers, Load(c) PROVE TypeInv'
  <2>1. phase[c] # "idle" /\ request[c] \in Requests /\ Seen(c) \in Disk
    BY <1>2, DecidesFacts DEF Load
  <2>2. PICK o \in Outcomes(request[c], Seen(c)) : IsSave(request[c], o) /\ Stages(c, o)
    BY <1>2 DEF Load
  <2>3. o.answer \in Answers /\ o.next \in Vault
    BY <2>1, <2>2, OutcomeOfCall
  <2>4. QED
    BY <1>2, <2>1, <2>2, <2>3, StagesType DEF Load, TypeInv, TypeOK
<1>3. ASSUME NEW c \in Callers, Serve(c) PROVE TypeInv'
  <2>1. phase[c] # "idle" /\ request[c] \in Requests
    BY <1>3, DecidesFacts DEF Serve
  <2>2. PICK o \in Outcomes(request[c], Seen(c)) :
            /\ ~IsSave(request[c], o) /\ Finishes(c, o.answer)
            /\ o.answer \in Answers /\ file' \in {file, Absent}
    BY <1>3, ServeFacts
  <2>3. o.answer \in Answers /\ file' \in Disk
    BY <2>2 DEF Disk, TypeInv, TypeOK
  <2>4. committed' \in Disk
    BY <1>3, <2>3 DEF Serve, TypeInv, TypeOK
  <2>5. QED
    BY <1>3, <2>1, <2>2, <2>3, <2>4, FinishesType DEF Serve, TypeInv, TypeOK
<1>4. ASSUME NEW c \in Callers, WriteTmp(c) PROVE TypeInv'
  BY <1>4 DEF TypeInv, TypeOK, Asked, HoldsVault, WriteTmp, MovesTo, Owns, Phase
<1>5. ASSUME NEW c \in Callers, DeleteOld(c) PROVE TypeInv'
  BY <1>5 DEF TypeInv, TypeOK, Asked, HoldsVault, DeleteOld, MovesTo, Owns, Phase, Disk
<1>6. ASSUME NEW c \in Callers, RenameTmp(c) PROVE TypeInv'
  <2>1. phase[c] # "idle" /\ save[c] \in Vault /\ answer[c] \in Answers
    BY <1>6 DEF RenameTmp, CanRename, Owns, TypeInv, TypeOK, HoldsVault
  <2>2. QED
    BY <1>6, <2>1, FinishesType DEF RenameTmp, TypeInv, TypeOK, Disk
<1>7. ASSUME NEW c \in Callers, Release(c) PROVE TypeInv'
  <2>1. NoAnswer \in Answers
    BY DEF NoAnswer, Answer, Answers, Status
  <2>2. queue' \in Seq(Callers)
    BY <1>7 DEF Release, Owns, TypeInv, TypeOK
  <2>3. QED
    BY <1>7, <2>1, <2>2 DEF TypeInv, TypeOK, Asked, HoldsVault, Release, MovesTo, Phase
<1>8. ASSUME NEW c \in Callers, FaultyStep(c) PROVE TypeInv'
  <2>1. ASSUME NEW kind, Fault(kind) PROVE faults' \in 0 .. MaxFaults
    BY <2>1, StorageCallsAssumption DEF Fault, TypeInv, TypeOK
  <2>2. ASSUME phase[c] # "idle" PROVE request[c] \in Requests
    BY <2>2 DEF TypeInv, Asked
  <2>3. ASSUME phase[c] \in {"written", "cleared"}, LeavesTmp(c)
        PROVE  tmps' \subseteq Vault /\ file' = file /\ committed' = committed
    BY <2>3 DEF TypeInv, TypeOK, HoldsVault, LeavesTmp
  <2>4. CASE ReadFails(c)
    BY <1>0, <2>1, <2>2, <2>4, FinishesType DEF ReadFails, Owns, TypeInv, TypeOK
  <2>5. CASE ProbeFails(c)
    <3>1. phase[c] = "queued" /\ request[c] \in Requests /\ faults' \in 0 .. MaxFaults
      BY <2>1, <2>2, <2>5 DEF ProbeFails, Owns
    <3>2. CASE FailsWithIO(c)
      BY <1>0, <2>5, <3>1, <3>2, FinishesType
         DEF ProbeFails, FailsWithIO, TypeInv, TypeOK
    <3>3. CASE MovesTo(c, "probed") /\ UNCHANGED <<request, answer, save>>
      BY <2>5, <3>1, <3>3
         DEF ProbeFails, MovesTo, TypeInv, TypeOK, Asked, HoldsVault, Phase
    <3>4. QED
      BY <2>5, <3>2, <3>3 DEF ProbeFails
  <2>6. CASE WriteTmpFails(c)
    BY <1>0, <2>1, <2>2, <2>6, FinishesType
       DEF WriteTmpFails, FailsWithIO, Owns, TypeInv, TypeOK
  <2>7. CASE DeleteOldFails(c)
    BY <1>0, <2>1, <2>2, <2>3, <2>7, FinishesType
       DEF DeleteOldFails, FailsWithIO, Owns, TypeInv, TypeOK
  <2>8. CASE RenameTmpFails(c)
    BY <1>0, <2>1, <2>2, <2>3, <2>8, FinishesType
       DEF RenameTmpFails, CanRename, FailsWithIO, Owns, TypeInv, TypeOK
  <2>9. CASE EraseFails(c)
    BY <1>0, <2>1, <2>2, <2>9, FinishesType
       DEF EraseFails, FailsWithIO, Owns, TypeInv, TypeOK
  <2>10. QED
    BY <1>8, <2>4, <2>5, <2>6, <2>7, <2>8, <2>9 DEF FaultyStep
<1>9. CASE Crash
  <2>1. NoAnswer \in Answers
    BY DEF NoAnswer, Answer, Answers, Status
  <2>2. tmps' \subseteq Vault
    BY <1>9 DEF Crash, TypeInv, TypeOK, HoldsVault, HasTmp
  <2>3. faults' \in 0 .. MaxFaults
    BY <1>9, StorageCallsAssumption DEF Crash, Fault, TypeInv, TypeOK
  <2>4. QED
    BY <1>9, <2>1, <2>2, <2>3 DEF Crash, TypeInv, TypeOK, Asked, HoldsVault, Phase
<1>10. CASE Damage
  <2>1. file' \in Disk
    BY <1>10, DamagedFacts DEF Damage, TypeInv, TypeOK
  <2>2. faults' \in 0 .. MaxFaults
    BY <1>10, StorageCallsAssumption DEF Damage, Fault, TypeInv, TypeOK
  <2>3. QED
    BY <1>10, <2>1, <2>2 DEF Damage, TypeInv, TypeOK, Asked, HoldsVault
<1>11. CASE UNCHANGED vars
  BY <1>11 DEF vars, TypeInv, TypeOK, Asked, HoldsVault
<1>12. ASSUME NEW c \in Callers, Probe(c) PROVE TypeInv'
  <2>1. file' \in Disk /\ committed' \in Disk
    BY <1>12 DEF Probe, Tidied, TypeInv, TypeOK, Disk
  <2>2. QED
    BY <1>12, <2>1
       DEF Probe, Owns, MovesTo, TypeInv, TypeOK, Asked, HoldsVault, Phase
<1>13. QED
  BY <1>12, <1>1, <1>2, <1>3, <1>4, <1>5, <1>6, <1>7, <1>8, <1>9, <1>10, <1>11
     DEF Next, Step

\* Type correctness of the storage on its file.
THEOREM StorageTypes == Spec => []TypeOK
<1>1. Spec => []TypeInv
  BY TypeInit, TypeStep, PTL DEF Spec
<1>2. TypeInv => TypeOK
  BY DEF TypeInv
<1>3. QED
  BY <1>1, <1>2, PTL

-----------------------------------------------------------------------------
(* Recoverable *)

\* It is inductive with the types: whatever a step takes from the file, it has
\* put into a temporary file before.
LEMMA RecoverableStep ==
    TypeInv /\ Recoverable /\ [Next]_vars => Recoverable'
<1> SUFFICES ASSUME TypeInv, Recoverable, [Next]_vars PROVE Recoverable'
  OBVIOUS
<1> USE DEF disk, calls, TypeInv, TypeOK, Recoverable, HasTmp
\* A call that had no temporary file moves on, and disk is as it was.
<1>0. ASSUME NEW c \in Callers, ~HasTmp(c), UNCHANGED disk,
             \A x \in Callers \ {c} : phase'[x] = phase[x] /\ save'[x] = save[x]
      PROVE  Recoverable'
  BY <1>0
<1>1. ASSUME NEW c \in Callers, Invoke(c) PROVE Recoverable'
  BY <1>1 DEF Invoke
<1>2. ASSUME NEW c \in Callers, Load(c) PROVE Recoverable'
  BY <1>0, <1>2 DEF Load, Decides, Owns, Stages, MovesTo
<1>3. ASSUME NEW c \in Callers, Serve(c) PROVE Recoverable'
  <2>1. phase[c] \in {"queued", "probed"}
    BY <1>3, DecidesFacts DEF Serve
  <2>2. PICK o : Finishes(c, o.answer)
    BY <1>3 DEF Serve
  <2>3. CASE committed' = file'
    BY <2>3
  <2>4. CASE committed' = committed /\ file' = file
    BY <1>0, <1>3, <2>1, <2>2, <2>4 DEF Serve, Finishes, MovesTo
  <2>5. QED
    BY <1>3, <2>3, <2>4 DEF Serve
<1>4. ASSUME NEW c \in Callers, WriteTmp(c) PROVE Recoverable'
  BY <1>4 DEF WriteTmp, MovesTo, Owns
<1>5. ASSUME NEW c \in Callers, DeleteOld(c) PROVE Recoverable'
  BY <1>5 DEF DeleteOld, MovesTo
<1>6. ASSUME NEW c \in Callers, RenameTmp(c) PROVE Recoverable'
  BY <1>6 DEF RenameTmp
<1>7. ASSUME NEW c \in Callers, Release(c) PROVE Recoverable'
  BY <1>0, <1>7 DEF Release, Owns, MovesTo
<1>8. ASSUME NEW c \in Callers, FaultyStep(c) PROVE Recoverable'
  <2>1. CASE ReadFails(c)
    BY <1>0, <2>1 DEF ReadFails, Owns, Finishes, MovesTo
  <2>2. CASE ProbeFails(c)
    BY <1>0, <2>2 DEF ProbeFails, Owns, FailsWithIO, Finishes, MovesTo
  <2>3. CASE WriteTmpFails(c)
    BY <1>0, <2>3 DEF WriteTmpFails, Owns, FailsWithIO, Finishes, MovesTo
  <2>4. CASE DeleteOldFails(c)
    BY <2>4 DEF DeleteOldFails, LeavesTmp, FailsWithIO, Finishes, MovesTo
  <2>5. CASE RenameTmpFails(c)
    BY <2>5 DEF RenameTmpFails, LeavesTmp, FailsWithIO, Finishes, MovesTo
  <2>6. CASE EraseFails(c)
    BY <1>0, <2>6 DEF EraseFails, Owns, FailsWithIO, Finishes, MovesTo
  <2>7. QED
    BY <1>8, <2>1, <2>2, <2>3, <2>4, <2>5, <2>6 DEF FaultyStep
<1>9. CASE Crash
  BY <1>9 DEF Crash
<1>10. CASE Damage
  BY <1>10 DEF Damage
<1>11. CASE UNCHANGED vars
  BY <1>11 DEF vars
<1>12. ASSUME NEW c \in Callers, Probe(c) PROVE Recoverable'
  <2>1. CASE committed' = file'
    BY <2>1
  <2>2. CASE UNCHANGED <<file, committed>>
    BY <1>0, <1>12, <2>2 DEF Probe, Owns, MovesTo
  <2>3. QED
    BY <1>12, <2>1, <2>2 DEF Probe
<1>13. QED
  BY <1>12, <1>1, <1>2, <1>3, <1>4, <1>5, <1>6, <1>7, <1>8, <1>9, <1>10, <1>11
     DEF Next, Step

\* The last vault that took effect is in the file or in a complete temporary
\* file, at every moment of every save, failed save and crash.
THEOREM NeverWhollyLost == Spec => []Recoverable
<1>1. Init => Recoverable
  BY DEF Init, Recoverable
<1>2. Init => TypeInv /\ Recoverable
  BY <1>1, TypeInit
<1>3. TypeInv /\ Recoverable /\ [Next]_vars => (TypeInv /\ Recoverable)'
  BY TypeStep, RecoverableStep
<1>4. QED
  BY <1>2, <1>3, PTL DEF Spec

-----------------------------------------------------------------------------
(* SealedCoherent *)

\* What carries a valid HMAC is whole.
Sound(d) == IsSealed(d) => Coherent(d)

\* SealedCoherent, place by place.
LEMMA SoundPlaces ==
    SealedCoherent <=> /\ Sound(file)
                       /\ \A d \in tmps : Sound(d)
                       /\ \A c \in Callers : Sound(save[c])
BY DEF SealedCoherent, Sound

\* A missing file is sound.
LEMMA AbsentSound == Sound(Absent)
BY DEF Sound, IsSealed, Absent

\* It is inductive with the types: a save starts from sound contents and the
\* checks of the operation keep them sound.
LEMMA SealedCoherentStep ==
    TypeInv /\ SealedCoherent /\ [Next]_vars => SealedCoherent'
<1> SUFFICES ASSUME TypeInv, SealedCoherent, [Next]_vars PROVE SealedCoherent'
  OBVIOUS
<1> USE DEF disk, calls, TypeInv, TypeOK
<1>0. /\ Sound(file)
      /\ \A d \in tmps : Sound(d)
      /\ \A c \in Callers : Sound(save[c])
  BY SoundPlaces
<1>a. SUFFICES /\ Sound(file')
               /\ \A d \in tmps' : Sound(d)
               /\ \A c \in Callers : Sound(save'[c])
  BY DEF SealedCoherent, Sound
<1>b. ASSUME NEW c \in Callers, NEW a, Finishes(c, a)
      PROVE  \A x \in Callers : Sound(save'[x])
  BY <1>0, <1>b, AbsentSound DEF Finishes
<1>c. ASSUME NEW c \in Callers, NEW o, Stages(c, o), Sound(o.next)
      PROVE  \A x \in Callers : Sound(save'[x])
  BY <1>0, <1>c DEF Stages
<1> DEFINE Goal == /\ Sound(file')
                   /\ \A d \in tmps' : Sound(d)
                   /\ \A c \in Callers : Sound(save'[c])
<1>1. ASSUME NEW c \in Callers, Invoke(c) PROVE Goal
  BY <1>0, <1>1 DEF Invoke
<1>2. ASSUME NEW c \in Callers, Load(c) PROVE Goal
  <2>1. request[c] \in Requests /\ Seen(c) \in Disk /\ Seen(c) \in {file, Absent}
    BY <1>2, DecidesFacts DEF Load
  <2>2. PICK o \in Outcomes(request[c], Seen(c)) : IsSave(request[c], o) /\ Stages(c, o)
    BY <1>2 DEF Load
  <2>3. Sound(Seen(c))
    BY <1>0, <2>1, AbsentSound
  <2>4. Sound(o.next)
    BY <2>1, <2>2, <2>3, OutcomeOfCall DEF Sound
  <2>5. QED
    BY <1>0, <1>2, <2>2, <2>4, <1>c DEF Load
<1>3. ASSUME NEW c \in Callers, Serve(c) PROVE Goal
  <2>1. PICK o \in Outcomes(request[c], Seen(c)) :
            Finishes(c, o.answer) /\ file' \in {file, Absent}
    BY <1>3, ServeFacts
  <2>2. Sound(file')
    BY <1>0, <2>1, AbsentSound
  <2>3. QED
    BY <1>0, <1>3, <2>1, <2>2, <1>b DEF Serve
<1>4. ASSUME NEW c \in Callers, WriteTmp(c) PROVE Goal
  BY <1>0, <1>4 DEF WriteTmp
<1>5. ASSUME NEW c \in Callers, DeleteOld(c) PROVE Goal
  BY <1>0, <1>5, AbsentSound DEF DeleteOld
<1>6. ASSUME NEW c \in Callers, RenameTmp(c) PROVE Goal
  BY <1>0, <1>6, <1>b DEF RenameTmp
<1>7. ASSUME NEW c \in Callers, Release(c) PROVE Goal
  BY <1>0, <1>7 DEF Release
<1>8. ASSUME NEW c \in Callers, FaultyStep(c) PROVE Goal
  <2>1. CASE ReadFails(c)
    BY <1>0, <1>b, <2>1 DEF ReadFails
  <2>2. CASE ProbeFails(c)
    BY <1>0, <1>b, <2>2 DEF ProbeFails, FailsWithIO
  <2>3. CASE WriteTmpFails(c)
    BY <1>0, <1>b, <2>3 DEF WriteTmpFails, FailsWithIO
  <2>4. CASE DeleteOldFails(c)
    BY <1>0, <1>b, <2>4 DEF DeleteOldFails, LeavesTmp, FailsWithIO
  <2>5. CASE RenameTmpFails(c)
    BY <1>0, <1>b, <2>5 DEF RenameTmpFails, LeavesTmp, FailsWithIO
  <2>6. CASE EraseFails(c)
    BY <1>0, <1>b, <2>6 DEF EraseFails, FailsWithIO
  <2>7. QED
    BY <1>8, <2>1, <2>2, <2>3, <2>4, <2>5, <2>6 DEF FaultyStep
<1>9. CASE Crash
  BY <1>0, <1>9, AbsentSound DEF Crash
<1>10. CASE Damage
  BY <1>0, <1>10, DamagedFacts DEF Damage, Sound
<1>11. CASE UNCHANGED vars
  BY <1>0, <1>11 DEF vars
<1>12. ASSUME NEW c \in Callers, Probe(c) PROVE Goal
  BY <1>0, <1>12, AbsentSound DEF Probe, Tidied
<1>13. QED
  BY <1>12, <1>1, <1>2, <1>3, <1>4, <1>5, <1>6, <1>7, <1>8, <1>9, <1>10, <1>11
     DEF Next, Step

\* Whatever carries a valid HMAC, in whichever file, is a whole vault.
THEOREM SealedVaultsAreWhole == Spec => []SealedCoherent
<1>1. Init => SealedCoherent
  BY SoundPlaces, AbsentSound DEF Init
<1>2. Init => TypeInv /\ SealedCoherent
  BY <1>1, TypeInit
<1>3. TypeInv /\ SealedCoherent /\ [Next]_vars => (TypeInv /\ SealedCoherent)'
  BY TypeStep, SealedCoherentStep
<1>4. QED
  BY <1>2, <1>3, PTL DEF Spec

-----------------------------------------------------------------------------
(* KeepsPromise *)

\* The call that is past its check owns the lock.
OwnsLock ==
    \A c \in Callers :
        phase[c] \notin {"idle", "queued"} => queue # <<>> /\ Head(queue) = c

\* The save it has computed is one that the vault in the file still grants.
Computed ==
    \A c \in Callers : phase[c] \in {"staged", "written"} =>
        \E o \in Outcomes(request[c], file) :
            /\ IsSave(request[c], o)
            /\ answer[c] = o.answer
            /\ save[c] = o.next

\* Between delete and rename the save has taken effect and there is no file.
Halfway ==
    \A c \in Callers : phase[c] = "cleared" =>
        /\ file = Absent
        /\ committed = save[c]
        /\ request[c].op \in Saving
        /\ answer[c].status = "ok"

Untold == \A c \in Callers : phase[c] = "idle" => answer[c] = NoAnswer

\* An init that goes on has been told the truth: there is no vault.
Told ==
    \A c \in Callers :
        phase[c] = "probed" => request[c].op = "init" /\ ~IsInitialized(file)

Serial == TypeInv /\ OwnsLock /\ Computed /\ Halfway /\ Untold /\ Told

\* The lock is held by one call at a time.
LEMMA OneOwner ==
    ASSUME OwnsLock, NEW c \in Callers, phase[c] \notin {"idle", "queued"},
           NEW x \in Callers, phase[x] \notin {"idle", "queued"}
    PROVE  x = c
BY DEF OwnsLock

\* The promise reads the data of StorageData.
LEMMA SameData ==
    /\ Promise!NoRequest = NoRequest /\ Promise!NoAnswer = NoAnswer
    /\ Promise!Absent = Absent /\ Promise!Saving = Saving
    /\ \A r, error : Promise!Failure(r, error) = Failure(r, error)
    /\ \A d : Promise!Damaged(d) = Damaged(d)
    /\ Promise!Empty = Empty
    /\ \A d : Promise!Tidied(d) = Tidied(d)
BY DEF NoRequest, Promise!NoRequest, NoAnswer, Promise!NoAnswer, Answer,
  Promise!Answer, Absent, Promise!Absent, Empty, Promise!Empty, Garbage,
  Promise!Garbage, Saving, Promise!Saving, Failure, Promise!Failure, Damaged,
  Promise!Damaged, Tidied, Promise!Tidied

\* It leaves the same room for generated ids.
LEMMA SameRoom ==
    ASSUME NEW d, NEW pending
    PROVE  Promise!HasRoom(d, pending) = HasRoom(d, pending)
<1>1. ASSUME NEW S PROVE Promise!Cardinality(S) = Cardinality(S)
  BY DEF Cardinality, Promise!Cardinality
<1>2. QED
  BY <1>1 DEF Inputs, Promise!Inputs, HasRoom, Promise!HasRoom

\* Its operations have the same outcomes.
LEMMA SameOutcomes ==
    ASSUME NEW r, NEW d PROVE Promise!Outcomes(r, d) = Outcomes(r, d)
BY DEF Absent, Promise!Absent, Empty, Promise!Empty, Ensure, Promise!Ensure,
  IsInitialized, Promise!IsInitialized, LoadCheck, Promise!LoadCheck,
  MasterKeys, Promise!MasterKeys, KeyCheck, Promise!KeyCheck, Guarded,
  Promise!Guarded, HasId, Promise!HasId, Origins, Promise!Origins,
  NoDuplicateIds, Promise!NoDuplicateIds, DecryptCheck,
  Promise!DecryptCheck, InitCheck, Promise!InitCheck, DeleteWrapCheck,
  Promise!DeleteWrapCheck, AddEntryCheck, Promise!AddEntryCheck,
  UpdateEntryCheck, Promise!UpdateEntryCheck, DeleteEntryCheck,
  Promise!DeleteEntryCheck, UpdateLockTimeoutCheck,
  Promise!UpdateLockTimeoutCheck, ReadAllMetaCheck,
  Promise!ReadAllMetaCheck, ReadValueCheck, Promise!ReadValueCheck, Check,
  Promise!Check, Assigned, Promise!Assigned, Encrypted, Promise!Encrypted,
  Sealed, Promise!Sealed, Created, Promise!Created, InitSaves,
  Promise!InitSaves, ReplaceWrap, Promise!ReplaceWrap, DropWrap,
  Promise!DropWrap, AddedEntries, Promise!AddedEntries, Updated,
  Promise!Updated, UpdateIn, Promise!UpdateIn, DropEntry, Promise!DropEntry,
  Changed, Promise!Changed, Saves, Promise!Saves, Saving, Promise!Saving,
  Answer, Promise!Answer, Failure, Promise!Failure, Success,
  Promise!Success, Tidied, Promise!Tidied, Kept, Promise!Kept,
  Prompts, Promise!Prompts,
  Outcome, Promise!Outcome, Outcomes, Promise!Outcomes

\* An init that is refused leaves the file as it was.
LEMMA InitKeeps ==
    ASSUME NEW r, r.op = "init", NEW d, NEW o \in Outcomes(r, d), ~IsSave(r, o)
    PROVE  o.next = d
<1>1. ASSUME NEW n, o = Outcome(Success(r, d, n), n) PROVE FALSE
  BY <1>1 DEF Outcome, Success, Answer, IsSave, Saving
<1>2. QED
  BY <1>1 DEF Outcomes, Outcome, Saving

\* The places of a call in the promise.
LEMMA Places ==
    ASSUME TypeInv, NEW x \in Callers
    PROVE  /\ Promise!Pending(x) <=> Waiting(x)
           /\ Promise!Performed(x) <=> phase[x] \in {"cleared", "answered"}
BY DEF TypeInv, TypeOK, Phase, Promise!Pending, Promise!Performed, Waiting

\* The turn of the call that owns the lock has come, and the vault is the file.
LEMMA OwnersTurn ==
    ASSUME Serial, NEW c \in Callers, Waiting(c), queue # <<>>, Head(queue) = c
    PROVE  /\ Promise!Served(c)
           /\ CurrentVault = file
           /\ \A x \in Callers : phase[x] \notin {"cleared", "answered"}
<1>1. ASSUME NEW x \in Callers PROVE phase[x] \notin {"cleared", "answered"}
  BY DEF Serial, OwnsLock, Waiting
<1>2. QED
  BY <1>1, Places DEF Serial, CurrentVault, Promise!Served

\* A call that goes from waiting to answered does so in the promise.
LEMMA IsAnswered ==
    ASSUME Serial, NEW c \in Callers, Waiting(c), NEW a,
           NEW p \in {"cleared", "answered"}, MovesTo(c, p),
           answer' = [answer EXCEPT ![c] = a], UNCHANGED request
    PROVE  Promise!Answered(c, a)
BY DEF Serial, TypeInv, TypeOK, MovesTo, Waiting, Promise!Answered

\* A call that was cut between delete and rename had been answered.
LEMMA WasSaved ==
    ASSUME Serial, NEW c \in Callers, phase[c] = "cleared"
    PROVE  /\ Promise!Saved(c)
           /\ CurrentVault = committed
           /\ \A x \in Callers \ {c} : phase[x] \in {"idle", "queued"}
<1>1. \A x \in Callers \ {c} : phase[x] \in {"idle", "queued"}
  BY OneOwner DEF Serial
<1>2. CurrentVault = committed
  BY DEF CurrentVault
<1>3. Promise!Saved(c)
  BY Places, SameData DEF Serial, Halfway, Waiting, Promise!Saved
<1>4. QED
  BY <1>1, <1>2, <1>3

\* The initial state is serial.
LEMMA SerialInit == Init => Serial
BY TypeInit DEF Init, Serial, OwnsLock, Computed, Halfway, Untold, Told

\* Every step keeps the calls serial: only the owner of the lock touches the
\* file, and it lets go of the lock only when it has nothing under way.
LEMMA SerialStep ==
    ASSUME "probe" \notin Faults
    PROVE  Serial /\ [Next]_vars => Serial'
<1> SUFFICES ASSUME Serial, [Next]_vars
             PROVE  OwnsLock' /\ Computed' /\ Halfway' /\ Untold' /\ Told'
  BY TypeStep DEF Serial
<1> USE DEF disk, calls
<1> DEFINE Goal == OwnsLock' /\ Computed' /\ Halfway' /\ Untold' /\ Told'
<1>0. TypeInv /\ OwnsLock /\ Computed /\ Halfway /\ Untold /\ Told
  BY DEF Serial
\* The step of the owner that keeps its call, or ends it with an answer.
<1>a. ASSUME NEW c \in Callers, phase[c] # "idle", queue # <<>>, Head(queue) = c,
             UNCHANGED <<queue, request>>,
             \A x \in Callers \ {c} : /\ phase'[x] = phase[x]
                                      /\ answer'[x] = answer[x]
                                      /\ save'[x] = save[x],
             phase'[c] # "idle",
             phase'[c] \in {"staged", "written"} =>
                 \E o \in Outcomes(request[c], file') :
                     /\ IsSave(request[c], o)
                     /\ answer'[c] = o.answer
                     /\ save'[c] = o.next,
             phase'[c] = "cleared" =>
                 /\ file' = Absent
                 /\ committed' = save'[c]
                 /\ request[c].op \in Saving
                 /\ answer'[c].status = "ok",
             phase'[c] = "probed" => request[c].op = "init" /\ ~IsInitialized(file')
      PROVE  Goal
  <2>0. \A x \in Callers \ {c} : phase[x] \in {"idle", "queued"}
    BY <1>0, <1>a DEF OwnsLock
  <2>1. OwnsLock'
    BY <1>a, <2>0 DEF OwnsLock
  <2>2. Computed'
    BY <1>a, <2>0 DEF Computed
  <2>3. Halfway'
    BY <1>a, <2>0 DEF Halfway
  <2>4. Untold'
    BY <1>0, <1>a, <2>0 DEF Untold
  <2>5. Told'
    BY <1>a, <2>0 DEF Told
  <2>6. QED
    BY <2>1, <2>2, <2>3, <2>4, <2>5
<1>b. ASSUME NEW c \in Callers, NEW a, phase[c] # "idle", queue # <<>>,
             Head(queue) = c, Finishes(c, a), UNCHANGED queue
      PROVE  Goal
  BY <1>0, <1>a, <1>b DEF Finishes, MovesTo, TypeInv, TypeOK
<1>c. ASSUME NEW c \in Callers, NEW o \in Outcomes(request[c], file), IsSave(request[c], o),
             Stages(c, o), phase[c] # "idle", queue # <<>>, Head(queue) = c,
             UNCHANGED <<queue, file>>
      PROVE  Goal
  <2>1. /\ phase'[c] = "staged" /\ answer'[c] = o.answer /\ save'[c] = o.next
        /\ \A x \in Callers \ {c} : /\ phase'[x] = phase[x]
                                    /\ answer'[x] = answer[x]
                                    /\ save'[x] = save[x]
    BY <1>0, <1>c DEF Stages, MovesTo, TypeInv, TypeOK
  <2>2. QED
    BY <1>a, <1>c, <2>1 DEF Stages
<1>1. ASSUME NEW c \in Callers, Invoke(c) PROVE Goal
  <2>0. /\ phase[c] = "idle" /\ phase'[c] = "queued" /\ UNCHANGED <<file, committed, answer, save>>
        /\ \A x \in Callers \ {c} : phase'[x] = phase[x] /\ request'[x] = request[x]
    BY <1>0, <1>1 DEF Invoke, TypeInv, TypeOK
  <2>1. queue \in Seq(Callers)
    BY <1>0 DEF TypeInv, TypeOK
  <2>2. queue' # <<>> /\ (queue # <<>> => Head(queue') = Head(queue))
    BY <1>1, <2>1 DEF Invoke
  <2>3. OwnsLock'
    BY <1>0, <2>0, <2>2 DEF OwnsLock
  <2>4. Computed'
    BY <1>0, <2>0 DEF Computed
  <2>5. Halfway'
    BY <1>0, <2>0 DEF Halfway
  <2>6. Untold'
    BY <1>0, <2>0 DEF Untold
  <2>7. Told'
    BY <1>0, <2>0 DEF Told
  <2>8. QED
    BY <2>3, <2>4, <2>5, <2>6, <2>7
<1>2. ASSUME NEW c \in Callers, Load(c) PROVE Goal
  <2>1. Seen(c) = file
    BY <1>0, <1>2 DEF Load, Decides, Owns, Told, Seen
  <2>2. QED
    BY <1>2, <1>c, <2>1 DEF Load, Decides, Owns
<1>3. ASSUME NEW c \in Callers, Serve(c) PROVE Goal
  <2>1. PICK o : Finishes(c, o.answer)
    BY <1>3 DEF Serve
  <2>2. QED
    BY <1>3, <1>b, <2>1 DEF Serve, Decides, Owns
<1>4. ASSUME NEW c \in Callers, WriteTmp(c) PROVE Goal
  <2>1. /\ phase[c] = "staged" /\ phase'[c] = "written" /\ queue # <<>> /\ Head(queue) = c
        /\ \A x \in Callers \ {c} : phase'[x] = phase[x]
    BY <1>0, <1>4 DEF WriteTmp, Owns, MovesTo, TypeInv, TypeOK
  <2>2. PICK o \in Outcomes(request[c], file) :
            IsSave(request[c], o) /\ answer[c] = o.answer /\ save[c] = o.next
    BY <1>0, <2>1 DEF Computed
  <2>3. QED
    BY <1>a, <1>4, <2>1, <2>2 DEF WriteTmp
<1>5. ASSUME NEW c \in Callers, DeleteOld(c) PROVE Goal
  <2>1. /\ phase[c] = "written" /\ phase'[c] = "cleared" /\ queue # <<>> /\ Head(queue) = c
        /\ \A x \in Callers \ {c} : phase'[x] = phase[x]
    BY <1>0, <1>5 DEF DeleteOld, Owns, MovesTo, TypeInv, TypeOK
  <2>2. request[c].op \in Saving /\ answer[c].status = "ok"
    BY <1>0, <2>1 DEF Computed, IsSave
  <2>3. QED
    BY <1>a, <1>5, <2>1, <2>2 DEF DeleteOld
<1>6. ASSUME NEW c \in Callers, RenameTmp(c) PROVE Goal
  BY <1>6, <1>b DEF RenameTmp, CanRename, Owns
<1>7. ASSUME NEW c \in Callers, Release(c) PROVE Goal
  <2>1. /\ phase[c] = "answered" /\ phase'[c] = "idle" /\ queue # <<>> /\ Head(queue) = c
        /\ answer'[c] = NoAnswer
        /\ \A x \in Callers \ {c} : phase'[x] = phase[x] /\ answer'[x] = answer[x]
    BY <1>0, <1>7 DEF Release, Owns, MovesTo, TypeInv, TypeOK
  <2>2. \A x \in Callers : phase'[x] \in {"idle", "queued"}
    BY <1>0, <2>1 DEF OwnsLock
  <2>3. Untold'
    BY <1>0, <2>1 DEF Untold
  <2>4. QED
    BY <2>2, <2>3 DEF OwnsLock, Computed, Halfway, Told
<1>8. ASSUME NEW c \in Callers, FaultyStep(c) PROVE Goal
  BY <1>8, <1>b
     DEF FaultyStep, ReadFails, ProbeFails, Fault, WriteTmpFails, DeleteOldFails,
         RenameTmpFails, EraseFails, CanRename, LeavesTmp, FailsWithIO, Owns
<1>9. CASE Crash
  BY <1>9 DEF Crash, OwnsLock, Computed, Halfway, Untold, Told
<1>10. CASE Damage
  <2>1. \A c \in Callers : phase[c] \in {"idle", "queued"} /\ phase'[c] = phase[c]
                           /\ answer'[c] = answer[c]
    BY <1>10 DEF Damage
  <2>2. QED
    BY <1>0, <2>1 DEF OwnsLock, Computed, Halfway, Untold, Told
<1>11. CASE UNCHANGED vars
  BY <1>0, <1>11 DEF vars, OwnsLock, Computed, Halfway, Untold, Told
<1>12. ASSUME NEW c \in Callers, Probe(c) PROVE Goal
  <2>1. /\ phase[c] = "queued" /\ phase'[c] = "probed" /\ queue # <<>> /\ Head(queue) = c
        /\ \A x \in Callers \ {c} : phase'[x] = phase[x]
        /\ request[c].op = "init" /\ ~IsInitialized(file')
    BY <1>0, <1>12
       DEF Probe, Owns, MovesTo, Tidied, IsInitialized, Absent, TypeInv, TypeOK
  <2>2. QED
    BY <1>a, <1>12, <2>1 DEF Probe
<1>13. QED
  BY <1>12, <1>1, <1>2, <1>3, <1>4, <1>5, <1>6, <1>7, <1>8, <1>9, <1>10, <1>11
     DEF Next, Step

\* The initial state is one of the promise.
LEMMA InitMaps == Init => Promise!Init
BY SameData DEF Init, CurrentVault, Promise!Init

\* Every step is a step of the promise or changes nothing of it.  Load and
\* WriteTmp are invisible, and so is a Probe that finds no empty file to tidy
\* away; a save takes effect in DeleteOld, or in RenameTmp
\* when there was no file.
LEMMA StepMaps ==
    ASSUME "probe" \notin Faults
    PROVE  Serial /\ [Next]_vars => [Promise!Next]_Promise!vars
<1> SUFFICES ASSUME Serial, [Next]_vars, ~UNCHANGED Promise!vars PROVE Promise!Next
  OBVIOUS
<1> USE DEF disk, calls
<1>0. TypeInv /\ OwnsLock /\ Computed /\ Halfway /\ Untold /\ Told
  BY DEF Serial
<1>a. ASSUME NEW c \in Callers, Promise!Perform(c) \/ Promise!Fail(c)
      PROVE  Promise!Next
  BY <1>a DEF Promise!Next
\* A step after which no call is between delete and rename.
<1>b. ASSUME \A x \in Callers : phase'[x] # "cleared" PROVE CurrentVault' = file'
  BY <1>b DEF CurrentVault
<1>c. ASSUME NEW c \in Callers, Waiting(c), queue # <<>>, Head(queue) = c,
             NEW a, Finishes(c, a)
      PROVE  /\ Promise!Served(c) /\ Promise!Answered(c, a)
             /\ CurrentVault = file /\ CurrentVault' = file'
  <2>1. Promise!Served(c) /\ CurrentVault = file
    BY <1>c, OwnersTurn
  <2>2. Promise!Answered(c, a)
    BY <1>c, IsAnswered DEF Finishes
  <2>3. \A x \in Callers : phase'[x] # "cleared"
    BY <1>0, <1>c, OwnersTurn DEF Finishes, MovesTo, TypeInv, TypeOK
  <2>4. QED
    BY <1>b, <2>1, <2>2, <2>3
<1>d. ASSUME NEW c \in Callers, Waiting(c), queue # <<>>, Head(queue) = c,
             NEW error \in {"io", "invalidStorage"},
             Finishes(c, Failure(request[c], error)), UNCHANGED file
      PROVE  Promise!Next
  <2>1. PICK a : a = Failure(request[c], error)
    OBVIOUS
  <2>2. Finishes(c, a)
    BY <1>d, <2>1 DEF Finishes
  <2>3. Promise!Served(c) /\ Promise!Answered(c, a) /\ CurrentVault' = CurrentVault
    BY <1>c, <1>d, <2>2
  <2>4. Promise!Answered(c, Promise!Failure(request[c], error))
    BY <2>1, <2>3, SameData DEF Promise!Answered
  <2>5. Promise!Fail(c)
    BY <1>d, <2>3, <2>4 DEF Promise!Fail
  <2>6. QED
    BY <1>a, <2>5
<1>1. ASSUME NEW c \in Callers, Invoke(c) PROVE Promise!Next
  <2>1. PICK r \in Requests :
            /\ phase[c] = "idle"
            /\ HasRoom(CurrentVault,
                       [x \in Callers |->
                           IF x = c THEN r
                           ELSE IF Waiting(x) THEN request[x] ELSE NoRequest])
            /\ phase' = [phase EXCEPT ![c] = "queued"]
            /\ request' = [request EXCEPT ![c] = r]
            /\ UNCHANGED <<file, committed, answer>>
    BY <1>1 DEF Invoke
  <2>2. CurrentVault' = CurrentVault
    BY <1>0, <2>1 DEF CurrentVault, TypeInv, TypeOK
  <2>3. [x \in Callers |-> IF x = c THEN r
                           ELSE IF Waiting(x) THEN request[x] ELSE NoRequest]
        = [x \in Callers |-> IF x = c THEN r
                             ELSE IF Promise!Pending(x) THEN request[x]
                             ELSE Promise!NoRequest]
    BY <1>0, Places, SameData
  <2>4. Promise!HasRoom(CurrentVault,
            [x \in Callers |-> IF x = c THEN r
                               ELSE IF Promise!Pending(x) THEN request[x]
                               ELSE Promise!NoRequest])
    BY <2>1, <2>3, SameRoom
  <2>5. Promise!Ask(c, r)
    BY <1>0, <2>1, <2>2, <2>4, SameData
       DEF Promise!Ask, Waiting, Untold, TypeInv, TypeOK
  <2>6. QED
    BY <2>5 DEF Promise!Next, Promise!Invoke
<1>2. ASSUME NEW c \in Callers, Load(c) \/ WriteTmp(c) PROVE FALSE
  <2>1. /\ Waiting(c) /\ Waiting(c)'
        /\ phase[c] # "idle" /\ phase'[c] # "idle"
        /\ phase[c] # "cleared" /\ phase'[c] # "cleared"
        /\ \A x \in Callers \ {c} : phase'[x] = phase[x] /\ answer'[x] = answer[x]
        /\ UNCHANGED <<request, file, committed>>
    BY <1>0, <1>2
       DEF Load, Decides, Stages, WriteTmp, Owns, MovesTo, Waiting, TypeInv, TypeOK
  <2>2. CurrentVault' = CurrentVault
    BY <2>1 DEF CurrentVault
  <2>3. \A x \in Callers : Waiting(x)' = Waiting(x)
    BY <2>1 DEF Waiting
  <2>4. UNCHANGED Promise!vars
    BY <2>1, <2>2, <2>3 DEF Promise!vars
  <2>5. QED
    BY <2>4
<1>3. ASSUME NEW c \in Callers, Serve(c) PROVE Promise!Next
  <2>1. Waiting(c) /\ queue # <<>> /\ Head(queue) = c
    BY <1>3 DEF Serve, Decides, Owns, Waiting
  <2>2. Seen(c) = file
    BY <1>0 DEF Told, Seen
  <2>3. PICK o \in Outcomes(request[c], file) :
            /\ ~IsSave(request[c], o) /\ Finishes(c, o.answer)
            /\ file' = IF phase[c] = "probed" THEN file ELSE o.next
    BY <1>3, <2>2 DEF Serve
  <2>4. file' = o.next
    <3>1. CASE phase[c] = "probed"
      <4>1. request[c].op = "init" /\ ~IsInitialized(file)
        BY <1>0, <3>1 DEF Told
      <4>2. o.next = file
        BY <2>3, <4>1, InitKeeps
      <4>3. QED
        BY <2>3, <3>1, <4>2
    <3>2. QED
      BY <2>3, <3>1
  <2>5. o \in Promise!Outcomes(request[c], CurrentVault)
    BY <1>c, <2>1, <2>3, SameOutcomes
  <2>6. Promise!Perform(c)
    BY <1>c, <2>1, <2>3, <2>4, <2>5 DEF Promise!Perform
  <2>7. QED
    BY <1>a, <2>6
\* The probe of an init shows only when it deletes a file of length zero.
<1>f. ASSUME NEW c \in Callers, Probe(c) PROVE Promise!Next
  <2>1. /\ phase[c] = "queued" /\ phase'[c] = "probed" /\ queue # <<>> /\ Head(queue) = c
        /\ \A x \in Callers \ {c} : phase'[x] = phase[x]
        /\ request[c].op = "init" /\ file' = Tidied(file)
        /\ UNCHANGED <<request, answer>>
    BY <1>0, <1>f DEF Probe, Owns, MovesTo, TypeInv, TypeOK
  <2>2. Promise!Served(c) /\ CurrentVault = file
    BY <2>1, OwnersTurn DEF Waiting
  <2>3. \A x \in Callers : phase'[x] # "cleared"
    BY <2>1, OwnersTurn DEF Waiting
  <2>4. CurrentVault' = file'
    BY <1>b, <2>3
  <2>5. /\ \A x \in Callers : Waiting(x)' = Waiting(x)
        /\ \A x \in Callers : phase'[x] = "idle" <=> phase[x] = "idle"
    BY <2>1 DEF Waiting
  <2>6. CASE file = Empty
    <3>1. CurrentVault = Promise!Empty /\ CurrentVault' = Promise!Tidied(CurrentVault)
      BY <2>1, <2>2, <2>4, <2>6, SameData
    <3>2. Promise!Tidy(c)
      BY <2>1, <2>2, <2>5, <3>1 DEF Promise!Tidy
    <3>3. QED
      BY <3>2 DEF Promise!Next
  <2>7. CASE file # Empty
    <3>1. CurrentVault' = CurrentVault
      BY <2>1, <2>2, <2>4, <2>7 DEF Tidied
    <3>2. UNCHANGED Promise!vars
      BY <2>1, <2>5, <3>1 DEF Promise!vars
    <3>3. QED
      BY <3>2
  <2>8. QED
    BY <2>6, <2>7
\* The save takes effect in one of two steps.
<1>e. ASSUME NEW c \in Callers, phase[c] = "written", queue # <<>>, Head(queue) = c,
             NEW p \in {"cleared", "answered"}, MovesTo(c, p),
             answer' = [answer EXCEPT ![c] = answer[c]], UNCHANGED request,
             CurrentVault' = save[c]
      PROVE  Promise!Next
  <2>1. Waiting(c)
    BY <1>e DEF Waiting
  <2>2. Promise!Served(c) /\ CurrentVault = file
    BY <1>e, <2>1, OwnersTurn
  <2>3. PICK o \in Outcomes(request[c], file) :
            answer[c] = o.answer /\ save[c] = o.next
    BY <1>0, <1>e DEF Computed
  <2>4. o \in Promise!Outcomes(request[c], CurrentVault)
    BY <2>2, <2>3, SameOutcomes
  <2>5. Promise!Answered(c, o.answer)
    BY <1>e, <2>1, <2>3, IsAnswered
  <2>6. Promise!Perform(c)
    BY <1>e, <2>2, <2>3, <2>4, <2>5 DEF Promise!Perform
  <2>7. QED
    BY <1>a, <2>6
<1>4. ASSUME NEW c \in Callers, DeleteOld(c) PROVE Promise!Next
  <2>1. CurrentVault' = save[c]
    BY <1>0, <1>4 DEF DeleteOld, MovesTo, CurrentVault, TypeInv, TypeOK
  <2>2. answer' = [answer EXCEPT ![c] = answer[c]]
    BY <1>0, <1>4 DEF DeleteOld, TypeInv, TypeOK
  <2>3. QED
    BY <1>4, <1>e, <2>1, <2>2 DEF DeleteOld, Owns
<1>5. ASSUME NEW c \in Callers, RenameTmp(c) PROVE Promise!Next
  <2>1. \A x \in Callers : phase'[x] # "cleared"
    <3>1. \A x \in Callers \ {c} : phase[x] # "cleared"
      BY <1>0, <1>5, OneOwner DEF RenameTmp, CanRename, Owns
    <3>2. QED
      BY <1>0, <1>5, <3>1 DEF RenameTmp, Finishes, MovesTo, TypeInv, TypeOK
  <2>2. CurrentVault' = save[c]
    BY <1>5, <1>b, <2>1 DEF RenameTmp
  <2>3. CASE phase[c] = "written"
    BY <1>5, <1>e, <2>2, <2>3 DEF RenameTmp, CanRename, Owns, Finishes
  <2>4. CASE phase[c] = "cleared"
    <3>1. CurrentVault = save[c]
      BY <1>0, <2>4, WasSaved DEF Halfway
    <3>2. /\ phase'[c] = "answered" /\ UNCHANGED <<request, answer>>
          /\ \A x \in Callers \ {c} : phase'[x] = phase[x]
      BY <1>0, <1>5 DEF RenameTmp, Finishes, MovesTo, TypeInv, TypeOK
    <3>3. UNCHANGED Promise!vars
      BY <2>2, <2>4, <3>1, <3>2 DEF Waiting, Promise!vars
    <3>4. QED
      BY <3>3
  <2>5. QED
    BY <1>5, <2>3, <2>4 DEF RenameTmp, CanRename, Owns
<1>6. ASSUME NEW c \in Callers, Release(c) PROVE Promise!Next
  <2>1. /\ phase[c] = "answered" /\ phase'[c] = "idle"
        /\ request' = [request EXCEPT ![c] = NoRequest]
        /\ answer' = [answer EXCEPT ![c] = NoAnswer]
        /\ phase' = [phase EXCEPT ![c] = "idle"]
        /\ UNCHANGED <<file, committed>>
    BY <1>0, <1>6 DEF Release, Owns, MovesTo, TypeInv, TypeOK
  <2>2. CurrentVault' = CurrentVault
    BY <1>0, <2>1 DEF CurrentVault, TypeInv, TypeOK
  <2>3. Promise!Return(c)
    BY <1>0, <2>1, <2>2, Places, SameData
       DEF Promise!Return, Waiting, TypeInv, TypeOK
  <2>4. QED
    BY <2>3 DEF Promise!Next
<1>7. ASSUME NEW c \in Callers, FaultyStep(c) PROVE Promise!Next
  <2> USE DEF LeavesTmp, FailsWithIO, Owns, Waiting
  <2>1. CASE ReadFails(c)
    BY <1>d, <2>1 DEF ReadFails
  <2>2. CASE WriteTmpFails(c)
    BY <1>d, <2>2 DEF WriteTmpFails
  <2>3. CASE DeleteOldFails(c)
    BY <1>d, <2>3 DEF DeleteOldFails
  <2>4. CASE EraseFails(c)
    BY <1>d, <2>4 DEF EraseFails
  <2>5. CASE RenameTmpFails(c) /\ phase[c] = "written"
    BY <1>d, <2>5 DEF RenameTmpFails, CanRename
  <2>6. CASE RenameTmpFails(c) /\ phase[c] = "cleared"
    <3>1. Promise!Saved(c) /\ \A x \in Callers \ {c} : phase[x] # "cleared"
      BY <2>6, WasSaved
    <3>2. /\ phase'[c] = "answered" /\ UNCHANGED <<request, file>>
          /\ answer' = [answer EXCEPT ![c] = Failure(request[c], "io")]
          /\ \A x \in Callers \ {c} : phase'[x] = phase[x]
      BY <1>0, <2>6 DEF RenameTmpFails, Finishes, MovesTo, TypeInv, TypeOK
    <3>3. CurrentVault' = Absent
      BY <1>0, <1>b, <2>6, <3>1, <3>2 DEF Halfway
    <3>4. Promise!Lose(c)
      BY <1>0, <2>6, <3>1, <3>2, <3>3, SameData
         DEF Promise!Lose, TypeInv, TypeOK
    <3>5. QED
      BY <3>4 DEF Promise!Next
  <2>7. QED
    BY <1>7, <2>1, <2>2, <2>3, <2>4, <2>5, <2>6
       DEF FaultyStep, ProbeFails, Fault, RenameTmpFails, CanRename
<1>8. CASE Crash
  <2>1. CurrentVault' = file
    BY <1>8, <1>b DEF Crash
  <2>2. \/ CurrentVault' = CurrentVault
        \/ (\E c \in Callers : Promise!Saved(c)) /\ CurrentVault' = Absent
    <3>1. CASE \E c \in Callers : phase[c] = "cleared"
      BY <1>0, <2>1, <3>1, WasSaved DEF Halfway
    <3>2. QED
      BY <2>1, <3>1 DEF CurrentVault
  <2>3. Promise!Crash
    BY <1>8, <2>2, SameData DEF Crash, Promise!Crash
  <2>4. QED
    BY <2>3 DEF Promise!Next
<1>9. CASE Damage
  <2>1. /\ \A c \in Callers : phase[c] \in {"idle", "queued"}
        /\ UNCHANGED <<phase, request, answer>>
        /\ file' \in Damaged(file)
    BY <1>9 DEF Damage
  <2>2. CurrentVault = file /\ CurrentVault' = file'
    BY <2>1 DEF CurrentVault
  <2>3. Promise!Damage
    BY <1>0, <2>1, <2>2, Places, SameData DEF Promise!Damage, Waiting
  <2>4. QED
    BY <2>3 DEF Promise!Next
<1>10. ~UNCHANGED vars
  BY DEF vars, Promise!vars, CurrentVault, Waiting
<1>11. QED
  BY <1>1, <1>2, <1>3, <1>f, <1>4, <1>5, <1>6, <1>7, <1>8, <1>9, <1>10 DEF Next, Step

\* The storage on its file keeps the promise of an atomic, serial vault, for
\* any number of callers and any faults but a probe that fails: no update is
\* lost between calls that overlap, no answer speaks of a save that did not
\* happen, and no refused operation has an effect.  (With a failing probe init
\* replaces a vault and the promise is broken.)
THEOREM ImplementsPromise ==
    ASSUME "probe" \notin Faults
    PROVE  Spec => KeepsPromise
<1>1. Init => Promise!Init
  BY InitMaps
<1>2. Serial /\ [Next]_vars => [Promise!Next]_Promise!vars
  BY StepMaps
<1>3. Serial /\ [Next]_vars => Serial'
  BY SerialStep
<1>4. QED
  BY <1>1, <1>2, <1>3, SerialInit, PTL DEF Spec, KeepsPromise, Promise!Spec

=============================================================================
