------------------------ MODULE BiometricAccessProofs ------------------------
(* Types of BiometricAccess, and that the biometric wrap and its key stay     *)
(* together, for any number of callers and key pairs and any faults.          *)
EXTENDS BiometricAccess, TLAPS

-----------------------------------------------------------------------------
(* The inductive invariant *)

SetupStage ==
    {"check", "wipe", "generate", "authorise", "encrypt", "save", "cleanup"}

\* The stage of a call is one of its operation.
StagesFit ==
    \A c \in Callers :
        /\ stage[c] = "idle" => request[c] = NoRequest
        /\ stage[c] \in SetupStage => request[c].op = "setup"
        /\ stage[c] \in {"unwrap", "drop"} => request[c].op = "teardown"
        /\ stage[c] \in {"init", "erase", "write"} => request[c].op = stage[c]

Control == TypeOK /\ StagesFit

\* As long as none overlapped, one setup or teardown is under way at a time.
Alone ==
    "overlap" \notin events =>
        \A x, y \in Callers :
            Biometric(request[x]) /\ Biometric(request[y]) => x = y

\* A setup is about to save the master key under a key pair, and unless another
\* overlaps it this is the one that is still in the key store.
BoundFits ==
    \A c \in Callers : stage[c] = "save" =>
        /\ bound[c] # NoKeyPair
        /\ "overlap" \notin events => bound[c] = keyPair

\* While a setup takes the key away and puts another one there, or a teardown is
\* about to delete it, the vault has no wrap.
Together ==
    events \cap {"overlap", "again", "ignored"} = {} =>
        /\ wrap # NoKeyPair => keyPair = wrap
        /\ \A c \in Callers :
              stage[c] \in SetupStage \cup {"drop"} => wrap = NoKeyPair

\* A key without a wrap is one that some call will give a wrap or delete.
Accounted ==
    /\ wrap = NoKeyPair /\ keyPair # NoKeyPair
    /\ events \cap {"erased", "lost"} = {}
    /\ faults \subseteq {"io", "lose", "enrol"}
    => \E c \in Callers :
          stage[c] \in {"authorise", "encrypt", "save", "cleanup", "drop"}

-----------------------------------------------------------------------------
(* Types and control *)

CallTypes ==
    /\ stage \in [Callers -> Stage]
    /\ request \in [Callers -> Request \cup {NoRequest}]
    /\ bound \in [Callers -> KeyPairs \cup {NoKeyPair}]
    /\ \A c \in Callers : bound[c] # NoKeyPair => stage[c] \in {"save", "cleanup"}
    /\ outcome \in [Callers -> {"none", "ok", "error"}]

Flags == usable \in BOOLEAN /\ initialized \in BOOLEAN

Others ==
    /\ keyPair \in KeyPairs \cup {NoKeyPair}
    /\ wrap \in KeyPairs \cup {NoKeyPair}
    /\ queue \in Seq(Callers)
    /\ events \subseteq Event
    /\ faults \subseteq FaultKinds

QueueFits ==
    /\ \A i, j \in DOMAIN queue : queue[i] = queue[j] => i = j
    /\ \A c \in Callers :
          stage[c] \in UnderSync <=> \E i \in DOMAIN queue : queue[i] = c

\* TypeOK in four parts.
LEMMA TypeParts == TypeOK <=> CallTypes /\ Flags /\ Others /\ QueueFits
BY DEF TypeOK, CallTypes, Flags, Others, QueueFits

\* The initial state is well-typed.
LEMMA ControlInit == Init => Control
<1> SUFFICES ASSUME Init
             PROVE  CallTypes /\ Flags /\ Others /\ QueueFits /\ StagesFit
  BY TypeParts DEF Control
<1>1. CallTypes
  BY DEF Init, CallTypes, Stage
<1>2. Flags
  BY DEF Init, Flags
<1>3. Others
  BY DEF Init, Others
<1>4. StagesFit
  BY DEF Init, StagesFit, SetupStage
<1>5. QueueFits
  BY DEF Init, QueueFits, UnderSync
<1>6. QED
  BY <1>1, <1>2, <1>3, <1>4, <1>5

\* The first stage of a call fits its operation.
LEMMA FirstStageFits ==
    ASSUME NEW r \in Request
    PROVE  /\ FirstStage(r) \in {"check", "unwrap", "init", "erase", "write"}
           /\ FirstStage(r) = "check" => r.op = "setup"
           /\ FirstStage(r) = "unwrap" => r.op = "teardown"
           /\ FirstStage(r) \in {"init", "erase", "write"} => r.op = FirstStage(r)
BY DEF Request, FirstStage

\* A call that goes on in its operation keeps the types and fits its stage.
LEMMA GoesOn ==
    ASSUME Control, NEW c \in Callers, NEW s \in Stage, GoesTo(c, s),
           \/ stage[c] \in SetupStage /\ s \in SetupStage
           \/ stage[c] = "unwrap" /\ s = "drop",
           stage[c] # "save" \/ s = "cleanup", stage[c] # "cleanup"
    PROVE  CallTypes' /\ StagesFit'
BY DEF Control, TypeOK, CallTypes, StagesFit, GoesTo, SetupStage, Stage

\* So does a call that ends.
LEMMA EndsWell ==
    ASSUME Control, NEW c \in Callers, NEW result \in {"ok", "error"}, Ends(c, result)
    PROVE  CallTypes' /\ StagesFit'
BY DEF Control, TypeOK, CallTypes, StagesFit, Ends, SetupStage, Stage

\* What a failing call remembers is the kind of the fault.
LEMMA FaultType ==
    ASSUME Control, NEW kind, Fault(kind)
    PROVE  faults' \subseteq FaultKinds
BY BiometricAssumption DEF Control, TypeOK, Fault

\* Entering and leaving _sync leaves a queue of callers.
LEMMA QueueType ==
    ASSUME Control, NEW c \in Callers
    PROVE  /\ Append(queue, c) \in Seq(Callers)
           /\ queue # <<>> => Tail(queue) \in Seq(Callers)
BY DEF Control, TypeOK

\* The two flags only take Boolean values.
LEMMA FlagStep == Flags /\ [Next]_vars => Flags'
<1> SUFFICES ASSUME Flags, [Next]_vars PROVE Flags'
  OBVIOUS
<1>1. ASSUME NEW c \in Callers,
             \/ Invoke(c) \/ CheckDevice(c) \/ Wipe(c) \/ Generate(c)
             \/ Authorise(c) \/ Encrypt(c) \/ Save(c) \/ Cleanup(c) \/ Unwrap(c)
             \/ Drop(c) \/ InitVault(c) \/ EraseStorage(c) \/ WriteVault(c)
      PROVE  Flags'
  BY <1>1 DEF Flags, Invoke, CheckDevice, Wipe, Generate, Authorise, Encrypt,
              Save, Cleanup, Unwrap, Drop, InitVault, EraseStorage, WriteVault, keystore,
              vault, NoKey, VaultLost
<1>2. ASSUME NEW c \in Callers, FaultyStep(c) PROVE Flags'
  BY <1>2 DEF Flags, FaultyStep, WipeFails, GenerateFails, AuthoriseFails,
              SaveFails, CleanupFails, UnwrapFails, DropFails, StorageFails,
              WriteLosesVault, InitReplacesVault, keystore, vault, VaultLost
<1>3. ASSUME Enrol \/ Crash \/ UNCHANGED vars PROVE Flags'
  BY <1>3 DEF Flags, Enrol, Crash, vars, keystore, vault, VaultLost
<1>4. QED
  BY <1>1, <1>2, <1>3 DEF Next, Step

\* A step that neither enters nor leaves _sync keeps its queue.
LEMMA StaysOut ==
    ASSUME Control, NEW c \in Callers, queue' = queue,
           \A x \in Callers \ {c} : stage'[x] = stage[x],
           stage'[c] \in UnderSync <=> stage[c] \in UnderSync
    PROVE  QueueFits'
BY DEF Control, TypeOK, QueueFits

\* So does one that asks for the lock,
LEMMA Enters ==
    ASSUME Control, NEW c \in Callers, queue' = Append(queue, c),
           \A x \in Callers \ {c} : stage'[x] = stage[x],
           stage[c] \notin UnderSync, stage'[c] \in UnderSync
    PROVE  QueueFits'
<1>1. /\ queue \in Seq(Callers) /\ DOMAIN queue = 1..Len(queue) /\ Len(queue) \in Nat
      /\ QueueFits
  BY DEF Control, TypeOK, QueueFits
<1>2. /\ DOMAIN queue' = 1..(Len(queue) + 1)
      /\ queue'[Len(queue) + 1] = c
      /\ \A i \in 1..Len(queue) : queue'[i] = queue[i] /\ queue[i] # c
  BY <1>1 DEF QueueFits
<1>3. \A i \in DOMAIN queue' : i \in 1..Len(queue) \/ i = Len(queue) + 1
  BY <1>1, <1>2
<1>4. \A i, j \in DOMAIN queue' : queue'[i] = queue'[j] => i = j
  BY <1>1, <1>2, <1>3 DEF QueueFits
<1>5. ASSUME NEW x \in Callers
      PROVE  stage'[x] \in UnderSync <=> \E i \in DOMAIN queue' : queue'[i] = x
  <2>1. CASE x = c
    BY <1>1, <1>2, <2>1
  <2>2. CASE x # c
    BY <1>1, <1>2, <1>3, <2>2 DEF QueueFits
  <2>3. QED
    BY <2>1, <2>2
<1>6. QED
  BY <1>4, <1>5 DEF QueueFits

\* and the owner, who leaves it.
LEMMA Leaves ==
    ASSUME Control, NEW c \in Callers, queue # <<>>, Head(queue) = c,
           queue' = Tail(queue),
           \A x \in Callers \ {c} : stage'[x] = stage[x],
           stage'[c] \notin UnderSync
    PROVE  QueueFits'
<1>1. /\ queue \in Seq(Callers) /\ DOMAIN queue = 1..Len(queue) /\ Len(queue) \in Nat
      /\ Len(queue) > 0 /\ queue[1] = c /\ QueueFits
  BY DEF Control, TypeOK, QueueFits
<1>2. /\ DOMAIN queue' = 1..(Len(queue) - 1)
      /\ \A i \in 1..(Len(queue) - 1) : queue'[i] = queue[i + 1]
  BY <1>1
<1>3. \A i \in DOMAIN queue' : i + 1 \in DOMAIN queue /\ i + 1 # 1
  BY <1>1, <1>2
<1>4. \A i, j \in DOMAIN queue' : queue'[i] = queue'[j] => i = j
  <2> SUFFICES ASSUME NEW i \in DOMAIN queue', NEW j \in DOMAIN queue',
                      queue'[i] = queue'[j]
               PROVE  i = j
    OBVIOUS
  <2>1. i + 1 = j + 1
    BY <1>1, <1>2, <1>3 DEF QueueFits
  <2>2. QED
    BY <1>1, <1>2, <2>1
<1>5. ASSUME NEW x \in Callers
      PROVE  stage'[x] \in UnderSync <=> \E i \in DOMAIN queue' : queue'[i] = x
  <2>1. CASE x = c
    <3>1. \A i \in DOMAIN queue' : queue'[i] # c
      BY <1>1, <1>2, <1>3 DEF QueueFits
    <3>2. QED
      BY <2>1, <3>1
  <2>2. CASE x # c
    <3>1. \A i \in DOMAIN queue : queue[i] = x => i - 1 \in DOMAIN queue' /\ queue'[i - 1] = x
      BY <1>1, <1>2, <2>2
    <3>2. \A i \in DOMAIN queue' : queue'[i] = x => queue[i + 1] = x
      BY <1>1, <1>2
    <3>3. QED
      BY <1>1, <1>3, <2>2, <3>1, <3>2 DEF QueueFits
  <2>3. QED
    BY <2>1, <2>2
<1>6. QED
  BY <1>4, <1>5 DEF QueueFits

\* Every step keeps each caller in the queue as its stage wants it.
LEMMA QueueStep == Control /\ [Next]_vars => QueueFits'
<1> SUFFICES ASSUME Control, [Next]_vars PROVE QueueFits'
  OBVIOUS
<1>0. stage \in [Callers -> Stage]
  BY DEF Control, TypeOK
<1>a. ASSUME NEW c \in Callers, NEW s \in Stage, GoesTo(c, s)
      PROVE  /\ stage'[c] = s /\ \A x \in Callers \ {c} : stage'[x] = stage[x]
             /\ s \notin UnderSync /\ stage[c] \notin UnderSync /\ queue' = queue
                   => QueueFits'
             /\ s \in UnderSync /\ stage[c] \in UnderSync /\ queue' = queue
                   => QueueFits'
             /\ s \notin UnderSync /\ queue # <<>> /\ Head(queue) = c /\ LeavesSync
                   => QueueFits'
             /\ s \in UnderSync /\ stage[c] \notin UnderSync /\ EntersSync(c)
                   => QueueFits'
  <2>1. stage'[c] = s /\ \A x \in Callers \ {c} : stage'[x] = stage[x]
    BY <1>0, <1>a DEF GoesTo
  <2>2. QED
    BY <2>1, StaysOut, Enters, Leaves DEF LeavesSync, EntersSync
<1>b. ASSUME NEW c \in Callers, NEW result \in {"ok", "error"}, Ends(c, result)
      PROVE  /\ stage[c] \notin UnderSync /\ queue' = queue => QueueFits'
             /\ queue # <<>> /\ Head(queue) = c /\ LeavesSync => QueueFits'
  <2>1. stage'[c] \notin UnderSync /\ \A x \in Callers \ {c} : stage'[x] = stage[x]
    BY <1>0, <1>b DEF Ends, UnderSync
  <2>2. QED
    BY <2>1, StaysOut, Leaves DEF LeavesSync
<1> USE DEF At, Owns, Stage, UnderSync
<1>1. ASSUME NEW c \in Callers, Invoke(c) PROVE QueueFits'
  <2>1. PICK r \in Request :
            /\ stage[c] = "idle"
            /\ stage' = [stage EXCEPT ![c] = FirstStage(r)]
            /\ queue' = IF r.op = "setup" THEN queue ELSE Append(queue, c)
    BY <1>1 DEF Invoke
  <2>2. stage'[c] = FirstStage(r) /\ \A x \in Callers \ {c} : stage'[x] = stage[x]
    BY <1>0, <2>1
  <2>3. CASE r.op = "setup"
    BY <2>1, <2>2, <2>3, StaysOut DEF FirstStage
  <2>4. CASE r.op # "setup"
    <3>1. FirstStage(r) \in UnderSync
      BY <2>4 DEF FirstStage, Request
    <3>2. QED
      BY <2>1, <2>2, <2>4, <3>1, Enters
  <2>5. QED
    BY <2>3, <2>4
<1>2. ASSUME NEW c \in Callers, CheckDevice(c) \/ Wipe(c) \/ Cleanup(c) \/ Drop(c)
      PROVE  QueueFits'
  BY <1>2, <1>a, <1>b DEF CheckDevice, Wipe, Cleanup, Drop
<1>3. ASSUME NEW c \in Callers, Generate(c) PROVE QueueFits'
  BY <1>3, <1>a DEF Generate
<1>4. ASSUME NEW c \in Callers, Authorise(c) PROVE QueueFits'
  BY <1>4, <1>a DEF Authorise, Aborts
<1>5. ASSUME NEW c \in Callers, Encrypt(c) PROVE QueueFits'
  <2>1. CASE Aborts(c)
    BY <1>5, <2>1, <1>a DEF Encrypt, Aborts
  <2>2. CASE ~Aborts(c)
    <3>1. stage[c] = "encrypt" /\ stage' = [stage EXCEPT ![c] = "save"] /\ queue' = queue
      BY <1>5, <2>2 DEF Encrypt
    <3>2. stage'[c] = "save" /\ \A x \in Callers \ {c} : stage'[x] = stage[x]
      BY <1>0, <3>1
    <3>3. QED
      BY <3>1, <3>2, StaysOut
  <2>3. QED
    BY <2>1, <2>2
<1>6. ASSUME NEW c \in Callers, Save(c) \/ InitVault(c) \/ EraseStorage(c) \/ WriteVault(c)
      PROVE  QueueFits'
  BY <1>6, <1>b DEF Save, InitVault, EraseStorage, WriteVault
<1>7. ASSUME NEW c \in Callers, Unwrap(c) PROVE QueueFits'
  BY <1>7, <1>a, <1>b DEF Unwrap
<1>8. ASSUME NEW c \in Callers, FaultyStep(c) PROVE QueueFits'
  <2>1. CASE WipeFails(c) \/ GenerateFails(c)
    BY <2>1, <1>a DEF WipeFails, GenerateFails
  <2>2. CASE AuthoriseFails(c) \/ SaveFails(c)
    BY <2>2, <1>a DEF AuthoriseFails, SaveFails, Aborts
  <2>3. CASE CleanupFails(c) \/ DropFails(c)
    BY <2>3, <1>b DEF CleanupFails, DropFails
  <2>4. CASE UnwrapFails(c)
    BY <2>4, <1>a, <1>b DEF UnwrapFails
  <2>5. CASE StorageFails(c) \/ WriteLosesVault(c) \/ InitReplacesVault(c)
    BY <2>5, <1>b DEF StorageFails, WriteLosesVault, InitReplacesVault
  <2>6. QED
    BY <1>8, <2>1, <2>2, <2>3, <2>4, <2>5 DEF FaultyStep
<1>9. CASE Enrol \/ UNCHANGED vars
  BY <1>9 DEF Enrol, vars, calls, Control, TypeOK, QueueFits
<1>10. CASE Crash
  BY <1>10 DEF Crash, QueueFits
<1>11. QED
  BY <1>1, <1>2, <1>3, <1>4, <1>5, <1>6, <1>7, <1>8, <1>9, <1>10 DEF Next, Step

\* Every step keeps the types, and every call in a stage of its operation.
LEMMA ControlStep == Control /\ [Next]_vars => Control'
<1> SUFFICES ASSUME Control, [Next]_vars PROVE Control'
  OBVIOUS
<1> USE DEF keystore, vault, calls
<1> DEFINE Goal == CallTypes' /\ Others' /\ StagesFit'
<1>0. CallTypes /\ Others /\ StagesFit
  BY TypeParts DEF Control
<1>a. ASSUME NEW c \in Callers, queue' \in {queue, Append(queue, c)}
                                 \/ (queue # <<>> /\ queue' = Tail(queue))
      PROVE  queue' \in Seq(Callers)
  BY <1>0, <1>a, QueueType DEF Others
\* A step at a stage of the setup or of the teardown.
<1>b. ASSUME NEW s \in SetupStage \cup {"unwrap", "drop"}, NEW c \in Callers,
             At(c, s), s \notin {"save", "cleanup"},
             \/ \E n \in SetupStage : s \in SetupStage /\ GoesTo(c, n)
             \/ s = "unwrap" /\ GoesTo(c, "drop")
             \/ \E result \in {"ok", "error"} : Ends(c, result)
      PROVE  CallTypes' /\ StagesFit'
  <2>1. SetupStage \cup {"drop"} \subseteq Stage
    BY DEF SetupStage, Stage
  <2>2. stage[c] = s
    BY <1>b DEF At
  <2>3. CASE \E n \in SetupStage : s \in SetupStage /\ GoesTo(c, n)
    BY <1>b, <2>1, <2>2, <2>3, GoesOn
  <2>4. CASE s = "unwrap" /\ GoesTo(c, "drop")
    BY <1>b, <2>1, <2>2, <2>4, GoesOn
  <2>5. CASE \E result \in {"ok", "error"} : Ends(c, result)
    BY <2>5, EndsWell
  <2>6. QED
    BY <1>b, <2>3, <2>4, <2>5
<1>1. ASSUME NEW c \in Callers, Invoke(c) PROVE Goal
  <2>1. PICK r \in Request :
            /\ stage[c] = "idle"
            /\ stage' = [stage EXCEPT ![c] = FirstStage(r)]
            /\ request' = [request EXCEPT ![c] = r]
            /\ outcome' = [outcome EXCEPT ![c] = "none"]
            /\ queue' = IF r.op = "setup" THEN queue ELSE Append(queue, c)
    BY <1>1 DEF Invoke
  <2>2. UNCHANGED <<keystore, vault, bound, faults>> /\ events' \subseteq Event
    BY <1>0, <1>1 DEF Invoke, Others, Event
  <2>3. CallTypes'
    BY <1>0, <2>1, <2>2, FirstStageFits DEF CallTypes, Stage
  <2>4. StagesFit'
    BY <1>0, <2>1, FirstStageFits DEF CallTypes, StagesFit, SetupStage
  <2>5. Others'
    BY <1>0, <1>a, <2>1, <2>2 DEF Others
  <2>6. QED
    BY <2>3, <2>4, <2>5
<1>2. ASSUME NEW c \in Callers, CheckDevice(c) PROVE Goal
  BY <1>0, <1>2, <1>b DEF CheckDevice, SetupStage, Others
<1>3. ASSUME NEW c \in Callers, Wipe(c) PROVE Goal
  BY <1>0, <1>3, <1>b DEF Wipe, NoKey, SetupStage, Others
<1>4. ASSUME NEW c \in Callers, Generate(c) PROVE Goal
  <2>1. CallTypes' /\ StagesFit'
    BY <1>4, <1>b DEF Generate, SetupStage
  <2>2. queue' \in Seq(Callers)
    BY <1>4, <1>a DEF Generate, EntersSync
  <2>3. QED
    BY <1>0, <1>4, <2>1, <2>2 DEF Generate, Others
<1>5. ASSUME NEW c \in Callers, Authorise(c) PROVE Goal
  <2>1. CallTypes' /\ StagesFit'
    BY <1>5, <1>b DEF Authorise, Aborts, Owns, SetupStage
  <2>2. queue' \in Seq(Callers)
    BY <1>5, <1>a DEF Authorise, Aborts, Owns, LeavesSync
  <2>3. QED
    BY <1>0, <1>5, <2>1, <2>2 DEF Authorise, Others
<1>6. ASSUME NEW c \in Callers, Encrypt(c) PROVE Goal
  <2>1. CASE Aborts(c)
    <3>1. CallTypes' /\ StagesFit'
      BY <1>6, <1>b, <2>1 DEF Encrypt, Aborts, Owns, SetupStage
    <3>2. queue' \in Seq(Callers)
      BY <1>6, <1>a, <2>1 DEF Encrypt, Aborts, Owns, LeavesSync
    <3>3. QED
      BY <1>0, <1>6, <3>1, <3>2 DEF Encrypt, Others
  <2>2. CASE ~Aborts(c)
    <3>1. /\ stage[c] = "encrypt" /\ stage' = [stage EXCEPT ![c] = "save"]
          /\ bound' = [bound EXCEPT ![c] = keyPair]
          /\ UNCHANGED <<request, outcome, queue, keyPair, wrap, events, faults>>
      BY <1>6, <2>2 DEF Encrypt, Owns, At
    <3>2. CallTypes'
      BY <1>0, <3>1 DEF CallTypes, Others, Stage
    <3>3. StagesFit'
      BY <1>0, <3>1 DEF CallTypes, StagesFit, SetupStage
    <3>4. QED
      BY <1>0, <3>1, <3>2, <3>3 DEF Others
  <2>3. QED
    BY <2>1, <2>2
<1>7. ASSUME NEW c \in Callers, Save(c) PROVE Goal
  <2>1. CallTypes' /\ StagesFit'
    BY <1>7, EndsWell DEF Save
  <2>2. queue' \in Seq(Callers)
    BY <1>7, <1>a DEF Save, Owns, LeavesSync
  <2>3. QED
    BY <1>0, <1>7, <2>1, <2>2 DEF Save, Others, CallTypes
<1>8. ASSUME NEW c \in Callers, Cleanup(c) PROVE Goal
  BY <1>0, <1>8, EndsWell DEF Cleanup, NoKey, Others
<1>9. ASSUME NEW c \in Callers, Unwrap(c) PROVE Goal
  <2>1. CallTypes' /\ StagesFit'
    BY <1>9, <1>b DEF Unwrap, Owns, SetupStage
  <2>2. queue' \in Seq(Callers)
    BY <1>9, <1>a DEF Unwrap, Owns, LeavesSync
  <2>3. QED
    BY <1>0, <1>9, <2>1, <2>2 DEF Unwrap, Others
<1>10. ASSUME NEW c \in Callers, Drop(c) PROVE Goal
  BY <1>0, <1>10, EndsWell DEF Drop, NoKey, Others
<1>11. ASSUME NEW c \in Callers, InitVault(c) PROVE Goal
  <2>1. queue' \in Seq(Callers)
    BY <1>11, <1>a DEF InitVault, Owns, LeavesSync
  <2>2. QED
    BY <1>0, <1>11, <2>1, EndsWell DEF InitVault, Others
<1>12. ASSUME NEW c \in Callers, EraseStorage(c) PROVE Goal
  <2>1. queue' \in Seq(Callers)
    BY <1>12, <1>a DEF EraseStorage, Owns, LeavesSync
  <2>2. QED
    BY <1>0, <1>12, <2>1, EndsWell DEF EraseStorage, VaultLost, Others, Event, Strays
<1>20. ASSUME NEW c \in Callers, WriteVault(c) PROVE Goal
  <2>1. queue' \in Seq(Callers)
    BY <1>20, <1>a DEF WriteVault, Owns, LeavesSync
  <2>2. QED
    BY <1>0, <1>20, <2>1, EndsWell DEF WriteVault, Others
<1>13. ASSUME NEW c \in Callers, FaultyStep(c) PROVE Goal
  <2>1. faults' \subseteq FaultKinds
    BY <1>13, FaultType
       DEF FaultyStep, WipeFails, GenerateFails, AuthoriseFails, SaveFails,
           CleanupFails, UnwrapFails, DropFails, StorageFails, WriteLosesVault,
           InitReplacesVault
  <2>2. queue' \in Seq(Callers)
    BY <1>13, <1>a
       DEF FaultyStep, WipeFails, GenerateFails, AuthoriseFails, SaveFails,
           CleanupFails, UnwrapFails, DropFails, StorageFails, WriteLosesVault,
           InitReplacesVault, Aborts, Owns, LeavesSync
  <2>3. events' \subseteq Event
    BY <1>0, <1>13
       DEF FaultyStep, WipeFails, GenerateFails, AuthoriseFails, SaveFails,
           CleanupFails, UnwrapFails, DropFails, StorageFails, WriteLosesVault,
           InitReplacesVault, Others, Event, Strays
  <2>4. keyPair' = keyPair /\ wrap' \in {wrap, NoKeyPair}
    BY <1>13
       DEF FaultyStep, WipeFails, GenerateFails, AuthoriseFails, SaveFails,
           CleanupFails, UnwrapFails, DropFails, StorageFails, WriteLosesVault,
           InitReplacesVault, VaultLost
  <2>5. Others'
    BY <1>0, <2>1, <2>2, <2>3, <2>4 DEF Others
  <2>6. CASE WipeFails(c) \/ GenerateFails(c) \/ AuthoriseFails(c)
    BY <1>b, <2>5, <2>6
       DEF WipeFails, GenerateFails, AuthoriseFails, Aborts, Owns, SetupStage
  <2>7. CASE SaveFails(c)
    <3>1. stage[c] = "save" /\ GoesTo(c, "cleanup")
      BY <2>7 DEF SaveFails, Aborts, Owns, At
    <3>2. QED
      BY <2>5, <3>1, GoesOn DEF SetupStage, Stage
  <2>8. CASE UnwrapFails(c)
    BY <1>b, <2>5, <2>8 DEF UnwrapFails, Owns, SetupStage
  <2>9. CASE \/ CleanupFails(c) \/ DropFails(c) \/ StorageFails(c)
             \/ WriteLosesVault(c) \/ InitReplacesVault(c)
    BY <2>5, <2>9, EndsWell
       DEF CleanupFails, DropFails, StorageFails, WriteLosesVault, InitReplacesVault
  <2>10. QED
    BY <1>13, <2>6, <2>7, <2>8, <2>9 DEF FaultyStep
<1>14. ASSUME Enrol PROVE Goal
  <2>1. faults' \subseteq FaultKinds
    BY <1>14, FaultType DEF Enrol
  <2>2. QED
    BY <1>0, <1>14, <2>1 DEF Enrol, CallTypes, StagesFit, Others
<1>15. ASSUME Crash PROVE Goal
  <2>1. faults' \subseteq FaultKinds
    BY <1>15, FaultType DEF Crash
  <2>2. CallTypes'
    BY <1>15 DEF Crash, CallTypes, Stage
  <2>3. StagesFit'
    BY <1>15 DEF Crash, StagesFit, SetupStage
  <2>4. QED
    BY <1>0, <1>15, <2>1, <2>2, <2>3 DEF Crash, VaultLost, Others
<1>16. ASSUME UNCHANGED vars PROVE Goal
  BY <1>0, <1>16 DEF vars, CallTypes, StagesFit, Others
<1>17. Goal
  BY <1>1, <1>2, <1>3, <1>4, <1>5, <1>6, <1>7, <1>8, <1>9, <1>10, <1>11, <1>12,
     <1>13, <1>14, <1>15, <1>16, <1>20 DEF Next, Step
<1>18. Flags' /\ QueueFits'
  BY FlagStep, QueueStep, TypeParts DEF Control
<1>19. QED
  BY <1>17, <1>18 DEF Control, TypeOK, CallTypes, Flags, Others, QueueFits

\* Type correctness of biometric access.
THEOREM BiometricTypes == Spec => []TypeOK
<1>1. Control => TypeOK
  BY DEF Control
<1>2. QED
  BY <1>1, ControlInit, ControlStep, PTL DEF Spec

\* The event "overlap" marks the call that comes while another is under way.
LEMMA AloneStep == Control /\ Alone /\ [Next]_vars => Alone'
<1> SUFFICES ASSUME Control, Alone, [Next]_vars PROVE Alone'
  OBVIOUS
<1> USE DEF keystore, vault, calls, At, Owns, GoesTo, Ends, Fault, Control, TypeOK, StagesFit, SetupStage, Biometric, Request, NoRequest, Alone
<1>1. ASSUME NEW c \in Callers, Invoke(c) PROVE Alone'
  BY <1>1 DEF Invoke
<1>2. ASSUME NEW c \in Callers, CheckDevice(c) PROVE Alone'
  BY <1>2 DEF CheckDevice
<1>3. ASSUME NEW c \in Callers, Wipe(c) PROVE Alone'
  BY <1>3 DEF Wipe, NoKey
<1>4. ASSUME NEW c \in Callers, Generate(c) PROVE Alone'
  BY <1>4 DEF Generate
<1>5. ASSUME NEW c \in Callers, Authorise(c) PROVE Alone'
  BY <1>5 DEF Authorise, Aborts
<1>6. ASSUME NEW c \in Callers, Encrypt(c) PROVE Alone'
  BY <1>6 DEF Encrypt, Aborts
<1>7. ASSUME NEW c \in Callers, Save(c) PROVE Alone'
  BY <1>7 DEF Save
<1>8. ASSUME NEW c \in Callers, Cleanup(c) PROVE Alone'
  BY <1>8 DEF Cleanup, NoKey
<1>9. ASSUME NEW c \in Callers, Unwrap(c) PROVE Alone'
  BY <1>9 DEF Unwrap
<1>10. ASSUME NEW c \in Callers, Drop(c) PROVE Alone'
  BY <1>10 DEF Drop, NoKey
<1>11. ASSUME NEW c \in Callers, InitVault(c) PROVE Alone'
  BY <1>11 DEF InitVault
<1>12. ASSUME NEW c \in Callers, EraseStorage(c) PROVE Alone'
  BY <1>12 DEF EraseStorage, VaultLost, Strays
<1>18. ASSUME NEW c \in Callers, WriteVault(c) PROVE Alone'
  BY <1>18 DEF WriteVault
<1>13. ASSUME NEW c \in Callers, FaultyStep(c) PROVE Alone'
  <2>1. CASE WipeFails(c)
    BY <2>1 DEF WipeFails
  <2>2. CASE GenerateFails(c)
    BY <2>2 DEF GenerateFails
  <2>3. CASE AuthoriseFails(c)
    BY <2>3 DEF AuthoriseFails, Aborts
  <2>4. CASE SaveFails(c)
    BY <2>4 DEF SaveFails, Aborts, VaultLost
  <2>5. CASE CleanupFails(c)
    BY <2>5 DEF CleanupFails
  <2>6. CASE UnwrapFails(c)
    BY <2>6 DEF UnwrapFails, VaultLost, Strays
  <2>7. CASE DropFails(c)
    BY <2>7 DEF DropFails
  <2>8. CASE StorageFails(c)
    BY <2>8 DEF StorageFails
  <2>9. CASE WriteLosesVault(c)
    BY <2>9 DEF WriteLosesVault, VaultLost, Strays
  <2>10. CASE InitReplacesVault(c)
    BY <2>10 DEF InitReplacesVault, Strays
  <2>11. QED
    BY <1>13, <2>1, <2>2, <2>3, <2>4, <2>5, <2>6, <2>7, <2>8, <2>9, <2>10
       DEF FaultyStep
<1>14. CASE Enrol
  BY <1>14 DEF Enrol
<1>15. CASE Crash
  BY <1>15 DEF Crash, VaultLost
<1>16. CASE UNCHANGED vars
  BY <1>16 DEF vars
<1>17. QED
  BY <1>1, <1>2, <1>3, <1>4, <1>5, <1>6, <1>7, <1>8, <1>9, <1>10, <1>11, <1>12, <1>13, <1>14, <1>15, <1>16, <1>18
     DEF Next, Step

\* The key under the tag changes only in setups and teardowns, so it is still the
\* one that the save of a setup was encrypted with.
LEMMA BoundStep == Control /\ Alone /\ BoundFits /\ [Next]_vars => BoundFits'
<1> SUFFICES ASSUME Control, Alone, BoundFits, [Next]_vars PROVE BoundFits'
  OBVIOUS
<1> USE DEF keystore, vault, calls, At, Owns, GoesTo, Ends, Fault, Control, TypeOK, StagesFit, SetupStage, Biometric, Request, NoRequest, Alone, BoundFits
<1>1. ASSUME NEW c \in Callers, Invoke(c) PROVE BoundFits'
  BY <1>1, FirstStageFits DEF Invoke
<1>2. ASSUME NEW c \in Callers, CheckDevice(c) PROVE BoundFits'
  BY <1>2 DEF CheckDevice
<1>3. ASSUME NEW c \in Callers, Wipe(c) PROVE BoundFits'
  BY <1>3 DEF Wipe, NoKey
<1>4. ASSUME NEW c \in Callers, Generate(c) PROVE BoundFits'
  BY <1>4 DEF Generate
<1>5. ASSUME NEW c \in Callers, Authorise(c) PROVE BoundFits'
  BY <1>5 DEF Authorise, Aborts
<1>6. ASSUME NEW c \in Callers, Encrypt(c) PROVE BoundFits'
  BY <1>6 DEF Encrypt, Aborts
<1>7. ASSUME NEW c \in Callers, Save(c) PROVE BoundFits'
  BY <1>7 DEF Save
<1>8. ASSUME NEW c \in Callers, Cleanup(c) PROVE BoundFits'
  BY <1>8 DEF Cleanup, NoKey
<1>9. ASSUME NEW c \in Callers, Unwrap(c) PROVE BoundFits'
  BY <1>9 DEF Unwrap
<1>10. ASSUME NEW c \in Callers, Drop(c) PROVE BoundFits'
  BY <1>10 DEF Drop, NoKey
<1>11. ASSUME NEW c \in Callers, InitVault(c) PROVE BoundFits'
  BY <1>11 DEF InitVault
<1>12. ASSUME NEW c \in Callers, EraseStorage(c) PROVE BoundFits'
  BY <1>12 DEF EraseStorage, VaultLost, Strays
<1>18. ASSUME NEW c \in Callers, WriteVault(c) PROVE BoundFits'
  BY <1>18 DEF WriteVault
<1>13. ASSUME NEW c \in Callers, FaultyStep(c) PROVE BoundFits'
  <2>1. CASE WipeFails(c)
    BY <2>1 DEF WipeFails
  <2>2. CASE GenerateFails(c)
    BY <2>2 DEF GenerateFails
  <2>3. CASE AuthoriseFails(c)
    BY <2>3 DEF AuthoriseFails, Aborts
  <2>4. CASE SaveFails(c)
    BY <2>4 DEF SaveFails, Aborts, VaultLost
  <2>5. CASE CleanupFails(c)
    BY <2>5 DEF CleanupFails
  <2>6. CASE UnwrapFails(c)
    BY <2>6 DEF UnwrapFails, VaultLost, Strays
  <2>7. CASE DropFails(c)
    BY <2>7 DEF DropFails
  <2>8. CASE StorageFails(c)
    BY <2>8 DEF StorageFails
  <2>9. CASE WriteLosesVault(c)
    BY <2>9 DEF WriteLosesVault, VaultLost, Strays
  <2>10. CASE InitReplacesVault(c)
    BY <2>10 DEF InitReplacesVault, Strays
  <2>11. QED
    BY <1>13, <2>1, <2>2, <2>3, <2>4, <2>5, <2>6, <2>7, <2>8, <2>9, <2>10
       DEF FaultyStep
<1>14. CASE Enrol
  BY <1>14 DEF Enrol
<1>15. CASE Crash
  BY <1>15 DEF Crash, VaultLost
<1>16. CASE UNCHANGED vars
  BY <1>16 DEF vars
<1>17. QED
  BY <1>1, <1>2, <1>3, <1>4, <1>5, <1>6, <1>7, <1>8, <1>9, <1>10, <1>11, <1>12, <1>13, <1>14, <1>15, <1>16, <1>18
     DEF Next, Step

\* Whoever touches the key or sets a wrap does it while there is no wrap: the
\* events are the exceptions.
LEMMA TogetherStep == Control /\ Alone /\ BoundFits /\ Together /\ [Next]_vars => Together'
<1> SUFFICES ASSUME Control, Alone, BoundFits, Together, [Next]_vars PROVE Together'
  OBVIOUS
<1> USE DEF keystore, vault, calls, At, Owns, GoesTo, Ends, Fault, Control, TypeOK, StagesFit, SetupStage, Biometric, Request, NoRequest, Alone, BoundFits, Together
<1>1. ASSUME NEW c \in Callers, Invoke(c) PROVE Together'
  <2>1. PICK r \in Request :
            /\ stage[c] = "idle"
            /\ stage' = [stage EXCEPT ![c] = FirstStage(r)]
            /\ FirstStage(r) \in SetupStage \cup {"drop"} => r.op = "setup"
            /\ Biometric(r) /\ (\E x \in Callers : Biometric(request[x]))
                  => "overlap" \in events'
            /\ r.op = "setup" /\ wrap # NoKeyPair => "again" \in events'
    BY <1>1, FirstStageFits DEF Invoke
  <2>2. UNCHANGED <<keyPair, wrap>> /\ events \subseteq events'
    BY <1>1 DEF Invoke
  <2>3. QED
    BY <2>1, <2>2
<1>2. ASSUME NEW c \in Callers, CheckDevice(c) PROVE Together'
  BY <1>2 DEF CheckDevice
<1>3. ASSUME NEW c \in Callers, Wipe(c) PROVE Together'
  BY <1>3 DEF Wipe, NoKey
<1>4. ASSUME NEW c \in Callers, Generate(c) PROVE Together'
  BY <1>4 DEF Generate
<1>5. ASSUME NEW c \in Callers, Authorise(c) PROVE Together'
  BY <1>5 DEF Authorise, Aborts
<1>6. ASSUME NEW c \in Callers, Encrypt(c) PROVE Together'
  BY <1>6 DEF Encrypt, Aborts
<1>7. ASSUME NEW c \in Callers, Save(c) PROVE Together'
  BY <1>7 DEF Save
<1>8. ASSUME NEW c \in Callers, Cleanup(c) PROVE Together'
  BY <1>8 DEF Cleanup, NoKey
<1>9. ASSUME NEW c \in Callers, Unwrap(c) PROVE Together'
  BY <1>9 DEF Unwrap
<1>10. ASSUME NEW c \in Callers, Drop(c) PROVE Together'
  BY <1>10 DEF Drop, NoKey
<1>11. ASSUME NEW c \in Callers, InitVault(c) PROVE Together'
  BY <1>11 DEF InitVault
<1>12. ASSUME NEW c \in Callers, EraseStorage(c) PROVE Together'
  BY <1>12 DEF EraseStorage, VaultLost, Strays
<1>18. ASSUME NEW c \in Callers, WriteVault(c) PROVE Together'
  BY <1>18 DEF WriteVault
<1>13. ASSUME NEW c \in Callers, FaultyStep(c) PROVE Together'
  <2>1. CASE WipeFails(c)
    BY <2>1 DEF WipeFails
  <2>2. CASE GenerateFails(c)
    BY <2>2 DEF GenerateFails
  <2>3. CASE AuthoriseFails(c)
    BY <2>3 DEF AuthoriseFails, Aborts
  <2>4. CASE SaveFails(c)
    BY <2>4 DEF SaveFails, Aborts, VaultLost
  <2>5. CASE CleanupFails(c)
    BY <2>5 DEF CleanupFails
  <2>6. CASE UnwrapFails(c)
    <3>1. CASE Ends(c, "error") /\ UNCHANGED <<vault, events>>
      BY <2>6, <3>1 DEF UnwrapFails
    <3>2. CASE GoesTo(c, "drop") /\ UNCHANGED vault /\ events' = Strays("ignored")
      <4>1. CASE wrap # NoKeyPair
        BY <3>2, <4>1 DEF Strays
      <4>2. CASE wrap = NoKeyPair
        <5>1. UNCHANGED <<wrap, events>>
          BY <3>2, <4>2 DEF Strays
        <5>2. QED
          BY <4>2, <5>1
      <4>3. QED
        BY <4>1, <4>2
    <3>3. CASE GoesTo(c, "drop") /\ VaultLost /\ UNCHANGED events
      <4>1. wrap' = NoKeyPair
        BY <3>3 DEF VaultLost
      <4>2. QED
        BY <4>1
    <3>4. QED
      BY <2>6, <3>1, <3>2, <3>3 DEF UnwrapFails
  <2>7. CASE DropFails(c)
    BY <2>7 DEF DropFails
  <2>8. CASE StorageFails(c)
    BY <2>8 DEF StorageFails
  <2>9. CASE WriteLosesVault(c)
    BY <2>9 DEF WriteLosesVault, VaultLost, Strays
  <2>10. CASE InitReplacesVault(c)
    BY <2>10 DEF InitReplacesVault, Strays
  <2>11. QED
    BY <1>13, <2>1, <2>2, <2>3, <2>4, <2>5, <2>6, <2>7, <2>8, <2>9, <2>10
       DEF FaultyStep
<1>14. CASE Enrol
  BY <1>14 DEF Enrol
<1>15. CASE Crash
  BY <1>15 DEF Crash, VaultLost
<1>16. CASE UNCHANGED vars
  BY <1>16 DEF vars
<1>17. QED
  BY <1>1, <1>2, <1>3, <1>4, <1>5, <1>6, <1>7, <1>8, <1>9, <1>10, <1>11, <1>12, <1>13, <1>14, <1>15, <1>16, <1>18
     DEF Next, Step

\* A call that takes a wrap away, or puts a key there, has its cleanup to come; a
\* save brings the wrap.
LEMMA AccountedStep == Control /\ BoundFits /\ Accounted /\ [Next]_vars => Accounted'
<1> SUFFICES ASSUME Control, BoundFits, Accounted, [Next]_vars PROVE Accounted'
  OBVIOUS
<1> USE DEF keystore, vault, calls, At, Owns, GoesTo, Ends, Fault, Control, TypeOK, StagesFit, SetupStage, Biometric, Request, NoRequest, BoundFits, Accounted
<1>1. ASSUME NEW c \in Callers, Invoke(c) PROVE Accounted'
  BY <1>1 DEF Invoke
<1>2. ASSUME NEW c \in Callers, CheckDevice(c) PROVE Accounted'
  BY <1>2 DEF CheckDevice
<1>3. ASSUME NEW c \in Callers, Wipe(c) PROVE Accounted'
  BY <1>3 DEF Wipe, NoKey
<1>4. ASSUME NEW c \in Callers, Generate(c) PROVE Accounted'
  BY <1>4 DEF Generate
<1>5. ASSUME NEW c \in Callers, Authorise(c) PROVE Accounted'
  BY <1>5 DEF Authorise, Aborts
<1>6. ASSUME NEW c \in Callers, Encrypt(c) PROVE Accounted'
  BY <1>6 DEF Encrypt, Aborts
<1>7. ASSUME NEW c \in Callers, Save(c) PROVE Accounted'
  BY <1>7 DEF Save
<1>8. ASSUME NEW c \in Callers, Cleanup(c) PROVE Accounted'
  BY <1>8 DEF Cleanup, NoKey
<1>9. ASSUME NEW c \in Callers, Unwrap(c) PROVE Accounted'
  BY <1>9 DEF Unwrap
<1>10. ASSUME NEW c \in Callers, Drop(c) PROVE Accounted'
  BY <1>10 DEF Drop, NoKey
<1>11. ASSUME NEW c \in Callers, InitVault(c) PROVE Accounted'
  BY <1>11 DEF InitVault
<1>12. ASSUME NEW c \in Callers, EraseStorage(c) PROVE Accounted'
  BY <1>12 DEF EraseStorage, VaultLost, Strays
<1>18. ASSUME NEW c \in Callers, WriteVault(c) PROVE Accounted'
  BY <1>18 DEF WriteVault
<1>13. ASSUME NEW c \in Callers, FaultyStep(c) PROVE Accounted'
  <2>1. CASE WipeFails(c)
    BY <2>1 DEF WipeFails
  <2>2. CASE GenerateFails(c)
    BY <2>2 DEF GenerateFails
  <2>3. CASE AuthoriseFails(c)
    BY <2>3 DEF AuthoriseFails, Aborts
  <2>4. CASE SaveFails(c)
    BY <2>4 DEF SaveFails, Aborts, VaultLost
  <2>5. CASE CleanupFails(c)
    BY <2>5 DEF CleanupFails
  <2>6. CASE UnwrapFails(c)
    <3>1. CASE GoesTo(c, "drop")
      <4>1. stage'[c] = "drop"
        BY <3>1
      <4>2. QED
        BY <4>1
    <3>2. CASE Ends(c, "error") /\ UNCHANGED <<vault, events>>
      <4>1. UNCHANGED <<keyPair, wrap, events>> /\ faults \subseteq faults'
        BY <2>6, <3>2 DEF UnwrapFails
      <4>2. stage[c] = "unwrap" /\ \A x \in Callers \ {c} : stage'[x] = stage[x]
        BY <2>6, <3>2 DEF UnwrapFails
      <4>3. QED
        BY <4>1, <4>2
    <3>3. QED
      BY <2>6, <3>1, <3>2 DEF UnwrapFails
  <2>7. CASE DropFails(c)
    BY <2>7 DEF DropFails
  <2>8. CASE StorageFails(c)
    BY <2>8 DEF StorageFails
  <2>9. CASE WriteLosesVault(c)
    BY <2>9 DEF WriteLosesVault, VaultLost, Strays
  <2>10. CASE InitReplacesVault(c)
    BY <2>10 DEF InitReplacesVault, Strays
  <2>11. QED
    BY <1>13, <2>1, <2>2, <2>3, <2>4, <2>5, <2>6, <2>7, <2>8, <2>9, <2>10
       DEF FaultyStep
<1>14. CASE Enrol
  BY <1>14 DEF Enrol
<1>15. CASE Crash
  BY <1>15 DEF Crash, VaultLost
<1>16. CASE UNCHANGED vars
  BY <1>16 DEF vars
<1>17. QED
  BY <1>1, <1>2, <1>3, <1>4, <1>5, <1>6, <1>7, <1>8, <1>9, <1>10, <1>11, <1>12, <1>13, <1>14, <1>15, <1>16, <1>18
     DEF Next, Step

-----------------------------------------------------------------------------
(* Safety *)

Fits == Control /\ Alone /\ BoundFits /\ Together /\ Accounted

\* Initially there is neither key nor wrap nor call.
LEMMA FitsInit == Init => Fits
<1> SUFFICES ASSUME Init PROVE Alone /\ BoundFits /\ Together /\ Accounted
  BY ControlInit DEF Fits
<1>1. QED
  BY DEF Init, Alone, BoundFits, Together, Accounted, Biometric, NoRequest, SetupStage

\* The invariant is inductive.
LEMMA FitsStep == Fits /\ [Next]_vars => Fits'
BY ControlStep, AloneStep, BoundStep, TogetherStep, AccountedStep DEF Fits

\* A wrap without its key comes from a setup or teardown that overlapped another,
\* a setup of what was enabled, or a deleteWrap that answered false, and from
\* nothing else: no fault, no crash, no refusal.
THEOREM WrapKeepsItsKey == Spec => []WrapHasKey
<1>1. Fits => WrapHasKey
  BY DEF Fits, Together, WrapHasKey
<1>2. QED
  BY <1>1, FitsInit, FitsStep, PTL DEF Spec

\* No setup or teardown leaves a key behind without a wrap, however many overlap
\* and whatever storage call fails: with the key store working, a key without a
\* wrap is one that a crash left, or an erase, a lost save of another call or an
\* init that replaced the vault.
THEOREM NoKeyIsLeftBehind == Spec => []NoStrayKey
<1>1. Fits => NoStrayKey
  BY DEF Fits, Accounted, NoStrayKey
<1>2. QED
  BY <1>1, FitsInit, FitsStep, PTL DEF Spec

\* A setup that returns and that no other overlapped has wrapped the master key
\* under the key that is in the key store.
THEOREM SetupsDeliver == Spec => SetupDelivers
<1> DEFINE Delivers == \A c \in Callers :
      /\ request[c].op = "setup" /\ stage'[c] = "idle" /\ outcome'[c] = "ok"
      /\ "overlap" \notin events
      => wrap' = keyPair' /\ wrap' # NoKeyPair
<1>1. Fits /\ [Next]_vars => [Delivers]_vars
  <2> SUFFICES ASSUME Fits, [Next]_vars, NEW c \in Callers,
                      request[c].op = "setup", stage'[c] = "idle", outcome'[c] = "ok",
                      "overlap" \notin events, ~UNCHANGED vars
               PROVE  wrap' = keyPair' /\ wrap' # NoKeyPair
    OBVIOUS
  <2>0. Control /\ BoundFits /\ stage[c] \in SetupStage
    <3>1. Control /\ BoundFits
      BY DEF Fits
    <3>2. stage[c] \in Stage /\ stage[c] # "idle"
      BY <3>1 DEF Control, TypeOK, StagesFit, NoRequest
    <3>3. stage[c] \notin {"unwrap", "drop", "init", "erase", "write"}
      BY <3>1 DEF Control, StagesFit
    <3>4. QED
      BY <3>1, <3>2, <3>3 DEF Stage, SetupStage
\* The steps that end a setup with "ok".
  <2>1. Save(c)
    <3> USE DEF Control, TypeOK, SetupStage
    <3>1. ASSUME NEW x \in Callers, Invoke(x) PROVE FALSE
      BY <2>0, <3>1 DEF Invoke
    <3>2. ASSUME NEW x \in Callers, NEW s \in Stage \ {"idle"}, GoesTo(x, s) PROVE FALSE
      BY <2>0, <3>2 DEF GoesTo
    <3>3. ASSUME NEW x \in Callers, NEW result \in {"ok", "error"}, Ends(x, result)
          PROVE  x = c /\ result = "ok"
      BY <2>0, <3>3 DEF Ends
    <3>4. ASSUME NEW x \in Callers, Encrypt(x) PROVE FALSE
      <4>1. ~Aborts(x)
        BY <3>2 DEF Aborts, Stage
      <4>2. QED
        BY <2>0, <3>4, <4>1 DEF Encrypt
    <3>5. ASSUME NEW x \in Callers,
                 \/ CheckDevice(x) \/ Wipe(x) \/ Generate(x) \/ Authorise(x)
                 \/ Cleanup(x) \/ Unwrap(x)
          PROVE  FALSE
      BY <3>2, <3>3, <3>5
         DEF CheckDevice, Wipe, Generate, Authorise, Cleanup, Unwrap, Aborts, Stage
    <3>6. ASSUME NEW x \in Callers,
                 Drop(x) \/ InitVault(x) \/ EraseStorage(x) \/ WriteVault(x)
          PROVE  FALSE
      BY <2>0, <3>3, <3>6 DEF Drop, InitVault, EraseStorage, WriteVault, Owns, At
    <3>7. ASSUME NEW x \in Callers, FaultyStep(x) PROVE FALSE
      <4>1. CASE InitReplacesVault(x)
        BY <2>0, <3>3, <4>1 DEF InitReplacesVault, Owns, At
      <4>2. CASE ~InitReplacesVault(x)
        BY <3>2, <3>3, <3>7, <4>2
           DEF FaultyStep, WipeFails, GenerateFails, AuthoriseFails, SaveFails,
               CleanupFails, UnwrapFails, DropFails, StorageFails,
               WriteLosesVault, Aborts, Stage
      <4>3. QED
        BY <4>1, <4>2
    <3>8. ~Enrol /\ ~Crash
      BY <2>0 DEF Enrol, Crash, calls
    <3>9. PICK x \in Callers : Save(x)
      BY <3>1, <3>4, <3>5, <3>6, <3>7, <3>8 DEF Next, Step
    <3>10. QED
      BY <3>3, <3>9 DEF Save
  <2>2. wrap' = bound[c] /\ keyPair' = keyPair /\ stage[c] = "save"
    BY <2>1 DEF Save, Owns, At, keystore
  <2>3. QED
    BY <2>0, <2>2 DEF BoundFits
<1>2. QED
  BY <1>1, FitsInit, FitsStep, PTL DEF Spec, SetupDelivers

=============================================================================
