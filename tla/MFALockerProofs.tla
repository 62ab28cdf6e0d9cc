--------------------------- MODULE MFALockerProofs ---------------------------
(* What MFALocker keeps for any number of callers, any requests and any       *)
(* faults: types, that it unlocks for nobody but a holder of the vault's key, *)
(* that a quiet lock clears the cache, and that the cache is the vault's.     *)
EXTENDS MFALocker, StorageDataProofs

-----------------------------------------------------------------------------
(* The inductive invariant *)

AtHead(c) == queue # <<>> /\ Head(queue) = c

Asks == \A c \in Callers : call[c] # "idle" => asked[c] \in StorageRequests

\* Only the call that holds _sync has a call of the storage, and it is the one
\* of its stage.
OwnerCalls ==
    \A c \in Callers :
        call[c] # "idle" => Owns(c) /\ asked[c] = StorageRequest(c)

\* What the stage of a call says of its request, of _sync and of the locker.
StagesFit ==
    \A c \in Callers :
        /\ stage[c] # "idle" => request[c] \in Requests
        /\ stage[c] = "initProbe" => request[c].op = "init"
        /\ stage[c] \in {"probe", "unlock"} => request[c].op # "erase"
        /\ stage[c] = "unlock" => AtHead(c) /\ lockState = "locked"
        /\ stage[c] = "operate" /\ request[c].op # "erase" => AtHead(c)

\* Without a race, a call that is past the unlocking finds the locker unlocked.
Quiet ==
    ~raced =>
        /\ lockState = "locked" \/ closed => metaCache = {}
        /\ orphans = {}
        /\ closed => Idle
        /\ \A c \in Callers :
              stage[c] = "operate" /\ request[c].op \notin {"init", "erase"}
                 => lockState = "unlocked"

\* What an answer "ok" says of the vault until the call acts on it.
AnswersFit ==
    \A c \in Callers : call[c] = "performed" /\ OK(c) =>
        /\ stage[c] = "unlock"
              => /\ told[c].data \subseteq Meta
                 /\ vault.kind = "data"
                 /\ vault.sealedBy \in MasterKeys(vault, request[c].cred)
        /\ stage[c] = "operate" /\ request[c].op = "addEntry"
              => told[c].data \subseteq [id : Ids]

Known(drops) == {m \in Metas(vault) : m.id \notin drops}

Operating(c, op) == stage[c] = "operate" /\ request[c].op = op

Erased(c) == call[c] = "performed" /\ Operating(c, "erase") /\ OK(c)

\* The cache fits the vault once the call has acted on its answer.
WillFit(c) ==
    /\ Operating(c, "addEntry") /\ OK(c)
          => \A d \in told[c].data :
                Without(d.id) \cup {[id |-> d.id, meta |-> request[c].input.meta]}
                   = Known(dropped \ {d.id})
    /\ Operating(c, "updateEntry") /\ OK(c) /\ request[c].meta # NoText
          => Without(request[c].id)
                  \cup {[id |-> request[c].id, meta |-> request[c].meta]}
                = Known(dropped \ {request[c].id})
    /\ Operating(c, "deleteEntry") /\ OK(c)
          => Without(request[c].id) = Known(dropped \ {request[c].id})
    /\ Operating(c, "init") => ~OK(c)
    /\ \/ Operating(c, "addEntry") /\ OK(c)
       \/ Operating(c, "updateEntry") /\ OK(c) /\ request[c].meta # NoText
       \/ Operating(c, "deleteEntry") /\ OK(c)
       \/ Operating(c, "erase") /\ OK(c)
       \/ metaCache = Known(dropped)

\* The cache of an unlocked locker is the vault's, or will be.
CacheFits ==
    faults \subseteq {"crash", "io"} =>
        /\ \A c \in Callers :
              call[c] = "performed" /\ stage[c] = "unlock" /\ OK(c)
                 => told[c].data = Metas(vault)
        /\ lockState = "unlocked" /\ ~closed =>
              /\ vault.kind = "data" \/ \E c \in Callers : Erased(c)
              /\ Unseen \/ metaCache = Known(dropped)
              /\ \A c \in Callers : call[c] = "performed" => WillFit(c)

-----------------------------------------------------------------------------
(* What the requests of the locker do to the metas of the vault *)

\* The locker asks of the storage only requests that it takes.
LEMMA StorageRequestsType == StorageRequests \subseteq Request
<1>1. Requests \subseteq LockerRequest /\ LockerRequest \subseteq Request
  BY LockerAssumption DEF LockerRequest
<1>2. Probe \in Request
  BY DEF Probe, Request
<1>3. ASSUME NEW r \in Requests, r.op # "erase" PROVE Unlock(r.cred) \in Request
  <2>1. r \in Request /\ r.op \notin {"isInitialized", "isBiometricEnabled",
                                      "salt", "lockTimeout"}
    BY <1>3, LockerAssumption DEF LockerRequest
  <2>2. r.cred \in CipherFunc
    BY <1>3, <2>1 DEF Request
  <2>3. QED
    BY <2>2 DEF Unlock, Request
<1>4. QED
  BY <1>1, <1>2, <1>3 DEF StorageRequests

\* A file that is no vault has no metas.
LEMMA MetasType == ASSUME NEW d \in Disk PROVE Metas(d) \subseteq Meta
<1>1. CASE d.kind = "data"
  <2>1. d \in Vault
    BY <1>1 DEF Disk, Absent, Empty, Garbage
  <2>2. QED
    BY <1>1, <2>1 DEF Metas, Meta, Vault, StorageEntry
<1>2. CASE d.kind # "data"
  BY <1>2 DEF Metas
<1>3. QED
  BY <1>1, <1>2

\* An answer other than "ok" leaves a vault alone; so do the reads, the probe
\* and whatever changes the wraps, the salt or the timeout.
LEMMA MetasKept ==
    ASSUME NEW r \in Request, NEW d \in Disk, NEW o \in Outcomes(r, d),
           \/ o.answer.status # "ok"
           \/ r.op \in {"isInitialized", "readAllMeta", "readValue",
                        "addOrReplaceWrap", "deleteWrap", "updateLockTimeout"}
    PROVE  Metas(o.next) = Metas(d) /\ (d.kind = "data" => o.next.kind = "data")
<1>1. CASE ~(r.op \in Saving /\ o.answer.status = "ok")
  <2>1. o.next = d \/ o.next = Tidied(d)
    BY <1>1, OutcomeSteps
  <2>2. Metas(Tidied(d)) = Metas(d)
    <3>1. Metas(Empty) = {} /\ Metas(Absent) = {}
      BY DEF Metas, Empty, Absent
    <3>2. Tidied(d) = d \/ (d = Empty /\ Tidied(d) = Absent)
      BY DEF Tidied
    <3>3. QED
      BY <3>1, <3>2
  <2>3. d.kind = "data" => Tidied(d) = d
    BY DEF Tidied, Empty
  <2>4. QED
    BY <2>1, <2>2, <2>3
<1>2. CASE r.op \in Saving /\ o.answer.status = "ok"
  <2>1. r.op \in {"addOrReplaceWrap", "deleteWrap", "updateLockTimeout"}
    BY <1>2 DEF Saving
  <2>2. PICK mk \in Keys, n \in Vault :
            /\ n \in Changed(r, d, mk) /\ d \in Vault /\ d.kind = "data"
            /\ o.next.kind = "data" /\ o.next.entries = n.entries
    BY <1>2, <2>1, SaveSteps
  <2>3. n.entries = d.entries
    BY <2>1, <2>2 DEF Changed, ReplaceWrap, DropWrap, Vault
  <2>4. QED
    BY <2>2, <2>3 DEF Metas
<1>3. QED
  BY <1>1, <1>2

\* An init that is answered "ok" has found no vault.
LEMMA InitFindsNone ==
    ASSUME NEW r \in Request, NEW d \in Disk, NEW o \in Outcomes(r, d),
           r.op = "init", o.answer.status = "ok"
    PROVE  d.kind # "data"
BY SaveIsAuthorised DEF Saving

\* readAllMeta answers the metas of the vault to who holds its key.
LEMMA MetasRead ==
    ASSUME NEW r \in Request, NEW d \in Disk, NEW o \in Outcomes(r, d),
           r.op = "readAllMeta", o.answer.status = "ok"
    PROVE  /\ o.answer.data = Metas(d)
           /\ o.next = d /\ d.kind = "data"
           /\ d.sealedBy \in MasterKeys(d, r.cred)
<1>1. Check(r, d) = "ok"
  BY OkIsGranted
<1>2. d \in Vault /\ d.sealedBy \in MasterKeys(d, r.cred)
  BY <1>1, GrantedBySeal DEF Keyed
<1>3. d.kind = "data"
  BY <1>2 DEF Vault
<1>4. o # Outcome(Failure(r, "biometric"), d)
  BY FailureNotOk DEF Outcome, Status
<1>5. o = Outcome(Success(r, d, d), d)
  BY <1>1, <1>4 DEF Outcomes, Kept, Saving
<1>6. o.next = d
  BY <1>5 DEF Outcome
<1>7. o.answer.data = Metas(d)
  BY <1>3, <1>5 DEF Outcome, Success, Answer, Metas
<1>8. QED
  BY <1>2, <1>3, <1>6, <1>7

\* addEntry adds the meta it was given, under an id that is answered and that
\* no entry had.
LEMMA MetaAdded ==
    ASSUME NEW r \in Request, NEW d \in Disk, NEW o \in Outcomes(r, d),
           r.op = "addEntry", o.answer.status = "ok"
    PROVE  d.kind = "data" /\ o.next.kind = "data" /\
           \E id \in Ids :
              /\ o.answer.data = {[id |-> id]}
              /\ \A m \in Metas(d) : m.id # id
              /\ Metas(o.next) = Metas(d) \cup {[id |-> id, meta |-> r.input.meta]}
<1>1. PICK mk \in Keys, n \in Vault :
          /\ n \in Changed(r, d, mk) /\ d \in Vault /\ d.kind = "data"
          /\ o.next.kind = "data" /\ o.next.entries = n.entries
          /\ o.answer = Success(r, d, o.next)
  BY SaveSteps DEF Saving
<1>2. PICK f \in Assigned({r.input}, {e.id : e \in d.entries}) :
          n = [d EXCEPT !.entries = @ \cup Encrypted(f, mk)]
  BY <1>1 DEF Changed, AddedEntries
<1> DEFINE id == f[r.input]
           e0 == [id |-> id, meta |-> r.input.meta, value |-> r.input.value, mk |-> mk]
<1>3. n.entries = d.entries \cup {e0}
  <2>1. Encrypted(f, mk) = {e0}
    BY DEF Encrypted, Assigned
  <2>2. QED
    BY <1>1, <1>2, <2>1 DEF Vault
<1>4. id \in Ids
  BY DEF Assigned
<1>5. \A e \in d.entries : e.id # id
  <2>1. ~HasId(d, r.input.id)
    BY OwnChecks, OkIsGranted
  <2>2. QED
    BY <1>1, <2>1 DEF Assigned, HasId
<1>6. e0 \notin d.entries /\ e0.id = id /\ e0.meta = r.input.meta
  BY <1>5
<1> HIDE DEF e0, id
<1>7. o.answer.data = {[id |-> id]}
  <2>1. o.next.entries \ d.entries = {e0}
    BY <1>1, <1>3, <1>6
  <2>2. o.answer.data = {[id |-> e.id] : e \in o.next.entries \ d.entries}
    BY <1>1 DEF Success, Answer
  <2>3. QED
    BY <1>6, <2>1, <2>2
<1>8. Metas(o.next) = Metas(d) \cup {[id |-> id, meta |-> r.input.meta]}
  BY <1>1, <1>3, <1>6 DEF Metas
<1>9. \A m \in Metas(d) : m.id # id
  BY <1>1, <1>5 DEF Metas
<1>10. QED
  BY <1>1, <1>4, <1>7, <1>8, <1>9

\* updateEntry replaces the meta of its entry, if it was given one.
LEMMA MetaUpdated ==
    ASSUME NEW r \in Request, NEW d \in Disk, NEW o \in Outcomes(r, d),
           r.op = "updateEntry", o.answer.status = "ok"
    PROVE  /\ d.kind = "data" /\ o.next.kind = "data"
           /\ Metas(o.next) = IF r.meta = NoText THEN Metas(d)
                              ELSE {m \in Metas(d) : m.id # r.id}
                                     \cup {[id |-> r.id, meta |-> r.meta]}
<1>1. PICK mk \in Keys, n \in Vault :
          /\ n \in Changed(r, d, mk) /\ d \in Vault /\ d.kind = "data"
          /\ o.next.kind = "data" /\ o.next.entries = n.entries
  BY SaveSteps DEF Saving
<1>2. n.entries = {e \in d.entries : e.id # r.id}
                    \cup {Updated(e, r) : e \in {x \in d.entries : x.id = r.id}}
  BY <1>1 DEF Changed, UpdateIn, Vault
<1>3. PICK old \in d.entries : old.id = r.id
  <2>1. UpdateEntryCheck(r, d) = "ok"
    BY OkIsGranted DEF Check
  <2>2. HasId(d, r.id)
    BY <2>1 DEF UpdateEntryCheck, Guarded, Ensure
  <2>3. QED
    BY <2>2 DEF HasId
<1>4. \A e \in d.entries :
         /\ Updated(e, r).id = e.id
         /\ Updated(e, r).meta = IF r.meta = NoText THEN e.meta ELSE r.meta
  BY <1>1 DEF Updated, Vault, StorageEntry
<1>5. Metas(o.next) = {[id |-> e.id, meta |-> e.meta] : e \in n.entries}
  BY <1>1 DEF Metas
<1>6. Metas(d) = {[id |-> e.id, meta |-> e.meta] : e \in d.entries}
  BY <1>1 DEF Metas
<1>7. CASE r.meta = NoText
  BY <1>1, <1>2, <1>4, <1>5, <1>6, <1>7
<1>8. CASE r.meta # NoText
  BY <1>1, <1>2, <1>3, <1>4, <1>5, <1>6, <1>8
<1>9. QED
  BY <1>1, <1>7, <1>8

\* deleteEntry takes the meta of its entry away.
LEMMA MetaDeleted ==
    ASSUME NEW r \in Request, NEW d \in Disk, NEW o \in Outcomes(r, d),
           r.op = "deleteEntry", o.answer.status = "ok"
    PROVE  /\ d.kind = "data" /\ o.next.kind = "data"
           /\ Metas(o.next) = {m \in Metas(d) : m.id # r.id}
<1>1. PICK mk \in Keys, n \in Vault :
          /\ n \in Changed(r, d, mk) /\ d \in Vault /\ d.kind = "data"
          /\ o.next.kind = "data" /\ o.next.entries = n.entries
  BY SaveSteps DEF Saving
<1>2. n.entries = {e \in d.entries : e.id # r.id}
  BY <1>1 DEF Changed, DropEntry, Vault
<1>3. QED
  BY <1>1, <1>2 DEF Metas

-----------------------------------------------------------------------------
(* The data of the storage *)

\* The instance of the promise has the data of StorageData.
LEMMA SameConstants ==
    /\ Storage!NoRequest = NoRequest /\ Storage!NoAnswer = NoAnswer
    /\ Storage!Absent = Absent /\ Storage!Saving = Saving
    /\ Storage!Disk = Disk /\ Storage!Answers = Answers
    /\ Storage!Empty = Empty /\ Storage!Tidied(Empty) = Absent
    /\ \A r, error : Storage!Failure(r, error) = Failure(r, error)
    /\ \A d : Storage!Damaged(d) = Damaged(d)
BY DEF NoRequest, Storage!NoRequest, NoAnswer, Storage!NoAnswer, Answer,
  Storage!Answer, Absent, Storage!Absent, Empty, Storage!Empty, Garbage,
  Storage!Garbage, Saving, Storage!Saving, Vault, Storage!Vault,
  StorageEntry, Storage!StorageEntry, KeyWrap, Storage!KeyWrap,
  CipherFunc, Storage!CipherFunc, Disk, Storage!Disk, Answers,
  Storage!Answers, Status, Storage!Status, AnswerData,
  Storage!AnswerData, Failure, Storage!Failure, Damaged, Storage!Damaged,
  Storage!Tidied

\* Its operations have the same outcomes.
LEMMA SameOutcomes ==
    ASSUME NEW r, NEW d PROVE Storage!Outcomes(r, d) = Outcomes(r, d)
BY DEF Origin, Storage!Origin, Absent, Storage!Absent, Empty, Storage!Empty,
  Ensure, Storage!Ensure, IsInitialized, Storage!IsInitialized,
  LoadCheck, Storage!LoadCheck, MasterKeys, Storage!MasterKeys, KeyCheck,
  Storage!KeyCheck, Guarded, Storage!Guarded, HasId, Storage!HasId,
  Origins, Storage!Origins, NoDuplicateIds, Storage!NoDuplicateIds,
  DecryptCheck, Storage!DecryptCheck, InitCheck, Storage!InitCheck,
  DeleteWrapCheck, Storage!DeleteWrapCheck, AddEntryCheck,
  Storage!AddEntryCheck, UpdateEntryCheck, Storage!UpdateEntryCheck,
  DeleteEntryCheck, Storage!DeleteEntryCheck, UpdateLockTimeoutCheck,
  Storage!UpdateLockTimeoutCheck, ReadAllMetaCheck,
  Storage!ReadAllMetaCheck, ReadValueCheck, Storage!ReadValueCheck,
  Check, Storage!Check, Assigned, Storage!Assigned, Encrypted,
  Storage!Encrypted, Sealed, Storage!Sealed, Created, Storage!Created,
  InitSaves, Storage!InitSaves, ReplaceWrap, Storage!ReplaceWrap,
  DropWrap, Storage!DropWrap, AddedEntries, Storage!AddedEntries,
  Updated, Storage!Updated, UpdateIn, Storage!UpdateIn, DropEntry,
  Storage!DropEntry, Changed, Storage!Changed, Saves, Storage!Saves,
  Saving, Storage!Saving, Answer, Storage!Answer, Failure,
  Storage!Failure, Success, Storage!Success, Tidied, Storage!Tidied,
  Kept, Storage!Kept, Prompts, Storage!Prompts, Outcome, Storage!Outcome, Outcomes,
  Storage!Outcomes

-----------------------------------------------------------------------------
(* Types and control *)

Control == TypeOK /\ Asks /\ OwnerCalls /\ StagesFit /\ AnswersFit

\* What failing and being idle answer.
LEMMA AnswerTypes ==
    /\ NoAnswer \in Answers
    /\ \A r : \A error \in {"io", "invalidStorage"} :
          Failure(r, error) \in Answers /\ Failure(r, error).status # "ok"
<1>1. NoAnswer \in Answers
  BY DEF NoAnswer, Answer, Answers, Status
<1>2. ASSUME NEW r, NEW error \in {"io", "invalidStorage"}
      PROVE  Failure(r, error) \in Answers /\ Failure(r, error).status # "ok"
  BY FailureType, FailureNotOk DEF Status
<1>3. QED
  BY <1>1, <1>2

\* The initial state.
LEMMA ControlInit == Init => Control
<1> SUFFICES ASSUME Init PROVE Control
  OBVIOUS
<1> USE DEF Init, Storage!Init
<1>1. TypeOK
  <2>1. Storage!TypeOK
    BY AnswerTypes, SameConstants DEF Storage!TypeOK, Disk
  <2>2. closed \in BOOLEAN /\ held \in BOOLEAN /\ raced \in BOOLEAN
    OBVIOUS
  <2>3. queue \in Seq(Callers)
    OBVIOUS
  <2>4. QED
    BY <2>1, <2>2, <2>3 DEF TypeOK, Stage
<1>2. Asks /\ OwnerCalls /\ StagesFit /\ AnswersFit
  BY DEF Asks, OwnerCalls, StagesFit, AnswersFit
<1>3. QED
  BY <1>1, <1>2 DEF Control

\* A call in the storage is at the head of _sync, and alone.
LEMMA OneStorageCall ==
    ASSUME Control, NEW c \in Callers, call[c] # "idle"
    PROVE  /\ AtHead(c) /\ stage[c] # "idle"
           /\ asked[c] = StorageRequest(c)
           /\ asked[c] \in Request
           /\ \A x \in Callers \ {c} : call[x] = "idle"
<1>1. \A x \in Callers : call[x] # "idle" => AtHead(x)
  BY DEF Control, OwnerCalls, Owns, AtHead
<1>2. \A x \in Callers \ {c} : call[x] = "idle"
  BY <1>1 DEF AtHead
<1>3. asked[c] \in Request
  BY StorageRequestsType DEF Control, Asks
<1>4. QED
  BY <1>1, <1>2, <1>3 DEF Control, OwnerCalls, Owns

\* When a call acts on its answer, it is at the head of _sync, and no call is
\* left in the storage.
LEMMA ResumeFacts ==
    ASSUME Control, NEW c \in Callers, NEW s, Resumes(c, s)
    PROVE  /\ stage[c] = s /\ s # "idle" /\ AtHead(c)
           /\ call[c] = "performed"
           /\ \A x \in Callers : call'[x] = "idle"
           /\ call' \in [Callers -> {"idle", "pending", "performed"}]
           /\ asked' \in [Callers -> StorageRequests \cup {NoRequest}]
           /\ told' \in [Callers -> Answers]
           /\ UNCHANGED <<vault, history, faults>>
<1>1. stage[c] = s /\ s # "idle" /\ AtHead(c)
  BY DEF Resumes, Owns, AtHead
<1>2. /\ call[c] = "performed"
      /\ call' = [call EXCEPT ![c] = "idle"]
      /\ asked' = [asked EXCEPT ![c] = NoRequest]
      /\ told' = [told EXCEPT ![c] = NoAnswer]
      /\ UNCHANGED <<vault, history, faults>>
  BY SameConstants DEF Resumes, Storage!Return, Storage!Performed
<1>3. \A x \in Callers \ {c} : call[x] = "idle"
  BY <1>2, OneStorageCall
<1>4. QED
  BY <1>1, <1>2, <1>3, AnswerTypes, SameConstants DEF Control, TypeOK, Storage!TypeOK

\* What a call leaves behind it, when it ends or goes to its next stage.
LEMMA ResumeControl ==
    ASSUME Control, NEW c \in Callers, NEW s, Resumes(c, s),
           lockState' \in {"locked", "unlocked"}, closed' = closed,
           metaCache' \subseteq Meta, orphans' \subseteq Meta, dropped' \subseteq Ids,
           \/ Ends(c)
           \/ \E t \in {"probe", "unlock", "operate"} :
                 /\ GoesTo(c, t)
                 /\ t \in {"probe", "unlock"} => request[c].op # "erase"
                 /\ t = "unlock" => lockState' = "locked"
    PROVE  Control'
<1>0. /\ stage[c] = s /\ s # "idle" /\ AtHead(c)
      /\ \A x \in Callers : call'[x] = "idle"
      /\ call' \in [Callers -> {"idle", "pending", "performed"}]
      /\ asked' \in [Callers -> StorageRequests \cup {NoRequest}]
      /\ told' \in [Callers -> Answers]
      /\ UNCHANGED <<vault, held, raced, faults>>
  BY ResumeFacts DEF history
<1>1. Asks' /\ OwnerCalls' /\ AnswersFit'
  BY <1>0 DEF Asks, OwnerCalls, AnswersFit
<1>2. /\ stage' \in [Callers -> Stage]
      /\ request' \in [Callers -> Requests \cup {NoRequest}]
      /\ queue' \in Seq(Callers)
  <2>1. CASE Ends(c)
    <3>1. queue # <<>> /\ queue \in Seq(Callers)
      BY <1>0 DEF AtHead, Control, TypeOK
    <3>2. Tail(queue) \in Seq(Callers)
      BY <3>1
    <3>3. QED
      BY <2>1, <3>2 DEF Ends, Control, TypeOK, Stage
  <2>2. CASE \E t \in {"probe", "unlock", "operate"} : GoesTo(c, t)
    BY <2>2 DEF GoesTo, Control, TypeOK, Stage
  <2>3. QED
    BY <2>1, <2>2
<1>3. closed' \in BOOLEAN /\ held' \in BOOLEAN /\ raced' \in BOOLEAN
  BY <1>0 DEF Control, TypeOK
<1>4. TypeOK'
  BY <1>0, <1>2, <1>3, SameConstants DEF Control, TypeOK, Storage!TypeOK
<1>5. StagesFit'
  <2>1. \A x \in Callers \ {c} :
            /\ stage[x] # "unlock"
            /\ stage[x] = "operate" => request[x].op = "erase"
    BY <1>0 DEF Control, StagesFit, AtHead
  <2>2. CASE Ends(c)
    BY <2>1, <2>2 DEF Ends, StagesFit, Control, TypeOK
  <2>3. ASSUME NEW t \in {"probe", "unlock", "operate"}, GoesTo(c, t),
               t \in {"probe", "unlock"} => request[c].op # "erase",
               t = "unlock" => lockState' = "locked"
        PROVE  StagesFit'
    <3>1. AtHead(c)'
      BY <1>0, <2>3 DEF AtHead, GoesTo
    <3>2. stage' = [stage EXCEPT ![c] = t] /\ request' = request
      BY <2>3 DEF GoesTo
    <3>3. request[c] \in Requests
      BY <1>0 DEF Control, StagesFit
    <3>4. QED
      BY <2>1, <2>3, <3>1, <3>2, <3>3 DEF StagesFit, Control, TypeOK
  <2>4. QED
    BY <2>2, <2>3
<1>6. QED
  BY <1>1, <1>4, <1>5 DEF Control

\* When the locker is unlocked a call ends or goes on to its operation.
LEMMA ProceedsFacts ==
    ASSUME NEW c \in Callers, Proceeds(c)
    PROVE  \/ Ends(c)
           \/ GoesTo(c, "operate") /\ request[c].op \notin {"init", "readAllMeta"}
BY DEF Proceeds

\* Every continuation keeps types and control.
LEMMA ResumeStep ==
    ASSUME Control, NEW c \in Callers, Resume(c) PROVE Control'
<1> USE DEF Control, TypeOK, memory
<1>0. stage[c] # "idle" => request[c] \in Requests /\ request[c] \in Request
  BY LockerAssumption DEF StagesFit, LockerRequest
<1>1. CASE ProbedForInit(c)
  <2>1. Resumes(c, "initProbe") /\ (Ends(c) \/ GoesTo(c, "operate"))
    BY <1>1 DEF ProbedForInit
  <2>2. UNCHANGED memory
    BY <1>1 DEF ProbedForInit
  <2>3. QED
    BY <2>1, <2>2, ResumeControl
<1>2. CASE Probed(c)
  <2>1. Resumes(c, "probe") /\ UNCHANGED memory /\ request[c].op # "erase"
    BY <1>2 DEF Probed, Resumes, StagesFit
  <2>2. \/ Ends(c) \/ GoesTo(c, "operate")
        \/ GoesTo(c, "unlock") /\ lockState # "unlocked"
    BY <1>2, ProceedsFacts DEF Probed
  <2>3. QED
    BY <2>1, <2>2, ResumeControl
<1>3. CASE MetaLoaded(c)
  <2>1. Resumes(c, "unlock")
    BY <1>3 DEF MetaLoaded
  <2>2. CASE ~OK(c)
    BY <1>3, <2>1, <2>2, ResumeControl DEF MetaLoaded
  <2>3. CASE OK(c)
    <3>1. told[c].data \subseteq Meta
      BY <2>1, <2>3, ResumeFacts DEF AnswersFit
    <3>2. /\ metaCache' = told[c].data /\ orphans' = orphans \cup metaCache
          /\ dropped' = {} /\ closed' = closed
          /\ lockState' \in {"locked", "unlocked"}
          /\ Ends(c) \/ GoesTo(c, "operate")
      BY <1>3, <2>3, ProceedsFacts DEF MetaLoaded
    <3>3. QED
      BY <2>1, <3>1, <3>2, ResumeControl
  <2>4. QED
    BY <2>2, <2>3
<1>4. CASE Initialized(c)
  <2>1. /\ Resumes(c, "operate") /\ request[c].op = "init" /\ UNCHANGED memory
        /\ Ends(c) \/ GoesTo(c, "probe")
    BY <1>4 DEF Initialized, Operates
  <2>2. QED
    BY <2>1, ResumeControl
<1>5. CASE Written(c)
  <2>1. Resumes(c, "operate") /\ request[c].op = "addEntry" /\ Ends(c)
    BY <1>5 DEF Written, Operates
  <2>2. request[c].input.meta \in Texts
    <3>1. request[c] \in Request
      BY <1>0, <2>1, ResumeFacts
    <3>2. QED
      BY <2>1, <3>1 DEF Request, EntryInput
  <2>3. CASE ~OK(c)
    BY <1>5, <2>1, <2>3, ResumeControl DEF Written
  <2>4. CASE OK(c)
    <3>1. PICK d \in told[c].data : Shows(d.id, request[c].input.meta)
      BY <1>5, <2>4 DEF Written
    <3>2. d.id \in Ids
      BY <2>1, <2>4, <3>1, ResumeFacts DEF AnswersFit
    <3>3. metaCache' \subseteq Meta
      BY <2>2, <3>1, <3>2 DEF Shows, Without, Meta
    <3>4. QED
      BY <2>1, <3>1, <3>3, ResumeControl DEF Shows
  <2>5. QED
    BY <2>3, <2>4
<1>6. CASE UpdatedEntry(c)
  <2>1. Resumes(c, "operate") /\ request[c].op = "updateEntry" /\ Ends(c)
    BY <1>6 DEF UpdatedEntry, Operates
  <2>2. request[c].id \in Ids /\ request[c].meta \in Texts \cup {NoText}
    <3>1. request[c] \in Request
      BY <1>0, <2>1, ResumeFacts
    <3>2. QED
      BY <2>1, <3>1 DEF Request
  <2>3. CASE UNCHANGED memory
    BY <2>1, <2>3, ResumeControl
  <2>4. CASE request[c].meta # NoText /\ Shows(request[c].id, request[c].meta)
    <3>1. metaCache' \subseteq Meta
      BY <2>2, <2>4 DEF Shows, Without, Meta
    <3>2. QED
      BY <2>1, <2>4, <3>1, ResumeControl DEF Shows
  <2>5. QED
    BY <1>6, <2>3, <2>4 DEF UpdatedEntry
<1>7. CASE DeletedEntry(c)
  <2>1. Resumes(c, "operate") /\ request[c].op = "deleteEntry" /\ Ends(c)
    BY <1>7 DEF DeletedEntry, Operates
  <2>2. request[c].id \in Ids
    <3>1. request[c] \in Request
      BY <1>0, <2>1, ResumeFacts
    <3>2. QED
      BY <2>1, <3>1 DEF Request
  <2>3. /\ metaCache' \subseteq Meta /\ dropped' \subseteq Ids
        /\ UNCHANGED <<lockState, closed, orphans>>
    BY <1>7, <2>2 DEF DeletedEntry, Without
  <2>4. QED
    BY <2>1, <2>3, ResumeControl
<1>8. CASE Passed(c)
  <2>1. Resumes(c, "operate") /\ Ends(c) /\ UNCHANGED memory
    BY <1>8 DEF Passed, Operates
  <2>2. QED
    BY <2>1, ResumeControl
<1>9. CASE ErasedStorage(c)
  <2>1. Resumes(c, "operate") /\ Ends(c)
    BY <1>9 DEF ErasedStorage, Operates
  <2>2. /\ metaCache' \subseteq Meta /\ orphans' \subseteq Meta /\ dropped' \subseteq Ids
        /\ lockState' \in {"locked", "unlocked"}
    BY <1>9 DEF ErasedStorage, CleanupState, AddLocked
  <2>3. closed' = closed
    BY <1>9 DEF ErasedStorage
  <2>4. QED
    BY <2>1, <2>2, <2>3, ResumeControl
<1>10. QED
  BY <1>1, <1>2, <1>3, <1>4, <1>5, <1>6, <1>7, <1>8, <1>9 DEF Resume

\* A step of the storage for the call of c keeps types and control, if its
\* answer, when it is "ok", fits the stage.
LEMMA StorageControl ==
    ASSUME Control, NEW c \in Callers, call[c] # "idle", NEW a \in Answers,
           call' = [call EXCEPT ![c] = "performed"], asked' = asked,
           told' = [told EXCEPT ![c] = a], vault' \in Disk,
           UNCHANGED <<memory, calls, history>>, faults' \subseteq FaultKinds,
           a.status = "ok" /\ stage[c] = "unlock"
              => /\ a.data \subseteq Meta
                 /\ vault'.kind = "data"
                 /\ vault'.sealedBy \in MasterKeys(vault', request[c].cred),
           a.status = "ok" /\ stage[c] = "operate" /\ request[c].op = "addEntry"
              => a.data \subseteq [id : Ids]
    PROVE  Control'
<1> USE DEF Control, TypeOK, Storage!TypeOK, memory, calls, history
<1>1. TypeOK'
  <2>1. /\ call' \in [Callers -> {"idle", "pending", "performed"}]
        /\ asked' \in [Callers -> StorageRequests \cup {NoRequest}]
        /\ told' \in [Callers -> Answers]
    BY SameConstants
  <2>2. Storage!TypeOK'
    BY <2>1, SameConstants
  <2>3. closed' \in BOOLEAN /\ held' \in BOOLEAN /\ raced' \in BOOLEAN
    OBVIOUS
  <2>4. QED
    BY <2>2, <2>3
<1>2. Asks'
  BY DEF Asks
<1>3. OwnerCalls'
  BY DEF OwnerCalls, Owns, StorageRequest
<1>4. StagesFit'
  BY DEF StagesFit, AtHead
<1>5. AnswersFit'
  <2>1. \A x \in Callers \ {c} : call'[x] # "performed"
    BY OneStorageCall
  <2>2. told'[c] = a
    BY SameConstants
  <2>3. QED
    BY <2>1, <2>2 DEF AnswersFit, OK
<1>6. QED
  BY <1>1, <1>2, <1>3, <1>4, <1>5

\* The outcome a storage step picks, and what the call asked.
LEMMA PerformPicks ==
    ASSUME Control, NEW c \in Callers, Storage!Perform(c)
    PROVE  \E o \in Outcomes(asked[c], vault) :
              /\ call[c] = "pending"
              /\ asked[c] = StorageRequest(c) /\ asked[c] \in Request
              /\ \A x \in Callers : call[x] # "performed"
              /\ call' = [call EXCEPT ![c] = "performed"]
              /\ told' = [told EXCEPT ![c] = o.answer]
              /\ asked' = asked
              /\ vault' = o.next
              /\ o.answer \in Answers /\ o.next \in Disk
<1>1. call[c] = "pending" /\ \A x \in Callers : call[x] # "performed"
  BY DEF Storage!Perform, Storage!Served, Storage!Pending, Storage!Performed
<1>2. asked[c] = StorageRequest(c) /\ asked[c] \in Request
  BY <1>1, OneStorageCall
<1>3. PICK o \in Outcomes(asked[c], vault) :
          Storage!Answered(c, o.answer) /\ vault' = o.next
  BY SameOutcomes DEF Storage!Perform
<1>4. vault \in Disk
  BY SameConstants DEF Control, TypeOK, Storage!TypeOK
<1>5. o.answer \in Answers /\ o.next \in Disk
  BY <1>2, <1>4, OutcomeFacts DEF Disk
<1>6. QED
  BY <1>1, <1>2, <1>3, <1>5 DEF Storage!Answered

\* An "ok" to readAllMeta or addEntry fits what the call does with it.
LEMMA PerformStep ==
    ASSUME Control, NEW c \in Callers, StoragePerforms(c) PROVE Control'
<1>1. PICK o \in Outcomes(asked[c], vault) :
          /\ call[c] = "pending"
          /\ asked[c] = StorageRequest(c) /\ asked[c] \in Request
          /\ call' = [call EXCEPT ![c] = "performed"]
          /\ told' = [told EXCEPT ![c] = o.answer]
          /\ asked' = asked
          /\ vault' = o.next
          /\ o.answer \in Answers /\ o.next \in Disk
  BY PerformPicks DEF StoragePerforms
<1>2. vault \in Disk
  BY SameConstants DEF Control, TypeOK, Storage!TypeOK
<1>3. ASSUME o.answer.status = "ok", stage[c] = "unlock"
      PROVE  /\ o.answer.data \subseteq Meta
             /\ vault'.kind = "data"
             /\ vault'.sealedBy \in MasterKeys(vault', request[c].cred)
  <2>1. asked[c].op = "readAllMeta" /\ asked[c].cred = request[c].cred
    BY <1>1, <1>3 DEF StorageRequest, Unlock
  <2>2. /\ o.answer.data = Metas(vault) /\ o.next = vault /\ vault.kind = "data"
        /\ vault.sealedBy \in MasterKeys(vault, asked[c].cred)
    BY <1>1, <1>2, <1>3, <2>1, MetasRead
  <2>3. QED
    BY <1>1, <1>2, <2>1, <2>2, MetasType
<1>4. ASSUME o.answer.status = "ok", stage[c] = "operate", request[c].op = "addEntry"
      PROVE  o.answer.data \subseteq [id : Ids]
  <2>1. asked[c] = request[c]
    BY <1>1, <1>4 DEF StorageRequest
  <2>2. PICK id \in Ids : o.answer.data = {[id |-> id]}
    BY <1>1, <1>2, <1>4, <2>1, MetaAdded
  <2>3. QED
    BY <2>2
<1>5. UNCHANGED <<memory, calls, history>> /\ faults' \subseteq FaultKinds
  BY DEF StoragePerforms, Control, TypeOK
<1>6. QED
  BY <1>1, <1>3, <1>4, <1>5, StorageControl

\* The storage that tidies up touches nothing that a call relies on.
LEMMA TidyStep ==
    ASSUME Control, NEW c \in Callers, StorageTidies(c) PROVE Control'
<1> USE DEF Control, TypeOK, Storage!TypeOK, memory, calls, history
<1>1. /\ call[c] = "pending" /\ \A x \in Callers : call[x] # "performed"
      /\ vault = Empty /\ vault' = Absent
      /\ UNCHANGED <<call, asked, told, memory, calls, history, faults>>
  BY SameConstants
     DEF StorageTidies, Storage!Tidy, Storage!Served, Storage!Pending,
         Storage!Performed
<1>2. Storage!TypeOK'
  BY <1>1, SameConstants DEF Disk
<1>3. closed' \in BOOLEAN /\ held' \in BOOLEAN /\ raced' \in BOOLEAN
  BY <1>1
<1>4. TypeOK'
  BY <1>1, <1>2, <1>3
<1>5. Asks' /\ OwnerCalls' /\ StagesFit' /\ AnswersFit'
  BY <1>1 DEF Asks, OwnerCalls, StagesFit, AnswersFit, OK, Owns, AtHead, StorageRequest
<1>6. QED
  BY <1>4, <1>5

\* Every step keeps types and control.
LEMMA ControlStep == Control /\ [Next]_vars => Control'
<1> SUFFICES ASSUME Control, [Next]_vars PROVE Control'
  OBVIOUS
<1>0. ASSUME NEW kind, Fault(kind) PROVE faults' \subseteq FaultKinds
  BY <1>0, LockerAssumption DEF Fault, Control, TypeOK
<1>1. ASSUME NEW c \in Callers, Invoke(c) PROVE Control'
  <2> USE DEF Control, TypeOK, memory, storage
  <2>1. PICK r \in Requests :
            /\ stage[c] = "idle"
            /\ stage' = [stage EXCEPT ![c] = FirstStage(r)]
            /\ request' = [request EXCEPT ![c] = r]
            /\ queue' = Append(queue, c)
            /\ held' = FALSE
            /\ UNCHANGED <<storage, memory, raced, faults>>
    BY <1>1 DEF Invoke
  <2>2. /\ FirstStage(r) \in {"initProbe", "operate", "probe"}
        /\ FirstStage(r) = "initProbe" => r.op = "init"
        /\ FirstStage(r) = "probe" => r.op # "erase"
        /\ FirstStage(r) = "operate" => r.op = "erase"
    BY DEF FirstStage
  <2>3. queue' \in Seq(Callers) /\ \A x \in Callers : AtHead(x) => AtHead(x)'
    BY <2>1 DEF AtHead
  <2>4. held' \in BOOLEAN /\ closed' \in BOOLEAN /\ raced' \in BOOLEAN
    BY <2>1
  <2>5. Storage!TypeOK'
    BY <2>1 DEF Storage!TypeOK
  <2>6. TypeOK'
    BY <2>1, <2>2, <2>3, <2>4, <2>5 DEF Stage
  <2>7. call[c] = "idle"
    BY <2>1, OneStorageCall DEF Storage!TypeOK
  <2>8. Asks' /\ AnswersFit'
    BY <2>1, <2>7 DEF Asks, AnswersFit, OK
  <2>9. OwnerCalls'
    BY <2>1, <2>3, <2>7 DEF OwnerCalls, Owns, AtHead, StorageRequest
  <2>10. StagesFit'
    BY <2>1, <2>2, <2>3 DEF StagesFit
  <2>11. QED
    BY <2>6, <2>8, <2>9, <2>10
<1>2. ASSUME NEW c \in Callers, CallStorage(c) PROVE Control'
  <2> USE DEF Control, TypeOK, Storage!TypeOK, memory, calls, history
  <2>1. /\ Owns(c) /\ call[c] = "idle"
        /\ call' = [call EXCEPT ![c] = "pending"]
        /\ asked' = [asked EXCEPT ![c] = StorageRequest(c)]
        /\ UNCHANGED <<vault, told, memory, calls, history, faults>>
    BY <1>2 DEF CallStorage, Storage!Ask
  <2>2. StorageRequest(c) \in StorageRequests
    BY <2>1 DEF StorageRequest, StorageRequests, Owns, StagesFit, Stage
  <2>3. /\ call' \in [Callers -> {"idle", "pending", "performed"}]
        /\ asked' \in [Callers -> StorageRequests \cup {NoRequest}]
    BY <2>1, <2>2, SameConstants
  <2>4. closed' \in BOOLEAN /\ held' \in BOOLEAN /\ raced' \in BOOLEAN
    BY <2>1
  <2>5. Storage!TypeOK'
    BY <2>1, <2>3, SameConstants
  <2>6. TypeOK'
    BY <2>1, <2>4, <2>5
  <2>7. Asks' /\ OwnerCalls'
    BY <2>1, <2>2 DEF Asks, OwnerCalls, Owns, StorageRequest
  <2>8. StagesFit'
    BY <2>1 DEF StagesFit, AtHead
  <2>9. AnswersFit'
    BY <2>1 DEF AnswersFit, OK
  <2>10. QED
    BY <2>6, <2>7, <2>8, <2>9
<1>3. ASSUME NEW c \in Callers, StorageFails(c) \/ StorageLoses(c) PROVE Control'
  <2>1. UNCHANGED <<memory, calls, history>> /\ faults' \subseteq FaultKinds
    BY <1>0, <1>3 DEF StorageFails, StorageLoses
  <2>2. vault \in Disk /\ Absent \in Disk
    BY SameConstants DEF Control, TypeOK, Storage!TypeOK, Disk
  <2>3. CASE StorageFails(c)
    <3>1. PICK error \in {"io", "invalidStorage"} :
              /\ call[c] = "pending" /\ vault' = vault /\ asked' = asked
              /\ call' = [call EXCEPT ![c] = "performed"]
              /\ told' = [told EXCEPT ![c] = Failure(asked[c], error)]
      BY <2>3, SameConstants
         DEF StorageFails, Storage!Fail, Storage!Served, Storage!Pending,
             Storage!Answered
    <3>2. Failure(asked[c], error) \in Answers
            /\ Failure(asked[c], error).status # "ok"
      BY AnswerTypes
    <3>3. QED
      BY <2>1, <2>2, <3>1, <3>2, StorageControl
  <2>4. CASE StorageLoses(c)
    <3>1. /\ call[c] = "performed" /\ call' = call /\ asked' = asked
          /\ told' = [told EXCEPT ![c] = Failure(asked[c], "io")]
          /\ vault' = Absent
      BY <2>4, SameConstants
         DEF StorageLoses, Storage!Lose, Storage!Saved, Storage!Performed
    <3>2. call' = [call EXCEPT ![c] = "performed"]
      BY <3>1 DEF Control, TypeOK, Storage!TypeOK
    <3>3. Failure(asked[c], "io") \in Answers
            /\ Failure(asked[c], "io").status # "ok"
      BY AnswerTypes
    <3>4. QED
      BY <2>1, <2>2, <3>1, <3>2, <3>3, StorageControl
  <2>5. QED
    BY <1>3, <2>3, <2>4
<1>4. CASE Lock \/ Dispose
  <2> USE DEF Control, TypeOK, Storage!TypeOK, storage, calls
  <2>1. /\ UNCHANGED <<storage, calls, faults>>
        /\ metaCache' \subseteq Meta /\ orphans' \subseteq Meta /\ dropped' \subseteq Ids
        /\ lockState' \in {"locked", "unlocked"}
        /\ lockState = "locked" => lockState' = "locked"
    BY <1>4 DEF Lock, Dispose, CleanupState, AddLocked, memory
  <2>2. held' \in BOOLEAN /\ closed' \in BOOLEAN
    BY <1>4 DEF Lock, Dispose, CleanupState, memory
  <2>3. raced' \in BOOLEAN
    BY <1>4 DEF Lock, Dispose, Idle
  <2>4. Storage!TypeOK'
    BY <2>1
  <2>5. TypeOK'
    BY <2>1, <2>2, <2>3, <2>4
  <2>6. Asks' /\ OwnerCalls' /\ StagesFit' /\ AnswersFit'
    BY <2>1 DEF Asks, OwnerCalls, StagesFit, AnswersFit, OK, Owns, AtHead, StorageRequest
  <2>7. QED
    BY <2>5, <2>6
<1>5. CASE Crash
  <2> USE DEF Control, TypeOK, Storage!TypeOK
  <2>1. /\ call' = [c \in Callers |-> "idle"]
        /\ asked' = [c \in Callers |-> NoRequest]
        /\ told' = [c \in Callers |-> NoAnswer]
        /\ vault' = vault \/ vault' = Absent
    BY <1>5, SameConstants DEF Crash, Storage!Crash
  <2>2. Storage!TypeOK'
    BY <2>1, SameConstants, AnswerTypes DEF Disk
  <2>3. /\ stage' = [c \in Callers |-> "idle"]
        /\ request' = [c \in Callers |-> NoRequest] /\ queue' = <<>>
        /\ lockState' = "locked" /\ metaCache' = {} /\ orphans' = {} /\ dropped' = {}
    BY <1>5 DEF Crash
  <2>4. queue' \in Seq(Callers)
    BY <2>3
  <2>5. closed' \in BOOLEAN /\ held' \in BOOLEAN /\ raced' \in BOOLEAN
    BY <1>5 DEF Crash
  <2>6. faults' \subseteq FaultKinds
    BY <1>0, <1>5 DEF Crash
  <2>7. TypeOK'
    BY <2>2, <2>3, <2>4, <2>5, <2>6 DEF Stage
  <2>8. Asks' /\ OwnerCalls' /\ StagesFit' /\ AnswersFit'
    BY <2>1, <2>3 DEF Asks, OwnerCalls, StagesFit, AnswersFit
  <2>9. QED
    BY <2>7, <2>8
<1>6. CASE Damage
  <2> USE DEF Control, TypeOK, Storage!TypeOK, memory, calls, history
  <2>1. /\ \A c \in Callers : call[c] # "performed"
        /\ vault' \in Damaged(vault)
        /\ UNCHANGED <<call, asked, told, memory, calls, history>>
    BY <1>6, SameConstants DEF Damage, Storage!Damage, Storage!Performed
  <2>2. vault' \in Disk
    BY <2>1, DamagedFacts, SameConstants
  <2>3. Storage!TypeOK'
    BY <2>1, <2>2, SameConstants
  <2>4. closed' \in BOOLEAN /\ held' \in BOOLEAN /\ raced' \in BOOLEAN
    BY <2>1
  <2>5. faults' \subseteq FaultKinds
    BY <1>0, <1>6 DEF Damage
  <2>6. TypeOK'
    BY <2>1, <2>3, <2>4, <2>5
  <2>7. Asks' /\ OwnerCalls' /\ StagesFit' /\ AnswersFit'
    BY <2>1 DEF Asks, OwnerCalls, StagesFit, AnswersFit, Owns, AtHead, StorageRequest
  <2>8. QED
    BY <2>6, <2>7
<1>7. CASE UNCHANGED vars
  <2> USE DEF Control, TypeOK, Storage!TypeOK, vars, storage, memory, calls, history
  <2>1. Storage!TypeOK'
    BY <1>7
  <2>2. closed' \in BOOLEAN /\ held' \in BOOLEAN /\ raced' \in BOOLEAN
    BY <1>7
  <2>3. TypeOK'
    BY <1>7, <2>1, <2>2
  <2>4. Asks' /\ OwnerCalls' /\ StagesFit' /\ AnswersFit'
    BY <1>7 DEF Asks, OwnerCalls, StagesFit, AnswersFit, OK, Owns, AtHead, StorageRequest
  <2>5. QED
    BY <2>3, <2>4
<1>8. QED
  BY <1>1, <1>2, <1>3, <1>4, <1>5, <1>6, <1>7, PerformStep, TidyStep, ResumeStep
     DEF Next, Step

\* Type correctness of the locker.
THEOREM LockerTypes == Spec => []TypeOK
<1>1. Control => TypeOK
  BY DEF Control
<1>2. QED
  BY <1>1, ControlInit, ControlStep, PTL DEF Spec

-----------------------------------------------------------------------------
(* A quiet lock *)

\* Without a race, a continuation runs in a locker that is not disposed of, and
\* leaves a locked one without metas.
LEMMA ResumeQuiet ==
    ASSUME Control, Quiet, NEW c \in Callers, Resume(c) PROVE Quiet'
<1> SUFFICES ASSUME ~raced' PROVE
        /\ lockState' = "locked" \/ closed' => metaCache' = {}
        /\ orphans' = {}
        /\ closed' => Idle'
        /\ \A x \in Callers :
              stage'[x] = "operate" /\ request'[x].op \notin {"init", "erase"}
                 => lockState' = "unlocked"
  BY DEF Quiet
<1>0. PICK s : Resumes(c, s)
  BY DEF Resume, ProbedForInit, Probed, MetaLoaded, Initialized, Written,
         UpdatedEntry, DeletedEntry, Passed, ErasedStorage, Operates
<1>1. /\ stage[c] # "idle" /\ AtHead(c) /\ ~raced
  BY <1>0, ResumeFacts DEF history
<1>2. ~closed /\ orphans = {} /\ (lockState = "locked" => metaCache = {})
  BY <1>1 DEF Quiet, Idle
<1>3. \A x \in Callers \ {c} : stage[x] = "operate" => request[x].op = "erase"
  BY <1>1 DEF Control, StagesFit, AtHead
<1>4. /\ stage \in [Callers -> Stage] /\ request \in [Callers -> Requests \cup {NoRequest}]
      /\ lockState \in {"locked", "unlocked"}
  BY DEF Control, TypeOK
\* The other calls are not past the unlocking; it is enough to look at c.
<1>5. ASSUME Ends(c) \/ \E t \in Stage : GoesTo(c, t) /\
                 (t = "operate" /\ request[c].op # "init" => lockState' = "unlocked")
      PROVE  \A x \in Callers :
                stage'[x] = "operate" /\ request'[x].op \notin {"init", "erase"}
                   => lockState' = "unlocked"
  BY <1>3, <1>4, <1>5 DEF Ends, GoesTo
<1> USE DEF memory
<1>6. CASE ProbedForInit(c) \/ Initialized(c)
  <2>1. UNCHANGED memory
    BY <1>6 DEF ProbedForInit, Initialized
  <2>2. request[c].op = "init"
    BY <1>6 DEF ProbedForInit, Initialized, Operates, Resumes, Control, StagesFit
  <2>3. Ends(c) \/ \E t \in Stage : GoesTo(c, t)
    BY <1>6 DEF ProbedForInit, Initialized, Stage
  <2>4. QED
    BY <1>2, <1>5, <2>1, <2>2, <2>3
<1>7. CASE Probed(c)
  <2>1. UNCHANGED memory
    BY <1>7 DEF Probed
  <2>2. \/ Ends(c) \/ GoesTo(c, "unlock")
        \/ GoesTo(c, "operate") /\ lockState = "unlocked"
    BY <1>7, ProceedsFacts DEF Probed
  <2>3. QED
    BY <1>2, <1>5, <2>1, <2>2 DEF Stage
<1>8. CASE MetaLoaded(c)
  <2>1. stage[c] = "unlock" /\ lockState = "locked"
    BY <1>8 DEF MetaLoaded, Resumes, Control, StagesFit
  <2>2. CASE OK(c)
    <3>1. /\ orphans' = orphans \cup metaCache /\ closed' = closed
          /\ lockState' = "unlocked" /\ (Ends(c) \/ GoesTo(c, "operate"))
      BY <1>2, <1>8, <2>2, ProceedsFacts DEF MetaLoaded
    <3>2. QED
      BY <1>2, <1>5, <2>1, <3>1 DEF Stage
  <2>3. CASE ~OK(c)
    BY <1>2, <1>5, <1>8, <2>3 DEF MetaLoaded
  <2>4. QED
    BY <2>2, <2>3
<1>9. CASE Written(c) \/ UpdatedEntry(c) \/ DeletedEntry(c) \/ Passed(c)
  <2>1. stage[c] = "operate" /\ request[c].op \notin {"init", "erase"} /\ Ends(c)
    BY <1>9 DEF Written, UpdatedEntry, DeletedEntry, Passed, Operates, Resumes
  <2>2. UNCHANGED <<lockState, closed, orphans>>
    BY <1>9 DEF Written, UpdatedEntry, DeletedEntry, Passed, Shows
  <2>3. lockState = "unlocked"
    BY <1>1, <2>1 DEF Quiet
  <2>4. QED
    BY <1>2, <1>5, <2>1, <2>2, <2>3
<1>10. CASE ErasedStorage(c)
  <2>1. Ends(c) /\ closed' = closed /\ orphans' = orphans
    BY <1>10 DEF ErasedStorage, CleanupState
  <2>2. lockState' = "locked" => metaCache' = {}
    BY <1>2, <1>10 DEF ErasedStorage, CleanupState
  <2>3. QED
    BY <1>2, <1>5, <2>1, <2>2
<1>11. QED
  BY <1>6, <1>7, <1>8, <1>9, <1>10 DEF Resume

\* Quiet is inductive with types and control.
LEMMA QuietStep == Control /\ Quiet /\ [Next]_vars => Quiet'
<1> SUFFICES ASSUME Control, Quiet, [Next]_vars PROVE Quiet'
  OBVIOUS
<1> USE DEF memory, calls, history
<1>1. ASSUME NEW c \in Callers, Invoke(c) PROVE Quiet'
  <2>1. PICK r \in Requests :
            /\ stage' = [stage EXCEPT ![c] = FirstStage(r)]
            /\ request' = [request EXCEPT ![c] = r]
            /\ ~closed /\ UNCHANGED <<memory, raced>>
    BY <1>1 DEF Invoke
  <2>2. FirstStage(r) = "operate" => r.op = "erase"
    BY DEF FirstStage
  <2>3. QED
    BY <2>1, <2>2 DEF Quiet, Control, TypeOK
<1>2. CASE UNCHANGED <<memory, calls, history>>
  BY <1>2 DEF Quiet, Idle
<1>3. ASSUME NEW c \in Callers,
             \/ CallStorage(c) \/ StorageTidies(c) \/ StoragePerforms(c)
             \/ StorageFails(c) \/ StorageLoses(c)
      PROVE  Quiet'
  BY <1>2, <1>3
     DEF CallStorage, StorageTidies, StoragePerforms, StorageFails, StorageLoses
<1>4. CASE Lock
  <2>1. ~raced' => Idle /\ ~raced /\ UNCHANGED calls
    BY <1>4 DEF Lock
  <2>2. ~raced' => metaCache' = {} /\ orphans' = {} /\ closed' = closed
    BY <1>4, <2>1 DEF Lock, Quiet, CleanupState, Control, TypeOK
  <2>3. QED
    BY <2>1, <2>2 DEF Quiet, Idle
<1>5. CASE Dispose
  <2>1. ~raced' => Idle /\ ~raced /\ UNCHANGED calls
    BY <1>5 DEF Dispose
  <2>2. ~raced' => metaCache' = {} /\ orphans' = {}
    BY <1>5, <2>1 DEF Dispose, Quiet, CleanupState
  <2>3. QED
    BY <2>1, <2>2 DEF Quiet, Idle
<1>6. CASE Crash
  BY <1>6 DEF Crash, Quiet
<1>7. CASE Damage
  BY <1>2, <1>7 DEF Damage
<1>8. CASE UNCHANGED vars
  BY <1>2, <1>8 DEF vars
<1>9. QED
  BY <1>1, <1>3, <1>4, <1>5, <1>6, <1>7, <1>8, ResumeQuiet DEF Next, Step

\* An application that locks and disposes between calls leaves no plaintext meta
\* behind, in the cache or outside it, whatever its calls were answered.
THEOREM QuietLocksClear == Spec => []QuietLockClears
<1>1. Init => Quiet
  BY DEF Init, Quiet
<1>2. Quiet => QuietLockClears
  BY DEF Quiet, QuietLockClears
<1>3. QED
  BY <1>1, <1>2, QuietStep, ControlInit, ControlStep, PTL DEF Spec

-----------------------------------------------------------------------------
(* Unlocking *)

\* The locker unlocks for nobody but a call whose credential opens the vault and
\* verifies its HMAC, in the very state in which it unlocks.
THEOREM UnlocksForHolders == Spec => UnlockIsAuthorised
<1> DEFINE Authorised ==
      lockState = "locked" /\ lockState' = "unlocked"
         => \E c \in Callers :
               /\ stage[c] = "unlock" /\ stage'[c] # "unlock"
               /\ vault.kind = "data"
               /\ vault.sealedBy \in MasterKeys(vault, request[c].cred)
<1>1. Control /\ [Next]_vars => [Authorised]_vars
  <2> SUFFICES ASSUME Control, [Next]_vars,
                      lockState = "locked", lockState' = "unlocked"
               PROVE  \E c \in Callers :
                         /\ stage[c] = "unlock" /\ stage'[c] # "unlock"
                         /\ vault.kind = "data"
                         /\ vault.sealedBy \in MasterKeys(vault, request[c].cred)
    OBVIOUS
  <2>1. ~UNCHANGED lockState
    OBVIOUS
  <2>2. \E c \in Callers : MetaLoaded(c)
    <3>1. ~Crash /\ ~Damage /\ ~Lock /\ ~Dispose /\ ~UNCHANGED vars
      BY DEF Crash, Damage, Lock, Dispose, AddLocked, vars, memory
    <3>2. ASSUME NEW c \in Callers,
                 \/ Invoke(c) \/ CallStorage(c) \/ StorageTidies(c)
                 \/ StoragePerforms(c) \/ StorageFails(c) \/ StorageLoses(c)
          PROVE  FALSE
      BY <3>2 DEF Invoke, CallStorage, StorageTidies, StoragePerforms,
                  StorageFails, StorageLoses, memory
    <3>3. ASSUME NEW c \in Callers,
                 ProbedForInit(c) \/ Probed(c) \/ Initialized(c) \/ Passed(c)
          PROVE  FALSE
      BY <3>3 DEF ProbedForInit, Probed, Initialized, Passed, memory
    <3>4. ASSUME NEW c \in Callers, Written(c) \/ UpdatedEntry(c) \/ DeletedEntry(c)
          PROVE  FALSE
      BY <3>4 DEF Written, UpdatedEntry, DeletedEntry, Shows, memory
    <3>5. ASSUME NEW c \in Callers, ErasedStorage(c) PROVE FALSE
      BY <3>5 DEF ErasedStorage, AddLocked, memory
    <3>6. QED
      BY <3>1, <3>2, <3>3, <3>4, <3>5 DEF Next, Step, Resume
  <2>3. PICK c \in Callers : MetaLoaded(c)
    BY <2>2
  <2>4. Resumes(c, "unlock") /\ OK(c)
    BY <2>3 DEF MetaLoaded, memory
  <2>5. stage'[c] # "unlock"
    BY <2>3, <2>4, ProceedsFacts DEF MetaLoaded, Ends, GoesTo, Control, TypeOK
  <2>6. QED
    BY <2>4, <2>5, ResumeFacts DEF Control, AnswersFit
<1>2. QED
  BY <1>1, ControlInit, ControlStep, PTL DEF Spec, UnlockIsAuthorised

-----------------------------------------------------------------------------
(* The cache *)

\* What an operation does to the vault is what the continuation of its call will
\* do to the cache.
LEMMA PerformFits ==
    ASSUME Control, NEW c \in Callers, StoragePerforms(c),
           lockState = "unlocked", vault.kind = "data", metaCache = Known(dropped)
    PROVE  WillFit(c)' /\ (vault'.kind = "data" \/ Erased(c)')
<1>1. PICK o \in Outcomes(asked[c], vault) :
          /\ call[c] = "pending"
          /\ asked[c] = StorageRequest(c) /\ asked[c] \in Request
          /\ call' = [call EXCEPT ![c] = "performed"]
          /\ told' = [told EXCEPT ![c] = o.answer]
          /\ vault' = o.next
  BY PerformPicks DEF StoragePerforms
<1>2. vault \in Disk
  BY SameConstants DEF Control, TypeOK, Storage!TypeOK
<1>3. UNCHANGED <<metaCache, dropped, stage, request>>
  BY DEF StoragePerforms, memory, calls
<1>4. told'[c] = o.answer /\ call'[c] = "performed"
  BY <1>1, SameConstants DEF Control, TypeOK, Storage!TypeOK
<1>5. OK(c)' <=> o.answer.status = "ok"
  BY <1>4 DEF OK
<1> DEFINE SameMetas == Metas(vault') = Metas(vault) /\ vault'.kind = "data"
<1>6. ASSUME SameMetas PROVE metaCache' = Known(dropped)'
  BY <1>3, <1>6 DEF Known
<1>7. CASE stage[c] # "operate"
  <2>1. stage[c] \in {"initProbe", "probe"}
    BY <1>1, <1>7, OneStorageCall DEF Control, TypeOK, Stage, StagesFit
  <2>2. asked[c].op = "isInitialized"
    BY <1>1, <2>1 DEF StorageRequest, Probe
  <2>3. SameMetas
    BY <1>1, <1>2, <2>2, MetasKept
  <2>4. QED
    BY <1>3, <1>6, <1>7, <2>3 DEF WillFit, Operating
<1>8. CASE stage[c] = "operate"
  <2>1. asked[c] = request[c] /\ request[c] \in Request
    BY <1>1, <1>8 DEF StorageRequest
  <2>2. CASE o.answer.status # "ok"
    <3>1. SameMetas
      BY <1>1, <1>2, <2>2, MetasKept
    <3>2. QED
      BY <1>5, <1>6, <2>2, <3>1 DEF WillFit
  <2>3. CASE o.answer.status = "ok"
    <3>1. CASE request[c].op = "addEntry"
      <4>1. PICK id \in Ids :
                /\ o.answer.data = {[id |-> id]}
                /\ \A m \in Metas(vault) : m.id # id
                /\ Metas(o.next) = Metas(vault)
                                     \cup {[id |-> id, meta |-> request[c].input.meta]}
                /\ o.next.kind = "data"
        BY <1>1, <1>2, <2>1, <2>3, <3>1, MetaAdded
      <4>2. {m \in metaCache : m.id # id} \cup {[id |-> id, meta |-> request[c].input.meta]}
              = {m \in Metas(o.next) : m.id \notin dropped \ {id}}
        <5> DEFINE new == [id |-> id, meta |-> request[c].input.meta]
        <5>1. new.id = id
          OBVIOUS
        <5> HIDE DEF new
        <5>2. Metas(o.next) = Metas(vault) \cup {new}
          BY <4>1 DEF new
        <5>3. {m \in metaCache : m.id # id} \cup {new}
                = {m \in Metas(o.next) : m.id \notin dropped \ {id}}
          BY <4>1, <5>1, <5>2 DEF Known
        <5>4. QED
          BY <5>3 DEF new
      <4>3. \A d \in told'[c].data : d.id = id
        BY <1>4, <4>1
      <4>4. QED
        BY <1>1, <1>3, <1>5, <1>8, <2>3, <3>1, <4>1, <4>2, <4>3
           DEF WillFit, Operating, Known, Without
    <3>2. CASE request[c].op = "updateEntry"
      <4> DEFINE id == request[c].id
                 new == [id |-> request[c].id, meta |-> request[c].meta]
      <4>1. /\ o.next.kind = "data"
            /\ Metas(o.next) = IF request[c].meta = NoText THEN Metas(vault)
                               ELSE {m \in Metas(vault) : m.id # id} \cup {new}
        BY <1>1, <1>2, <2>1, <2>3, <3>2, MetaUpdated
      <4>2. CASE request[c].meta = NoText
        <5>1. SameMetas
          BY <1>1, <4>1, <4>2
        <5>2. QED
          BY <1>3, <1>6, <3>2, <4>2, <5>1 DEF WillFit, Operating
      <4>3. CASE request[c].meta # NoText
        <5>1. new.id = id
          OBVIOUS
        <5> HIDE DEF new, id
        <5>2. Metas(o.next) = {m \in Metas(vault) : m.id # id} \cup {new}
          BY <4>1, <4>3
        <5>3. {m \in metaCache : m.id # id} \cup {new}
                = {m \in Metas(o.next) : m.id \notin dropped \ {id}}
          BY <5>1, <5>2 DEF Known
        <5>4. QED
          BY <1>1, <1>3, <1>5, <1>8, <2>3, <3>2, <4>1, <4>3, <5>3
             DEF WillFit, Operating, Known, Without, new, id
      <4>4. QED
        BY <4>2, <4>3
    <3>3. CASE request[c].op = "deleteEntry"
      <4>1. /\ o.next.kind = "data"
            /\ Metas(o.next) = {m \in Metas(vault) : m.id # request[c].id}
        BY <1>1, <1>2, <2>1, <2>3, <3>3, MetaDeleted
      <4>2. {m \in metaCache : m.id # request[c].id}
              = {m \in Metas(o.next) : m.id \notin dropped \ {request[c].id}}
        BY <4>1 DEF Known
      <4>3. QED
        BY <1>1, <1>3, <1>5, <1>8, <2>3, <3>3, <4>1, <4>2
           DEF WillFit, Operating, Known, Without
    <3>4. CASE request[c].op \in {"readAllMeta", "readValue", "addOrReplaceWrap",
                                  "deleteWrap", "updateLockTimeout"}
      <4>1. SameMetas
        BY <1>1, <1>2, <2>1, <3>4, MetasKept
      <4>2. QED
        BY <1>3, <1>6, <3>4, <4>1 DEF WillFit, Operating
    <3>5. CASE request[c].op = "init"
      BY <1>1, <1>2, <2>1, <2>3, <3>5, InitFindsNone
    <3>6. CASE request[c].op = "erase"
      <4>1. Erased(c)'
        BY <1>3, <1>4, <1>5, <1>8, <2>3, <3>6 DEF Erased, Operating
      <4>2. WillFit(c)'
        BY <1>3, <1>5, <1>8, <2>3, <3>6 DEF WillFit, Operating
      <4>3. QED
        BY <4>1, <4>2
    <3>7. request[c].op \in {"init", "addOrReplaceWrap", "deleteWrap", "addEntry",
             "updateEntry", "deleteEntry", "readValue", "readAllMeta",
             "updateLockTimeout", "erase"}
      <4>1. request[c] \in Requests
        BY <1>8 DEF Control, StagesFit
      <4>2. request[c] \in LockerRequest
        BY <4>1, LockerAssumption
      <4>3. QED
        BY <4>2 DEF LockerRequest, Request
    <3>8. QED
      BY <3>1, <3>2, <3>3, <3>4, <3>5, <3>6, <3>7
  <2>4. QED
    BY <2>2, <2>3
<1>9. QED
  BY <1>7, <1>8

\* After a continuation the cache of a locker that is unlocked fits.
LEMMA ResumeFits ==
    ASSUME Control, CacheFits, faults \subseteq {"crash", "io"},
           NEW c \in Callers, Resume(c), lockState' = "unlocked", ~closed'
    PROVE  vault.kind = "data" /\ metaCache' = {m \in Metas(vault) : m.id \notin dropped'}
<1>0. PICK s : Resumes(c, s)
  BY DEF Resume, ProbedForInit, Probed, MetaLoaded, Initialized, Written,
         UpdatedEntry, DeletedEntry, Passed, ErasedStorage, Operates
<1>1. call[c] = "performed" /\ \A x \in Callers \ {c} : call[x] = "idle"
  BY <1>0, ResumeFacts, OneStorageCall
<1>2. ASSUME lockState = "unlocked", ~closed
      PROVE  WillFit(c) /\ (vault.kind = "data" \/ Erased(c))
  BY <1>1, <1>2 DEF CacheFits, Erased
<1> USE DEF memory
<1>3. CASE ProbedForInit(c) \/ Probed(c) \/ Initialized(c) \/ Passed(c)
  <2>1. UNCHANGED memory
    BY <1>3 DEF ProbedForInit, Probed, Initialized, Passed
  <2>2. ~Operating(c, "addEntry") /\ ~Operating(c, "updateEntry")
          /\ ~Operating(c, "deleteEntry") /\ ~Operating(c, "erase")
    BY <1>3 DEF ProbedForInit, Probed, Initialized, Passed, Operates, Resumes, Operating
  <2>3. QED
    BY <1>2, <2>1, <2>2 DEF WillFit, Erased, Known
<1>4. CASE MetaLoaded(c)
  <2>1. stage[c] = "unlock" /\ lockState = "locked"
    BY <1>4 DEF MetaLoaded, Resumes, Control, StagesFit
  <2>2. OK(c)
    BY <1>4, <2>1 DEF MetaLoaded
  <2>3. metaCache' = told[c].data /\ dropped' = {}
    BY <1>4, <2>2 DEF MetaLoaded
  <2>4. told[c].data = Metas(vault)
    BY <1>1, <2>1, <2>2 DEF CacheFits
  <2>5. vault.kind = "data"
    BY <1>1, <2>1, <2>2 DEF Control, AnswersFit
  <2>6. QED
    BY <2>3, <2>4, <2>5
<1>5. CASE Written(c)
  <2>1. Operating(c, "addEntry")
    BY <1>5 DEF Written, Operates, Resumes, Operating
  <2>2. CASE OK(c)
    <3>1. PICK d \in told[c].data : Shows(d.id, request[c].input.meta)
      BY <1>5, <2>2 DEF Written
    <3>2. lockState = "unlocked" /\ ~closed
      BY <3>1 DEF Shows
    <3>3. QED
      BY <1>2, <2>1, <2>2, <3>1, <3>2 DEF WillFit, Erased, Operating, Shows, Known
  <2>3. CASE ~OK(c)
    <3>1. UNCHANGED memory
      BY <1>5, <2>3 DEF Written
    <3>2. QED
      BY <1>2, <2>3, <3>1 DEF WillFit, Erased, Known
  <2>4. QED
    BY <2>2, <2>3
<1>6. CASE UpdatedEntry(c)
  <2>1. Operating(c, "updateEntry")
    BY <1>6 DEF UpdatedEntry, Operates, Resumes, Operating
  <2>2. CASE OK(c) /\ request[c].meta # NoText
    <3>1. Shows(request[c].id, request[c].meta)
      BY <1>6, <2>2 DEF UpdatedEntry
    <3>2. lockState = "unlocked" /\ ~closed
      BY <3>1 DEF Shows
    <3>3. QED
      BY <1>2, <2>1, <2>2, <3>1, <3>2 DEF WillFit, Erased, Operating, Shows, Known
  <2>3. CASE ~(OK(c) /\ request[c].meta # NoText)
    <3>1. UNCHANGED memory
      BY <1>6, <2>3 DEF UpdatedEntry
    <3>2. QED
      BY <1>2, <2>1, <2>3, <3>1 DEF WillFit, Erased, Operating, Known
  <2>4. QED
    BY <2>2, <2>3
<1>7. CASE DeletedEntry(c)
  <2>1. Operating(c, "deleteEntry")
    BY <1>7 DEF DeletedEntry, Operates, Resumes, Operating
  <2>2. UNCHANGED <<lockState, closed>>
    BY <1>7 DEF DeletedEntry
  <2>3. WillFit(c) /\ vault.kind = "data"
    BY <1>2, <2>1, <2>2 DEF Erased, Operating
  <2>4. CASE OK(c)
    <3>1. metaCache' = Without(request[c].id) /\ dropped' = dropped \ {request[c].id}
      BY <1>7, <2>4 DEF DeletedEntry, OK
    <3>2. QED
      BY <2>1, <2>3, <2>4, <3>1 DEF WillFit, Known
  <2>5. CASE ~OK(c)
    <3>1. metaCache = Known(dropped)
      BY <2>1, <2>3, <2>5 DEF WillFit
    <3>2. \/ UNCHANGED memory
          \/ /\ metaCache' = Without(request[c].id)
             /\ dropped' = dropped \cup {request[c].id}
      BY <1>7, <2>5 DEF DeletedEntry, OK
    <3>3. QED
      BY <2>3, <3>1, <3>2 DEF Known, Without
  <2>6. QED
    BY <2>4, <2>5
<1>8. CASE ErasedStorage(c)
  <2>1. ~OK(c) /\ UNCHANGED memory
    BY <1>8 DEF ErasedStorage, AddLocked
  <2>2. QED
    BY <1>2, <2>1 DEF WillFit, Erased, Known
<1>9. QED
  BY <1>3, <1>4, <1>5, <1>6, <1>7, <1>8 DEF Resume

\* CacheFits is inductive with types and control.
LEMMA CacheStep == Control /\ CacheFits /\ [Next]_vars => CacheFits'
<1> SUFFICES ASSUME Control, CacheFits, [Next]_vars, faults' \subseteq {"crash", "io"}
             PROVE  /\ \A x \in Callers :
                          call'[x] = "performed" /\ stage'[x] = "unlock" /\ OK(x)'
                             => told'[x].data = Metas(vault')
                    /\ lockState' = "unlocked" /\ ~closed' =>
                          /\ vault'.kind = "data" \/ \E x \in Callers : Erased(x)'
                          /\ Unseen' \/ metaCache' = Known(dropped)'
                          /\ \A x \in Callers : call'[x] = "performed" => WillFit(x)'
  BY DEF CacheFits, Metas
<1> DEFINE Goal ==
      /\ \A x \in Callers :
            call'[x] = "performed" /\ stage'[x] = "unlock" /\ OK(x)'
               => told'[x].data = Metas(vault')
      /\ lockState' = "unlocked" /\ ~closed' =>
            /\ vault'.kind = "data" \/ \E x \in Callers : Erased(x)'
            /\ Unseen' \/ metaCache' = Known(dropped)'
            /\ \A x \in Callers : call'[x] = "performed" => WillFit(x)'
<1>0. ASSUME NEW kind, Fault(kind)
      PROVE  kind \in {"crash", "io"} /\ faults \subseteq {"crash", "io"}
  BY <1>0 DEF Fault
<1> USE DEF memory, calls, history, storage
\* A step that changes nothing but calls that are not performed.
<1>1. ASSUME UNCHANGED <<vault, told, memory, faults>>,
             \A x \in Callers : /\ call'[x] = "performed" <=> call[x] = "performed"
                                /\ call[x] = "performed"
                                      => stage'[x] = stage[x] /\ request'[x] = request[x]
      PROVE  Goal
  <2>1. faults \subseteq {"crash", "io"}
    BY <1>1
  <2>2. \A x \in Callers : call[x] = "performed"
           => (WillFit(x)' <=> WillFit(x)) /\ (Erased(x)' <=> Erased(x))
                /\ (OK(x)' <=> OK(x))
    BY <1>1 DEF WillFit, Erased, Operating, OK, Known, Without
  <2>3. Unseen' <=> Unseen
    BY <1>1 DEF Unseen
  <2>4. Known(dropped)' = Known(dropped)
    BY <1>1 DEF Known
  <2>5. \A x \in Callers : Erased(x) => call[x] = "performed"
    BY DEF Erased
  <2>6. QED
    BY <1>1, <2>1, <2>2, <2>3, <2>4, <2>5 DEF CacheFits
<1>2. ASSUME NEW c \in Callers, Invoke(c) PROVE Goal
  <2>1. PICK r \in Requests :
            /\ stage[c] = "idle"
            /\ stage' = [stage EXCEPT ![c] = FirstStage(r)]
            /\ request' = [request EXCEPT ![c] = r]
            /\ UNCHANGED <<vault, call, told, memory, faults>>
    BY <1>2 DEF Invoke
  <2>2. call[c] = "idle"
    BY <2>1, OneStorageCall
  <2>3. \A x \in Callers : /\ call'[x] = "performed" <=> call[x] = "performed"
                           /\ call[x] = "performed"
                                 => stage'[x] = stage[x] /\ request'[x] = request[x]
    BY <2>1, <2>2 DEF Control, TypeOK
  <2>4. QED
    BY <1>1, <2>1, <2>3
<1>3. ASSUME NEW c \in Callers, CallStorage(c) PROVE Goal
  <2>1. /\ call[c] = "idle" /\ call' = [call EXCEPT ![c] = "pending"]
        /\ UNCHANGED <<vault, told, memory, calls, faults>>
    BY <1>3 DEF CallStorage, Storage!Ask
  <2>2. \A x \in Callers : call'[x] = "performed" <=> call[x] = "performed"
    BY <2>1 DEF Control, TypeOK, Storage!TypeOK
  <2>3. QED
    BY <1>1, <2>1, <2>2
<1>4. ASSUME NEW c \in Callers, StoragePerforms(c) PROVE Goal
  <2>1. PICK o \in Outcomes(asked[c], vault) :
            /\ call[c] = "pending"
            /\ asked[c] = StorageRequest(c) /\ asked[c] \in Request
            /\ \A x \in Callers : call[x] # "performed"
            /\ call' = [call EXCEPT ![c] = "performed"]
            /\ told' = [told EXCEPT ![c] = o.answer]
            /\ vault' = o.next
    BY <1>4, PerformPicks DEF StoragePerforms
  <2>2. UNCHANGED <<memory, calls, faults>>
    BY <1>4 DEF StoragePerforms
  <2>3. faults \subseteq {"crash", "io"}
    BY <2>2
  <2>4. vault \in Disk
    BY SameConstants DEF Control, TypeOK, Storage!TypeOK
  <2>5. \A x \in Callers : call'[x] = "performed" <=> x = c
    BY <2>1 DEF Control, TypeOK, Storage!TypeOK
  <2>6. ASSUME stage[c] = "unlock", OK(c)' PROVE told'[c].data = Metas(vault')
    <3>1. asked[c].op = "readAllMeta"
      BY <2>1, <2>6 DEF StorageRequest, Unlock
    <3>2. told'[c] = o.answer
      BY <2>1, SameConstants DEF Control, TypeOK, Storage!TypeOK
    <3>3. o.answer.status = "ok"
      BY <2>6, <3>2 DEF OK
    <3>4. QED
      BY <2>1, <2>4, <3>1, <3>2, <3>3, MetasRead
  <2>7. ASSUME lockState' = "unlocked", ~closed'
        PROVE  WillFit(c)' /\ (vault'.kind = "data" \/ Erased(c)')
    <3>1. lockState = "unlocked" /\ ~closed
      BY <2>2, <2>7
    <3>2. ~Unseen /\ ~(\E x \in Callers : Erased(x))
      BY <2>1 DEF Unseen, Erased
    <3>3. vault.kind = "data" /\ metaCache = Known(dropped)
      BY <2>3, <3>1, <3>2 DEF CacheFits
    <3>4. QED
      BY <1>4, <3>1, <3>3, PerformFits
  <2>8. Unseen'
    BY <2>5 DEF Unseen
  <2>9. QED
    BY <2>2, <2>5, <2>6, <2>7, <2>8
<1>a. ASSUME NEW c \in Callers, StorageTidies(c) PROVE Goal
  <2>1. /\ \A x \in Callers : call[x] # "performed"
        /\ vault.kind # "data"
        /\ UNCHANGED <<call, memory, calls, faults>>
    BY <1>a, SameConstants
       DEF StorageTidies, Storage!Tidy, Storage!Served, Storage!Performed, Empty
  <2>2. ~(lockState = "unlocked" /\ ~closed)
    BY <2>1 DEF CacheFits, Erased
  <2>3. QED
    BY <2>1, <2>2
<1>5. ASSUME NEW c \in Callers, StorageFails(c) PROVE Goal
  <2>1. PICK error \in {"io", "invalidStorage"} :
            /\ call[c] = "pending" /\ \A x \in Callers : call[x] # "performed"
            /\ call' = [call EXCEPT ![c] = "performed"]
            /\ told' = [told EXCEPT ![c] = Failure(asked[c], error)]
            /\ UNCHANGED <<vault, memory, calls>>
    BY <1>5, SameConstants
       DEF StorageFails, Storage!Fail, Storage!Served, Storage!Pending,
           Storage!Performed, Storage!Answered
  <2>2. told'[c].status # "ok"
    BY <2>1, AnswerTypes, SameConstants DEF Control, TypeOK, Storage!TypeOK
  <2>3. \A x \in Callers : call'[x] = "performed" <=> x = c
    BY <2>1 DEF Control, TypeOK, Storage!TypeOK
  <2>4. ~OK(c)' /\ Unseen'
    BY <2>2, <2>3 DEF OK, Unseen
  <2>5. ASSUME lockState' = "unlocked", ~closed'
        PROVE  vault.kind = "data" /\ metaCache = Known(dropped)
    <3>1. lockState = "unlocked" /\ ~closed
      BY <2>1, <2>5
    <3>2. ~Unseen /\ ~(\E x \in Callers : Erased(x))
      BY <2>1 DEF Unseen, Erased
    <3>3. QED
      BY <1>0, <1>5, <3>1, <3>2 DEF CacheFits, StorageFails
  <2>6. ASSUME lockState' = "unlocked", ~closed' PROVE WillFit(c)'
    BY <2>1, <2>4, <2>5, <2>6 DEF WillFit, Known
  <2>7. QED
    BY <2>1, <2>3, <2>4, <2>5, <2>6
<1>6. ASSUME NEW c \in Callers, StorageLoses(c) PROVE Goal
  BY <1>0, <1>6 DEF StorageLoses
<1>7. ASSUME NEW c \in Callers, Resume(c) PROVE Goal
  <2>1. PICK s : Resumes(c, s)
    BY <1>7 DEF Resume, ProbedForInit, Probed, MetaLoaded, Initialized, Written,
           UpdatedEntry, DeletedEntry, Passed, ErasedStorage, Operates
  <2>2. /\ \A x \in Callers : call'[x] = "idle"
        /\ UNCHANGED <<vault, faults>>
    BY <2>1, ResumeFacts
  <2>3. ASSUME lockState' = "unlocked", ~closed'
        PROVE  vault'.kind = "data" /\ metaCache' = Known(dropped)'
    BY <1>7, <2>2, <2>3, ResumeFits DEF Known
  <2>4. QED
    BY <2>2, <2>3
<1>8. CASE Lock
  <2>1. UNCHANGED <<storage, calls, faults>> /\ ~(lockState' = "unlocked" /\ ~closed')
    BY <1>8 DEF Lock, AddLocked
  <2>2. QED
    BY <2>1 DEF CacheFits, OK
<1>9. CASE Dispose
  <2>1. UNCHANGED <<storage, calls, faults>> /\ closed'
    BY <1>9 DEF Dispose
  <2>2. QED
    BY <2>1 DEF CacheFits, OK
<1>10. CASE Crash
  BY <1>10 DEF Crash, Storage!Crash
<1>11. CASE Damage
  BY <1>0, <1>11 DEF Damage
<1>12. CASE UNCHANGED vars
  BY <1>1, <1>12 DEF vars
<1>13. QED
  BY <1>2, <1>3, <1>4, <1>a, <1>5, <1>6, <1>7, <1>8, <1>9, <1>10, <1>11, <1>12
     DEF Next, Step

\* An unlocked locker hands out the metas of the vault, but for the entries of
\* deletes that were answered "false", for any number of calls, any interleaving
\* with lock() and dispose(), any storage error and any crash.
THEOREM CacheIsTheVaults == Spec => []CacheMatches
<1>1. Init => CacheFits
  BY DEF Init, Storage!Init, CacheFits
<1>2. CacheFits => CacheMatches
  BY DEF CacheFits, CacheMatches, Readable, Known, Erased, Unseen
<1>3. QED
  BY <1>1, <1>2, CacheStep, ControlInit, ControlStep, PTL DEF Spec

=============================================================================
