----------------------------- MODULE MFALocker -----------------------------
(***************************************************************************)
(* MFALocker over its storage.  A call waits for the locker's _sync, asks  *)
(* the storage one question after the other and acts on each answer: is    *)
(* there a vault, are the metas readable (when the locker is locked), then *)
(* the operation itself.  lock() and dispose() do not wait for _sync: they *)
(* happen at any await of a call in flight.  The storage is VaultPromise,  *)
(* which EncryptedStorage implements.                                      *)
(***************************************************************************)
EXTENDS StorageData, Sequences

CONSTANTS
    Callers,      \* concurrent calls of one MFALocker
    Requests,     \* what they ask for, a subset of LockerRequest
    Faults,       \* the faults that may happen, a subset of FaultKinds
    MaxFaults     \* BOUND on the number of faults

\* A call is the request it finally makes of the storage: loadAllMeta is
\* readAllMeta, write is addEntry, update is updateEntry, delete is
\* deleteEntry, eraseStorage is erase, changePassword and enableBiometry are
\* addOrReplaceWrap, disableBiometry is deleteWrap.
LockerRequest ==
    {r \in Request :
        /\ r.op \notin {"isInitialized", "isBiometricEnabled", "salt", "lockTimeout"}
        /\ r.op = "addOrReplaceWrap"
              => r.newCred.origin = "pwd" \/ r.cred.origin = "pwd"
        /\ r.op = "deleteWrap" => r.origin = "bio" /\ r.cred.origin = "pwd"}

FaultKinds == {"io", "lose", "crash", "damage"}

ASSUME LockerAssumption ==
    /\ Requests \subseteq LockerRequest
    /\ Faults \subseteq FaultKinds
    /\ MaxFaults \in Nat

VARIABLES
    vault, call, asked, told,   \* the storage: see VaultPromise
    lockState,   \* _stateController.value
    closed,      \* dispose() has closed _stateController
    metaCache,   \* _metaCache, as a set of [id, meta]
    orphans,     \* HISTORY: metas dropped from _metaCache and never erased
    dropped,     \* HISTORY: ids taken from _metaCache by a delete that was
                 \* answered "false" (the vault may still hold them)
    stage,       \* the question the call of each caller is at
    request,     \* what the call asks for
    queue,       \* _sync: the owner of the lock, then those waiting for it
    held,        \* HISTORY: no call was made since the last lock() or dispose()
    raced,       \* HISTORY: a lock() or dispose() came during a call
    faults       \* the kinds of fault so far, each at most once

storage == <<vault, call, asked, told>>
memory == <<lockState, closed, metaCache, orphans, dropped>>
calls == <<stage, request, queue>>
history == <<held, raced>>
vars == <<storage, memory, calls, history, faults>>

Probe == [op |-> "isInitialized"]
Unlock(cred) == [op |-> "readAllMeta", cred |-> cred]

StorageRequests ==
    Requests \cup {Probe}
      \cup {Unlock(r.cred) : r \in {x \in Requests : x.op # "erase"}}

Storage == INSTANCE VaultPromise WITH
    phase <- call, request <- asked, answer <- told, Requests <- StorageRequests

Stage == {"idle", "initProbe", "probe", "unlock", "operate"}

Init ==
    /\ Storage!Init
    /\ lockState = "locked"
    /\ closed = FALSE
    /\ metaCache = {}
    /\ orphans = {}
    /\ dropped = {}
    /\ stage = [c \in Callers |-> "idle"]
    /\ request = [c \in Callers |-> NoRequest]
    /\ queue = <<>>
    /\ held = FALSE
    /\ raced = FALSE
    /\ faults = {}

-----------------------------------------------------------------------------
(* Calls *)

Fault(kind) ==
    /\ kind \in Faults
    /\ kind \notin faults /\ Cardinality(faults) < MaxFaults
    /\ faults' = faults \cup {kind}

FirstStage(r) ==
    CASE r.op = "init" -> "initProbe"
      [] r.op = "erase" -> "operate"
      [] OTHER -> "probe"

\* An application does not use a locker it has disposed of.
Invoke(c) ==
    \E r \in Requests :
        /\ stage[c] = "idle"
        /\ ~closed
        /\ HasRoom(vault, [request EXCEPT ![c] = r])
        /\ stage' = [stage EXCEPT ![c] = FirstStage(r)]
        /\ request' = [request EXCEPT ![c] = r]
        /\ queue' = Append(queue, c)
        /\ held' = FALSE
        /\ UNCHANGED <<storage, memory, raced, faults>>

\* The call of c holds the lock.
Owns(c) == stage[c] # "idle" /\ queue # <<>> /\ Head(queue) = c

StorageRequest(c) ==
    CASE stage[c] \in {"initProbe", "probe"} -> Probe
      [] stage[c] = "unlock" -> Unlock(request[c].cred)
      [] OTHER -> request[c]

\* The call awaits the storage.
CallStorage(c) ==
    /\ Owns(c)
    /\ Storage!Ask(c, StorageRequest(c))
    /\ UNCHANGED <<memory, calls, history, faults>>

\* The storage's own isInitialized, in its init.
StorageTidies(c) ==
    Storage!Tidy(c) /\ UNCHANGED <<memory, calls, history, faults>>

StoragePerforms(c) ==
    Storage!Perform(c) /\ UNCHANGED <<memory, calls, history, faults>>

StorageFails(c) ==
    Fault("io") /\ Storage!Fail(c) /\ UNCHANGED <<memory, calls, history>>

StorageLoses(c) ==
    Fault("lose") /\ Storage!Lose(c) /\ UNCHANGED <<memory, calls, history>>

-----------------------------------------------------------------------------
(* The continuations: what a call does with an answer of the storage *)

Resumes(c, s) ==
    Owns(c) /\ stage[c] = s /\ Storage!Return(c) /\ UNCHANGED <<history, faults>>

Operates(c, op) == Resumes(c, "operate") /\ request[c].op = op

GoesTo(c, s) ==
    stage' = [stage EXCEPT ![c] = s] /\ UNCHANGED <<request, queue>>

\* Mutant: a call that throws keeps the lock.
Ends_KeepsSync(c) ==
    /\ stage' = [stage EXCEPT ![c] = "idle"]
    /\ request' = [request EXCEPT ![c] = NoRequest]
    /\ UNCHANGED queue

\* The call returns or throws: _sync goes to the next.
Ends(c) ==
    /\ stage' = [stage EXCEPT ![c] = "idle"]
    /\ request' = [request EXCEPT ![c] = NoRequest]
    /\ queue' = Tail(queue)

OK(c) == told[c].status = "ok"

\* init: if (await isStorageInitialized) throw
ProbedForInit(c) ==
    /\ Resumes(c, "initProbe")
    /\ IF OK(c) THEN Ends(c) ELSE GoesTo(c, "operate")
    /\ UNCHANGED memory

\* When the locker is unlocked, what is left to do.
Proceeds(c) ==
    IF request[c].op \in {"init", "readAllMeta"} THEN Ends(c)
    ELSE GoesTo(c, "operate")

\* loadAllMetaIfLocked, up to the test of the state.
Probed(c) ==
    /\ Resumes(c, "probe")
    /\ IF ~OK(c) THEN Ends(c)
       ELSE IF lockState = "unlocked" THEN Proceeds(c)
       ELSE GoesTo(c, "unlock")
    /\ UNCHANGED memory

\* Mutant: the locker unlocks on any answer.
MetaLoaded_AnyAnswer(c) ==
    /\ Resumes(c, "unlock")
    /\ metaCache' = told[c].data
    /\ orphans' = orphans \cup metaCache
    /\ dropped' = {}
    /\ lockState' = "unlocked"
    /\ Proceeds(c)
    /\ UNCHANGED closed

\* _metaCache = await _storage.readAllMeta(...); _stateController.add(unlocked).
\* The map that was there is not erased; a closed controller throws.
MetaLoaded(c) ==
    /\ Resumes(c, "unlock")
    /\ IF ~OK(c) THEN Ends(c) /\ UNCHANGED memory
       ELSE /\ metaCache' = told[c].data
            /\ orphans' = orphans \cup metaCache
            /\ dropped' = {}
            /\ UNCHANGED closed
            /\ IF closed THEN Ends(c) /\ UNCHANGED lockState
               ELSE Proceeds(c) /\ lockState' = "unlocked"

Initialized(c) ==
    /\ Operates(c, "init")
    /\ IF OK(c) THEN GoesTo(c, "probe") ELSE Ends(c)
    /\ UNCHANGED memory

Without(id) == {m \in metaCache : m.id # id}

\* Every meta whose id is not id is as it was; the one of id is now shown.
Shows(id, meta) ==
    /\ metaCache' = Without(id) \cup {[id |-> id, meta |-> meta]}
    /\ dropped' = dropped \ {id}
    /\ UNCHANGED <<lockState, closed, orphans>>

\* Mutant: the cache takes what the storage answers, which is the id alone.
Written_IdOnly(c) ==
    /\ Operates(c, "addEntry")
    /\ Ends(c)
    /\ metaCache' = metaCache \cup told[c].data
    /\ UNCHANGED <<lockState, closed, orphans, dropped>>

Written(c) ==
    /\ Operates(c, "addEntry")
    /\ Ends(c)
    /\ IF OK(c)
       THEN \E d \in told[c].data : Shows(d.id, request[c].input.meta)
       ELSE UNCHANGED memory

\* Mutant: update forgets that the meta is cached.
UpdatedEntry_NoCache(c) ==
    Operates(c, "updateEntry") /\ Ends(c) /\ UNCHANGED memory

UpdatedEntry(c) ==
    /\ Operates(c, "updateEntry")
    /\ Ends(c)
    /\ IF OK(c) /\ request[c].meta # NoText
       THEN Shows(request[c].id, request[c].meta)
       ELSE UNCHANGED memory

\* Whether the storage has deleted the entry or answers false, it leaves the
\* cache; only an error that is thrown keeps it there.
DeletedEntry(c) ==
    /\ Operates(c, "deleteEntry")
    /\ Ends(c)
    /\ IF told[c].status \in {"ok", "false"}
       THEN /\ metaCache' = Without(request[c].id)
            /\ dropped' = IF OK(c) THEN dropped \ {request[c].id}
                          ELSE dropped \cup {request[c].id}
            /\ UNCHANGED <<lockState, closed, orphans>>
       ELSE UNCHANGED memory

\* readValue, changePassword, enableBiometry, disableBiometry and
\* updateLockTimeout return what the storage answers.
Passed(c) ==
    /\ \E op \in {"readValue", "addOrReplaceWrap", "deleteWrap", "updateLockTimeout"} :
          Operates(c, op)
    /\ Ends(c)
    /\ UNCHANGED memory

\* Mutant: lock and erase drop the metas without erasing them.
CleanupState_NoErase ==
    metaCache' = {} /\ orphans' = orphans \cup metaCache /\ dropped' = {}

\* _cleanupState: every meta is erased, then the map is dropped.
CleanupState == metaCache' = {} /\ dropped' = {} /\ UNCHANGED orphans

\* _stateController.add(locked) throws on a closed controller.
AddLocked == lockState' = IF closed THEN lockState ELSE "locked"

ErasedStorage(c) ==
    /\ Operates(c, "erase")
    /\ Ends(c)
    /\ IF OK(c) THEN CleanupState /\ AddLocked /\ UNCHANGED closed
       ELSE UNCHANGED memory

-----------------------------------------------------------------------------
(* lock, dispose, crash *)

Idle == \A c \in Callers : stage[c] = "idle"

Lock ==
    /\ IF lockState = "unlocked" THEN CleanupState /\ AddLocked /\ UNCHANGED closed
       ELSE UNCHANGED memory
    /\ held' = TRUE
    /\ raced' = (raced \/ ~Idle)
    /\ UNCHANGED <<storage, calls, faults>>

Dispose ==
    /\ CleanupState
    /\ closed' = TRUE
    /\ held' = TRUE
    /\ raced' = (raced \/ ~Idle)
    /\ UNCHANGED <<storage, lockState, calls, faults>>

\* The process dies and the application starts again with a new locker.
Crash ==
    /\ Fault("crash")
    /\ Storage!Crash
    /\ lockState' = "locked" /\ closed' = FALSE
    /\ metaCache' = {} /\ orphans' = {} /\ dropped' = {}
    /\ stage' = [c \in Callers |-> "idle"]
    /\ request' = [c \in Callers |-> NoRequest]
    /\ queue' = <<>>
    /\ held' = FALSE /\ raced' = FALSE

Damage ==
    Fault("damage") /\ Storage!Damage /\ UNCHANGED <<memory, calls, history>>

-----------------------------------------------------------------------------

Resume(c) ==
    \/ ProbedForInit(c) \/ Probed(c) \/ MetaLoaded(c) \/ Initialized(c)
    \/ Written(c) \/ UpdatedEntry(c) \/ DeletedEntry(c) \/ Passed(c)
    \/ ErasedStorage(c)

Step(c) ==
    CallStorage(c) \/ StorageTidies(c) \/ StoragePerforms(c) \/ Resume(c)

Next ==
    \/ \E c \in Callers :
          Invoke(c) \/ Step(c) \/ StorageFails(c) \/ StorageLoses(c)
    \/ Lock
    \/ Dispose
    \/ Crash
    \/ Damage

Spec == Init /\ [][Next]_vars

\* The storage answers every call (EncryptedStorage!CallReturns) and the event
\* loop runs every continuation; nobody has to call, lock or dispose.
FairSpec == Spec /\ \A c \in Callers : WF_vars(Step(c))

-----------------------------------------------------------------------------
(* Properties *)

Meta == [id : Ids, meta : Texts]

Metas(d) ==
    IF d.kind = "data" THEN {[id |-> e.id, meta |-> e.meta] : e \in d.entries}
    ELSE {}

\* Types of the locker's state and of the calls it serves.
TypeOK ==
    /\ Storage!TypeOK
    /\ lockState \in {"locked", "unlocked"}
    /\ closed \in BOOLEAN
    /\ metaCache \subseteq Meta
    /\ orphans \subseteq Meta
    /\ dropped \subseteq Ids
    /\ stage \in [Callers -> Stage]
    /\ request \in [Callers -> Requests \cup {NoRequest}]
    /\ queue \in Seq(Callers)
    /\ held \in BOOLEAN
    /\ raced \in BOOLEAN
    /\ faults \subseteq FaultKinds

\* An answer of the storage that the call has not acted on yet.
Unseen == \E c \in Callers : call[c] = "performed"

\* The states in which the application may use allMeta and has been told of
\* everything that was done.
Readable == lockState = "unlocked" /\ ~closed /\ ~Unseen

\* What allMeta hands out is what the vault holds: however calls, storage errors,
\* lock() and crashes interleave, an unlocked locker's cache is the metas of the
\* vault, up to the one answer that is on its way (every continuation keeps
\* _metaCache in step with the storage), and but for the entries of deletes that
\* were answered "false" (see DeletedEntry).  It rests on nobody else touching the
\* vault file and on no save losing it.
CacheMatches ==
    Readable /\ faults \subseteq {"crash", "io"}
        => metaCache = {m \in Metas(vault) : m.id \notin dropped}

\* The locker unlocks only for a call whose credential opens the vault as it is
\* at that moment, HMAC included, tampering and races with lock() or not.
UnlockIsAuthorised ==
    [][lockState = "locked" /\ lockState' = "unlocked"
         => \E c \in Callers :
               /\ stage[c] = "unlock" /\ stage'[c] # "unlock"
               /\ vault.kind = "data"
               /\ vault.sealedBy \in MasterKeys(vault, request[c].cred)]_vars

\* An application that locks and disposes only between calls leaves no plaintext
\* meta behind: none is cached in a locked or disposed locker, and none has left
\* the cache without being erased, whatever the calls were answered.
QuietLockClears ==
    ~raced => /\ lockState = "locked" \/ closed => metaCache = {}
              /\ orphans = {}

\* locker.dart on lock, "Locks the locker and clears all cached data. After
\* locking, authentication will be required to access the data": from a lock()
\* or dispose() to the next call the locker is locked and caches nothing.  A call
\* that was in flight goes on, unlocks the locker and fills the cache.
LockHolds == held => (lockState = "locked" \/ closed) /\ metaCache = {}

\* Every call returns or throws, whatever the storage answers and whenever the
\* application locks or disposes: _sync is released on every path.
CallReturns == \A c \in Callers : stage[c] # "idle" ~> stage[c] = "idle"

=============================================================================
