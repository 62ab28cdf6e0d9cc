-------------------------- MODULE EncryptedStorage --------------------------
(***************************************************************************)
(* EncryptedStorageImpl on its file.  Every operation runs under _sync:    *)
(* the callers wait in a queue and the one at its head owns the lock.  A   *)
(* saving operation loads the file, checks the request and computes the    *)
(* new contents, and then replaces the file in the steps of                *)
(* _writeDataToFile: write a temporary file, delete the file, rename the   *)
(* temporary file.  Each of these steps may fail, and the process may die  *)
(* between any two.                                                        *)
(***************************************************************************)
EXTENDS StorageData, Sequences

CONSTANTS
    Callers,     \* concurrent users of one EncryptedStorageImpl
    Requests,    \* the requests they make, a subset of Request
    Faults,      \* the faults that may happen, a subset of FaultKinds
    MaxFaults    \* BOUND on the number of faults

FaultKinds == {"read", "probe", "write", "delete", "rename", "erase", "crash",
               "damage"}

ASSUME StorageCallsAssumption ==
    /\ Requests \subseteq Request
    /\ Faults \subseteq FaultKinds
    /\ MaxFaults \in Nat

VARIABLES
    file,        \* the vault file
    tmps,        \* the stor_<uuid>.tmp files left by saves that were cut off
    phase,       \* how far the call of each caller is
    request,     \* what it asked for
    answer,      \* what it will be told
    save,        \* what its temporary file holds or is going to hold
    queue,       \* _sync: the owner of the lock, then those waiting for it
    committed,   \* HISTORY: the vault of the last save that took effect
    faults       \* the number of faults so far

disk == <<file, tmps, committed>>
calls == <<phase, request, answer, save>>
vars == <<disk, calls, queue, faults>>

Phase == {"idle", "queued", "probed", "staged", "written", "cleared", "answered"}

Init ==
    /\ file = Absent
    /\ tmps = {}
    /\ phase = [c \in Callers |-> "idle"]
    /\ request = [c \in Callers |-> NoRequest]
    /\ answer = [c \in Callers |-> NoAnswer]
    /\ save = [c \in Callers |-> Absent]
    /\ queue = <<>>
    /\ committed = Absent
    /\ faults = 0

Waiting(c) == phase[c] \in {"queued", "probed", "staged", "written"}

\* Between delete and rename the vault is in the temporary file.
CurrentVault == IF \E c \in Callers : phase[c] = "cleared" THEN committed ELSE file

-----------------------------------------------------------------------------
(* The operations *)

\* A caller enters Sync.call.
Invoke(c) ==
    \E r \in Requests :
        /\ phase[c] = "idle"
        /\ HasRoom(CurrentVault,
                   [x \in Callers |->
                       IF x = c THEN r
                       ELSE IF Waiting(x) THEN request[x] ELSE NoRequest])
        /\ phase' = [phase EXCEPT ![c] = "queued"]
        /\ request' = [request EXCEPT ![c] = r]
        /\ queue' = Append(queue, c)
        /\ UNCHANGED <<disk, answer, save, faults>>

\* Mutant: operations do not wait for the lock.
Owns_NoLock(c, p) == phase[c] = p /\ queue # <<>>

\* c holds the lock and is in this phase of its operation.
Owns(c, p) == phase[c] = p /\ queue # <<>> /\ Head(queue) = c

MovesTo(c, p) == phase' = [phase EXCEPT ![c] = p]

\* The body of the operation is over, with this answer.
Finishes(c, a) ==
    /\ MovesTo(c, "answered")
    /\ answer' = [answer EXCEPT ![c] = a]
    /\ save' = [save EXCEPT ![c] = Absent]
    /\ UNCHANGED request

\* The new contents are computed and signed.
Stages(c, o) ==
    /\ MovesTo(c, "staged")
    /\ answer' = [answer EXCEPT ![c] = o.answer]
    /\ save' = [save EXCEPT ![c] = o.next]
    /\ UNCHANGED request

\* Outcome o of request r is one that saves.
IsSave(r, o) == r.op \in Saving /\ o.answer.status = "ok"

\* await isInitialized in init, inside the lock that init holds, when it answers
\* false; it deletes a file of length zero, and init goes on to an await.
Probe(c) ==
    /\ Owns(c, "queued")
    /\ request[c].op = "init"
    /\ ~IsInitialized(file)
    /\ MovesTo(c, "probed")
    /\ file' = Tidied(file)
    /\ committed' = IF file' # file THEN file' ELSE committed
    /\ UNCHANGED <<tmps, request, answer, save, queue, faults>>

\* The operation is about to be granted or refused: init when it has been told
\* that there is no vault, or finds one.
Decides(c) ==
    \/ Owns(c, "queued") /\ (request[c].op = "init" => IsInitialized(file))
    \/ Owns(c, "probed")

\* What it takes the vault to be: init believes a probe that has failed.
Seen(c) == IF phase[c] = "probed" /\ IsInitialized(file) THEN Absent ELSE file

\* _loadData, the checks and _getDecryptedMasterKey of a saving operation.
Load(c) ==
    /\ Decides(c)
    /\ \E o \in Outcomes(request[c], Seen(c)) :
          IsSave(request[c], o) /\ Stages(c, o)
    /\ UNCHANGED <<disk, queue, faults>>

\* An operation that reads, one that is refused, erase.
Serve(c) ==
    /\ Decides(c)
    /\ \E o \in Outcomes(request[c], Seen(c)) :
          /\ ~IsSave(request[c], o)
          /\ Finishes(c, o.answer)
          /\ file' = IF phase[c] = "probed" THEN file ELSE o.next
    /\ committed' = IF request[c].op = "erase" \/ file' # file
                    THEN file' ELSE committed
    /\ UNCHANGED <<tmps, queue, faults>>

\* tmpFile.writeAsString(jsonStr, flush: true)
WriteTmp(c) ==
    /\ Owns(c, "staged")
    /\ MovesTo(c, "written")
    /\ UNCHANGED <<disk, request, answer, save, queue, faults>>

\* Mutant: the old file is deleted before the temporary one is written.
DeleteOld_BeforeWrite(c) ==
    /\ Owns(c, "staged")
    /\ file # Absent
    /\ file' = Absent
    /\ UNCHANGED <<tmps, committed, calls, queue, faults>>

\* if (await file.exists()) await file.delete()
DeleteOld(c) ==
    /\ Owns(c, "written")
    /\ file # Absent
    /\ file' = Absent
    /\ committed' = save[c]
    /\ MovesTo(c, "cleared")
    /\ UNCHANGED <<tmps, request, answer, save, queue, faults>>

CanRename(c) == Owns(c, "cleared") \/ (Owns(c, "written") /\ file = Absent)

\* tmpFile.rename(file.path)
RenameTmp(c) ==
    /\ CanRename(c)
    /\ file' = save[c]
    /\ committed' = save[c]
    /\ Finishes(c, answer[c])
    /\ UNCHANGED <<tmps, queue, faults>>

\* The answer or the error reaches the caller and the lock goes to the next.
Release(c) ==
    /\ Owns(c, "answered")
    /\ MovesTo(c, "idle")
    /\ request' = [request EXCEPT ![c] = NoRequest]
    /\ answer' = [answer EXCEPT ![c] = NoAnswer]
    /\ queue' = Tail(queue)
    /\ UNCHANGED <<disk, save, faults>>

-----------------------------------------------------------------------------
(* Faults *)

Fault(kind) ==
    /\ kind \in Faults
    /\ faults < MaxFaults
    /\ faults' = faults + 1

\* Mutant: an error returns to the caller without passing the lock on.
FailsWithIO_KeepsLock(c) ==
    /\ MovesTo(c, "idle")
    /\ request' = [request EXCEPT ![c] = NoRequest]
    /\ answer' = [answer EXCEPT ![c] = NoAnswer]
    /\ save' = [save EXCEPT ![c] = Absent]

FailsWithIO(c) == Finishes(c, Failure(request[c], "io"))

\* The operations that answer from _loadData.
Loads(r) == r.op \notin {"init", "erase", "isInitialized"}

\* file.readAsString throws: _loadData turns it into invalidStorage.
ReadFails(c) ==
    /\ Fault("read")
    /\ Owns(c, "queued")
    /\ file # Absent
    /\ Loads(request[c])
    /\ Finishes(c, Failure(request[c], "invalidStorage"))
    /\ UNCHANGED <<disk, queue>>

\* isInitialized answers false for any error of the file system, and init
\* believes it.
ProbeFails(c) ==
    /\ Fault("probe")
    /\ Owns(c, "queued")
    /\ file # Absent
    /\ \/ /\ request[c].op = "init"
          /\ MovesTo(c, "probed")
          /\ UNCHANGED <<request, answer, save>>
       \/ /\ request[c].op = "isInitialized"
          /\ FailsWithIO(c)
    /\ UNCHANGED <<disk, queue>>

LeavesTmp(c) == tmps' = tmps \cup {save[c]} /\ UNCHANGED <<file, committed>>

\* A partly written temporary file is no vault, and nobody reads it.
WriteTmpFails(c) ==
    /\ Fault("write")
    /\ Owns(c, "staged")
    /\ FailsWithIO(c)
    /\ UNCHANGED <<disk, queue>>

DeleteOldFails(c) ==
    /\ Fault("delete")
    /\ Owns(c, "written")
    /\ file # Absent
    /\ FailsWithIO(c)
    /\ LeavesTmp(c)
    /\ UNCHANGED queue

RenameTmpFails(c) ==
    /\ Fault("rename")
    /\ CanRename(c)
    /\ FailsWithIO(c)
    /\ LeavesTmp(c)
    /\ UNCHANGED queue

EraseFails(c) ==
    /\ Fault("erase")
    /\ Owns(c, "queued")
    /\ request[c].op = "erase"
    /\ file # Absent
    /\ FailsWithIO(c)
    /\ UNCHANGED <<disk, queue>>

HasTmp(c) == phase[c] \in {"written", "cleared"}

\* The process dies and the application starts again.
Crash ==
    /\ Fault("crash")
    /\ tmps' = tmps \cup {save[c] : c \in {x \in Callers : HasTmp(x)}}
    /\ phase' = [c \in Callers |-> "idle"]
    /\ request' = [c \in Callers |-> NoRequest]
    /\ answer' = [c \in Callers |-> NoAnswer]
    /\ save' = [c \in Callers |-> Absent]
    /\ queue' = <<>>
    /\ UNCHANGED <<file, committed>>

\* The file changes under the application, while no operation is under way.
Damage ==
    /\ Fault("damage")
    /\ \A c \in Callers : phase[c] \in {"idle", "queued"}
    /\ file' \in Damaged(file)
    /\ committed' = file'
    /\ UNCHANGED <<tmps, calls, queue>>

-----------------------------------------------------------------------------

Step(c) ==
    \/ Probe(c) \/ Load(c) \/ Serve(c)
    \/ WriteTmp(c) \/ DeleteOld(c) \/ RenameTmp(c) \/ Release(c)

FaultyStep(c) ==
    \/ ReadFails(c) \/ ProbeFails(c) \/ WriteTmpFails(c)
    \/ DeleteOldFails(c) \/ RenameTmpFails(c) \/ EraseFails(c)

Next ==
    \/ \E c \in Callers : Invoke(c) \/ Step(c) \/ FaultyStep(c)
    \/ Crash
    \/ Damage

Spec == Init /\ [][Next]_vars

\* The event loop runs what is ready and the file system answers; no caller
\* has to call.
FairSpec == Spec /\ \A c \in Callers : WF_vars(Step(c))

-----------------------------------------------------------------------------
(* Properties *)

\* Types of the state of EncryptedStorageImpl and of the calls it serves; the
\* one state per call that holds the lock is the body of _sync.
TypeOK ==
    /\ file \in Disk
    /\ tmps \subseteq Vault
    /\ phase \in [Callers -> Phase]
    /\ request \in [Callers -> Requests \cup {NoRequest}]
    /\ answer \in [Callers -> Answers]
    /\ save \in [Callers -> Vault \cup {Absent}]
    /\ queue \in Seq(Callers)
    /\ committed \in Disk
    /\ faults \in 0 .. MaxFaults

\* No vault is ever saved broken: whatever carries a valid HMAC, in the file,
\* in a temporary file or about to be written, has one master key, one wrap
\* per origin, one entry per id, the salt of its password wrap and a positive
\* timeout (_validateNoDuplicateIds, addOrReplaceWrap's salt, the timeout
\* checks, the verification before every save).
SealedCoherent ==
    \A d \in {file} \cup tmps \cup {save[c] : c \in Callers} :
        IsSealed(d) => Coherent(d)

\* The last vault that took effect is never wholly lost: at every moment, in
\* whatever step of _writeDataToFile a save failed or the process died, it is
\* the file or a complete temporary file.
Recoverable ==
    committed # Absent
        => \/ committed = file
           \/ committed \in tmps
           \/ \E c \in Callers : HasTmp(c) /\ save[c] = committed

\* The calls as VaultPromise sees them: a save takes effect when the old file
\* is deleted, or by the rename when there is none.
Promise == INSTANCE VaultPromise WITH
    vault <- CurrentVault,
    phase <- [c \in Callers |->
                 IF phase[c] = "idle" THEN "idle"
                 ELSE IF Waiting(c) THEN "pending" ELSE "performed"],
    answer <- [c \in Callers |-> IF Waiting(c) THEN NoAnswer ELSE answer[c]]

\* The file-level storage keeps the promise of an atomic, serial vault: no
\* lost update between concurrent calls of one instance, no answer for a save
\* that did not happen, no effect of a refused one.
KeepsPromise == Promise!Spec

\* README, "Atomic Writes - Safe file operations to prevent data corruption":
\* outside the delete-rename window of a running save the file is the last vault
\* that took effect, whatever failed.  The code does not keep this.
WritesAreAtomic ==
    (\A c \in Callers : phase[c] # "cleared") /\ IsSealed(committed)
        => file = committed

\* encrypted_storage.dart on init, "Throws [StorageException] if the storage is
\* already initialized": an init never takes the place of a vault.  The code
\* takes a vault it fails to read for none.
InitReplacesNoVault ==
    [][\A c \in Callers :
          /\ request[c].op = "init" /\ HasTmp(c)
          /\ CurrentVault' # CurrentVault
          /\ CurrentVault' = save[c]
          => ~IsInitialized(CurrentVault)]_vars

\* Every call is answered: the lock is released on every path, errors
\* included (the finally blocks and Lock.synchronized).
CallReturns == \A c \in Callers : phase[c] # "idle" ~> phase[c] = "idle"

=============================================================================
