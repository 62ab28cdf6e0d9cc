--------------------------- MODULE BiometricAccess ---------------------------
(***************************************************************************)
(* Biometric access to the vault: the key pair under one tag of the key    *)
(* store, the biometric wrap in the vault, and the calls of MFALocker that *)
(* must keep the two together.  setupBiometry wipes and generates the key  *)
(* outside _sync, adds the wrap under _sync and cleans up outside it;      *)
(* teardownBiometry deletes the wrap under _sync and the key outside it.   *)
(* Every other call that saves the vault may lose it, and the wrap with it. *)
(* Of the vault the module keeps whether it exists and which key pair its  *)
(* biometric wrap was made with: a save is one step here, EncryptedStorage *)
(* shows why.                                                              *)
(***************************************************************************)
EXTENDS Integers, FiniteSets, Sequences

CONSTANTS
    Callers,      \* concurrent calls of one MFALocker
    KeyPairs,     \* BOUND on the key pairs that exist at one time
    NoKeyPair,
    Faults,       \* the faults that may happen, a subset of FaultKinds
    MaxFaults     \* BOUND on the number of faults, each kind at most once

FaultKinds == {"keystore", "io", "lose", "crash", "enrol"}

ASSUME BiometricAssumption ==
    /\ NoKeyPair \notin KeyPairs
    /\ Faults \subseteq FaultKinds
    /\ MaxFaults \in Nat

VARIABLES
    keyPair,      \* the key pair under the tag
    usable,       \* the operating system still honours it
    initialized,  \* there is a vault
    wrap,         \* the key pair its biometric wrap was made with
    stage,        \* how far the call of each caller is
    request,      \* what it asks for
    bound,        \* the key pair the master key was encrypted with, before the save
    outcome,      \* how the last call of each caller ended
    queue,        \* _sync: the owner of the lock, then those waiting for it
    events,       \* HISTORY: what may have come between a wrap and its key
    faults        \* the kinds of fault so far

keystore == <<keyPair, usable>>
vault == <<initialized, wrap>>
calls == <<stage, request, bound, outcome>>
vars == <<keystore, vault, calls, queue, events, faults>>

\* password: whether the password the call brings is the one of the vault.
\* "write" is every other call that saves the vault: write, update, delete,
\* changePassword and updateLockTimeout all keep its biometric wrap.
Request ==
    [op : {"setup", "teardown"}, password : BOOLEAN]
        \cup [op : {"init", "erase", "write"}]

NoRequest == [op |-> "none"]

Stage == {"idle", "check", "wipe", "generate", "authorise", "encrypt", "save",
          "cleanup", "unwrap", "drop", "init", "erase", "write"}

\* The stages of a call that has asked for _sync.
UnderSync ==
    {"authorise", "encrypt", "save", "unwrap", "init", "erase", "write"}

\* Two of these under way at a time; a setup of what is enabled already;
\* deleteWrap answering false for a wrap that is there; an erase of a vault
\* with a biometric wrap; the loss of such a vault by the save of a call that
\* has nothing to do with biometry.
Event == {"overlap", "again", "ignored", "erased", "lost"}

Init ==
    /\ keyPair = NoKeyPair
    /\ usable = TRUE
    /\ initialized = FALSE
    /\ wrap = NoKeyPair
    /\ stage = [c \in Callers |-> "idle"]
    /\ request = [c \in Callers |-> NoRequest]
    /\ bound = [c \in Callers |-> NoKeyPair]
    /\ outcome = [c \in Callers |-> "none"]
    /\ queue = <<>>
    /\ events = {}
    /\ faults = {}

-----------------------------------------------------------------------------
(* Calls *)

Biometric(r) == r.op \in {"setup", "teardown"}

FirstStage(r) ==
    CASE r.op = "setup" -> "check"
      [] r.op = "teardown" -> "unwrap"
      [] OTHER -> r.op

Invoke(c) ==
    \E r \in Request :
        /\ stage[c] = "idle"
        /\ stage' = [stage EXCEPT ![c] = FirstStage(r)]
        /\ request' = [request EXCEPT ![c] = r]
        /\ outcome' = [outcome EXCEPT ![c] = "none"]
        /\ queue' = IF r.op = "setup" THEN queue ELSE Append(queue, c)
        /\ events' = events
              \cup (IF Biometric(r) /\ \E x \in Callers : Biometric(request[x])
                    THEN {"overlap"} ELSE {})
              \cup (IF r.op = "setup" /\ wrap # NoKeyPair THEN {"again"} ELSE {})
        /\ UNCHANGED <<keystore, vault, bound, faults>>

At(c, s) == stage[c] = s

\* c is at a stage that runs under _sync, and holds it.
Owns(c, s) == At(c, s) /\ queue # <<>> /\ Head(queue) = c

GoesTo(c, s) ==
    stage' = [stage EXCEPT ![c] = s] /\ UNCHANGED <<request, bound, outcome>>

\* The call returns ("ok") or throws ("error").
Ends(c, result) ==
    /\ stage' = [stage EXCEPT ![c] = "idle"]
    /\ request' = [request EXCEPT ![c] = NoRequest]
    /\ bound' = [bound EXCEPT ![c] = NoKeyPair]
    /\ outcome' = [outcome EXCEPT ![c] = result]

EntersSync(c) == queue' = Append(queue, c)
LeavesSync == queue' = Tail(queue)

Fault(kind) ==
    /\ kind \in Faults
    /\ kind \notin faults /\ Cardinality(faults) < MaxFaults
    /\ faults' = faults \cup {kind}

VaultLost == initialized' = FALSE /\ wrap' = NoKeyPair

\* c is in _writeDataToFile, or may be.
Saving(c) ==
    /\ initialized
    /\ \/ Owns(c, "save")
       \/ Owns(c, "unwrap") /\ request[c].password /\ wrap # NoKeyPair
       \/ Owns(c, "write")

\* The event counts if the vault it comes to has a biometric wrap.
Strays(event) == IF wrap # NoKeyPair THEN events \cup {event} ELSE events

-----------------------------------------------------------------------------
(* setupBiometry *)

\* Steps 1 and 2: the device's TPM and biometry must be supported.
CheckDevice(c) ==
    /\ At(c, "check")
    /\ GoesTo(c, "wipe") \/ Ends(c, "error")
    /\ UNCHANGED <<keystore, vault, queue, events, faults>>

NoKey == keyPair' = NoKeyPair /\ usable' = TRUE

\* Step 3: delete whatever key is there.
Wipe(c) ==
    /\ At(c, "wipe")
    /\ NoKey
    /\ GoesTo(c, "generate")
    /\ UNCHANGED <<vault, queue, events, faults>>

\* Errors of the deletion are ignored.
WipeFails(c) ==
    /\ Fault("keystore")
    /\ At(c, "wipe")
    /\ GoesTo(c, "generate")
    /\ UNCHANGED <<keystore, vault, queue, events>>

InUse == {keyPair, wrap} \cup {bound[x] : x \in Callers}

\* Step 4: every platform refuses to replace a key that exists.
Generate(c) ==
    /\ At(c, "generate")
    /\ IF keyPair # NoKeyPair
       THEN GoesTo(c, "cleanup") /\ UNCHANGED <<keystore, queue>>
       ELSE /\ keyPair' \in KeyPairs \ InUse
            /\ usable' = TRUE
            /\ GoesTo(c, "authorise")
            /\ EntersSync(c)
    /\ UNCHANGED <<vault, events, faults>>

GenerateFails(c) ==
    /\ Fault("keystore")
    /\ At(c, "generate")
    /\ GoesTo(c, "cleanup")
    /\ UNCHANGED <<keystore, vault, queue, events>>

\* enableBiometry throws: out of _sync, into the catch of setupBiometry.
Aborts(c) == GoesTo(c, "cleanup") /\ LeavesSync

\* Mutant: enableBiometry unlocks by loadAllMeta, which takes _sync once more.
Authorise_LoadsAllMeta(c) ==
    /\ Owns(c, "authorise")
    /\ IF initialized /\ request[c].password
       THEN GoesTo(c, "encrypt") /\ EntersSync(c) ELSE Aborts(c)
    /\ UNCHANGED <<keystore, vault, events, faults>>

\* Step 5, under _sync: loadAllMetaIfLocked and the master key, both by password.
Authorise(c) ==
    /\ Owns(c, "authorise")
    /\ IF initialized /\ request[c].password
       THEN GoesTo(c, "encrypt") /\ UNCHANGED queue ELSE Aborts(c)
    /\ UNCHANGED <<keystore, vault, events, faults>>

AuthoriseFails(c) ==
    /\ Fault("io")
    /\ Owns(c, "authorise")
    /\ Aborts(c)
    /\ UNCHANGED <<keystore, vault, events>>

\* newWrapFunc.encrypt(masterKey) with the key now under the tag; the user may
\* refuse the prompt.
Encrypt(c) ==
    /\ Owns(c, "encrypt")
    /\ \/ /\ keyPair # NoKeyPair /\ usable
          /\ stage' = [stage EXCEPT ![c] = "save"]
          /\ bound' = [bound EXCEPT ![c] = keyPair]
          /\ UNCHANGED <<request, outcome, queue>>
       \/ Aborts(c)
    /\ UNCHANGED <<keystore, vault, events, faults>>

\* Mutant: the cleanup is in a finally block.
Save_AlsoCleans(c) ==
    /\ Owns(c, "save")
    /\ wrap' = bound[c]
    /\ NoKey
    /\ Ends(c, "ok")
    /\ LeavesSync
    /\ UNCHANGED <<initialized, events, faults>>

Save(c) ==
    /\ Owns(c, "save")
    /\ wrap' = bound[c]
    /\ Ends(c, "ok")
    /\ LeavesSync
    /\ UNCHANGED <<keystore, initialized, events, faults>>

SaveFails(c) ==
    /\ Owns(c, "save")
    /\ \/ Fault("io") /\ UNCHANGED vault
       \/ Fault("lose") /\ Saving(c) /\ VaultLost
    /\ Aborts(c)
    /\ UNCHANGED <<keystore, events>>

\* Mutant: a setup that fails does not clean up.
Cleanup_Nothing(c) ==
    /\ At(c, "cleanup")
    /\ Ends(c, "error")
    /\ UNCHANGED <<keystore, vault, queue, events, faults>>

\* The catch: delete the key, rethrow.
Cleanup(c) ==
    /\ At(c, "cleanup")
    /\ NoKey
    /\ Ends(c, "error")
    /\ UNCHANGED <<vault, queue, events, faults>>

\* An error of the cleanup is ignored.
CleanupFails(c) ==
    /\ Fault("keystore")
    /\ At(c, "cleanup")
    /\ Ends(c, "error")
    /\ UNCHANGED <<keystore, vault, queue, events>>

-----------------------------------------------------------------------------
(* teardownBiometry *)

\* Mutant: a refused password does not stop the teardown.
Unwrap_AnyPassword(c) ==
    /\ Owns(c, "unwrap")
    /\ wrap' = IF request[c].password THEN NoKeyPair ELSE wrap
    /\ GoesTo(c, "drop")
    /\ LeavesSync
    /\ UNCHANGED <<keystore, initialized, events, faults>>

\* disableBiometry under _sync: a locked locker is unlocked by the password
\* first; deleteWrap looks for the wrap before it asks for the password, and
\* its false is not looked at.
Unwrap(c) ==
    /\ Owns(c, "unwrap")
    /\ \E locked \in BOOLEAN :
          IF /\ initialized
             /\ request[c].password \/ (~locked /\ wrap = NoKeyPair)
          THEN GoesTo(c, "drop") /\ wrap' = NoKeyPair
          ELSE Ends(c, "error") /\ UNCHANGED wrap
    /\ LeavesSync
    /\ UNCHANGED <<keystore, initialized, events, faults>>

\* The storage fails: when the metas are loaded (locked), teardown throws; in
\* deleteWrap it answers false.
UnwrapFails(c) ==
    /\ Owns(c, "unwrap")
    /\ \/ Fault("io") /\ Ends(c, "error") /\ UNCHANGED <<vault, events>>
       \/ /\ Fault("io") /\ initialized
          /\ GoesTo(c, "drop")
          /\ events' = Strays("ignored")
          /\ UNCHANGED vault
       \/ /\ Fault("lose") /\ Saving(c)
          /\ GoesTo(c, "drop") /\ VaultLost /\ UNCHANGED events
    /\ LeavesSync
    /\ UNCHANGED keystore

Drop(c) ==
    /\ At(c, "drop")
    /\ NoKey
    /\ Ends(c, "ok")
    /\ UNCHANGED <<vault, queue, events, faults>>

DropFails(c) ==
    /\ Fault("keystore")
    /\ At(c, "drop")
    /\ Ends(c, "error")
    /\ UNCHANGED <<keystore, vault, queue, events>>

-----------------------------------------------------------------------------
(* The other calls, the device *)

\* A wrong password, an unknown entry, no vault: the call throws.
WriteVault(c) ==
    /\ Owns(c, "write")
    /\ (initialized /\ Ends(c, "ok")) \/ Ends(c, "error")
    /\ LeavesSync
    /\ UNCHANGED <<keystore, vault, events, faults>>

\* The rename fails after the delete; the key stays in the key store.
WriteLosesVault(c) ==
    /\ Fault("lose")
    /\ Owns(c, "write") /\ Saving(c)
    /\ VaultLost
    /\ events' = Strays("lost")
    /\ Ends(c, "error")
    /\ LeavesSync
    /\ UNCHANGED keystore

InitVault(c) ==
    /\ Owns(c, "init")
    /\ initialized' = TRUE
    /\ Ends(c, IF initialized THEN "error" ELSE "ok")
    /\ LeavesSync
    /\ UNCHANGED <<keystore, wrap, events, faults>>

\* The vault cannot be read, which isInitialized takes for none: init replaces
\* it by a vault without a biometric wrap.
InitReplacesVault(c) ==
    /\ Fault("io")
    /\ Owns(c, "init") /\ initialized
    /\ wrap' = NoKeyPair
    /\ events' = Strays("lost")
    /\ Ends(c, "ok")
    /\ LeavesSync
    /\ UNCHANGED <<keystore, initialized>>

\* The key stays in the key store.
EraseStorage(c) ==
    /\ Owns(c, "erase")
    /\ VaultLost
    /\ events' = Strays("erased")
    /\ Ends(c, "ok")
    /\ LeavesSync
    /\ UNCHANGED <<keystore, faults>>

\* The storage call fails without effect, and the call throws.
StorageFails(c) ==
    /\ Fault("io")
    /\ Owns(c, "init") \/ Owns(c, "erase") \/ Owns(c, "write")
    /\ Ends(c, "error")
    /\ LeavesSync
    /\ UNCHANGED <<keystore, vault, events>>

\* A finger or a face is enrolled: the operating system disables the key.
Enrol ==
    /\ Fault("enrol")
    /\ keyPair # NoKeyPair
    /\ usable' = FALSE
    /\ UNCHANGED <<keyPair, vault, calls, queue, events>>

\* The process dies and the application starts again; key and vault stay, but
\* for a vault that was between the delete and the rename of a save.
Crash ==
    /\ Fault("crash")
    /\ stage' = [c \in Callers |-> "idle"]
    /\ request' = [c \in Callers |-> NoRequest]
    /\ bound' = [c \in Callers |-> NoKeyPair]
    /\ outcome' = [c \in Callers |-> "none"]
    /\ queue' = <<>>
    /\ \/ UNCHANGED vault
       \/ (\E c \in Callers : Saving(c)) /\ VaultLost
    /\ UNCHANGED <<keystore, events>>

-----------------------------------------------------------------------------

Step(c) ==
    \/ CheckDevice(c) \/ Wipe(c) \/ Generate(c) \/ Authorise(c) \/ Encrypt(c)
    \/ Save(c) \/ Cleanup(c) \/ Unwrap(c) \/ Drop(c) \/ InitVault(c)
    \/ EraseStorage(c) \/ WriteVault(c)

FaultyStep(c) ==
    \/ WipeFails(c) \/ GenerateFails(c) \/ AuthoriseFails(c) \/ SaveFails(c)
    \/ CleanupFails(c) \/ UnwrapFails(c) \/ DropFails(c) \/ StorageFails(c)
    \/ WriteLosesVault(c) \/ InitReplacesVault(c)

Next ==
    \/ \E c \in Callers : Invoke(c) \/ Step(c) \/ FaultyStep(c)
    \/ Enrol
    \/ Crash

Spec == Init /\ [][Next]_vars

-----------------------------------------------------------------------------
(* Properties *)

\* Types of the key store, of the vault's biometric part and of the calls; only
\* a call that is saving, or whose save failed, holds a wrapped master key; and
\* a call is in the queue of _sync once while it is at a stage that needs the
\* lock, and not at all at any other stage.
TypeOK ==
    /\ keyPair \in KeyPairs \cup {NoKeyPair}
    /\ usable \in BOOLEAN
    /\ initialized \in BOOLEAN
    /\ wrap \in KeyPairs \cup {NoKeyPair}
    /\ stage \in [Callers -> Stage]
    /\ request \in [Callers -> Request \cup {NoRequest}]
    /\ bound \in [Callers -> KeyPairs \cup {NoKeyPair}]
    /\ \A c \in Callers : bound[c] # NoKeyPair => stage[c] \in {"save", "cleanup"}
    /\ outcome \in [Callers -> {"none", "ok", "error"}]
    /\ queue \in Seq(Callers)
    /\ \A i, j \in DOMAIN queue : queue[i] = queue[j] => i = j
    /\ \A c \in Callers :
          stage[c] \in UnderSync <=> \E i \in DOMAIN queue : queue[i] = c
    /\ events \subseteq Event
    /\ faults \subseteq FaultKinds

\* An enabled wrap loses its key in no other way than these three: setups or
\* teardowns that overlap, a setup of what is enabled, a deleteWrap whose false
\* is ignored.  Failing key store and storage calls, refused prompts, wrong
\* passwords and crashes at any other step leave wrap and key together.
WrapHasKey ==
    events \cap {"overlap", "again", "ignored"} = {} /\ wrap # NoKeyPair
        => keyPair = wrap

\* Whatever setups and teardowns end with, and however they overlap, a disabled
\* biometry leaves no key in the key store, unless a key store call failed, the
\* process died, or an enabled vault was erased, lost by the save of another
\* call or replaced by an init that could not read it.
NoStrayKey ==
    /\ \A c \in Callers : stage[c] = "idle"
    /\ wrap = NoKeyPair
    /\ events \cap {"erased", "lost"} = {}
    /\ faults \subseteq {"io", "lose", "enrol"}
    => keyPair = NoKeyPair

\* setupBiometry means what it says: when it returns, and no other overlapped
\* it, the vault has a wrap and the key store the key of that wrap, whatever
\* state it started from and whatever failed on the way.
SetupDelivers ==
    [][\A c \in Callers :
          /\ request[c].op = "setup" /\ stage'[c] = "idle" /\ outcome'[c] = "ok"
          /\ "overlap" \notin events
          => wrap' = keyPair' /\ wrap' # NoKeyPair]_vars

=============================================================================
