# mfa_locker in TLA+

A verification development for `mfa_locker`: a Dart library that keeps secret
entries in one encrypted file (the *vault*) that opens with a password or with a
key in the device's biometric hardware, the `biometric_cipher` plugin that talks
to that hardware, and an example application.

## The system

| component | state it keeps | operations | interacts by |
|---|---|---|---|
| `EncryptedStorageImpl` (`lib/storage`) | the vault file; nothing in memory but a re-entrant lock `_sync` | `init`, `addOrReplaceWrap`, `deleteWrap`, `addEntry`, `updateEntry`, `deleteEntry`, `readAllMeta`, `readValue`, `updateLockTimeout`, `erase`, getters | called by `MFALocker`; every operation loads, checks, changes and rewrites the whole file under `_sync` |
| vault file format (`lib/storage/models`) | entries, key wraps, salt, timeout, HMAC key and signature | (de)serialisation | JSON text in the file |
| `HmacStorageMixin` | none | sign, verify | called around every load and save that needs the master key |
| `CryptographyUtils`, cipher functions | none | encrypt, decrypt, derive, wrap | a `CipherFunc` (password + salt, or key tag) wraps and unwraps the master key |
| `Sync` | who holds a lock | `call` | first come, first served; re-entrant within a call |
| `MFALocker` (`lib/locker`) | `locked`/`unlocked`, cache of plaintext metas, a second `_sync` | the public API, `lock`, `dispose`, `setupBiometry`, `teardownBiometry` | awaits the storage several times per call; `lock` and `dispose` run outside `_sync` |
| `SecurityProvider` | none | builds a `CipherFunc` from the stored salt | reads the salt before the call that uses it |
| `BiometricCipherProvider`, `BiometricCipher` (Dart) | `_configured` | `configure`, `generateKey`, `deleteKey`, `encrypt`, `decrypt`, two statuses; maps error codes to exceptions | a method channel to the plugin |
| `biometric_cipher` for Windows (C++) | `ConfigStorage`; the hook of a prompt; frames of suspended coroutines. Windows keeps the credentials | the same methods, each a coroutine that is resumed after every Windows operation | method channel; Windows Hello; the message loop of the runner |
| `biometric_cipher` for Android, iOS, macOS | the hardware key under a tag, configuration | the same methods | method channel; native Kotlin and Swift |
| erasable memory (`lib/erasable`) | bytes, erased flag | `erase` | aliases handed between callers, cache and storage |
| example application (Dart) | inactivity timer (`TimerServiceImpl`), status and biometric-operation state (`LockerBloc`), a sheet of the settings | timer, life-cycle and user events | calls `MFALocker` through a repository, which streams its state back to the bloc |
| Windows runner (C++) | one window with its handle, child and class, the Flutter engine, `COM`, the message loop | `wWinMain`, window messages | hosts the Dart code and, on the same thread, the plugin's coroutines |
| debug tools (`lib/debug`) | a list of watched arrays | memory inspection | none with the rest |

What is hard about it, and what the properties are for (every item is in
`PROJECT.json` under `hazards`, at its line):

* *Failure in the middle of a save.* A save writes `stor_<uuid>.tmp`, deletes the
  vault file and renames. Each step can fail and the process can die between any
  two.
* *Two locks and two objects that ignore them.* Calls of one locker and calls of
  one storage are serialised, each by its own lock that every error path must
  release; `lock()`, `dispose()` and the key store steps of `setupBiometry` are
  under neither, so they fall at any `await` of a call in flight.
* *A cache that must follow the file.* `_metaCache` is changed after an `await`,
  from the request and not from the file.
* *Authority.* An operation is granted by a credential that opens a wrap and by an
  HMAC; one forgotten check signs a tampered file again. The stored salt must stay
  that of the password wrap through every sequence of operations.
* *Windows operations that suspend.* Everything of the plugin runs on one thread, but a
  call is suspended at each Windows operation, and the next call is served meanwhile; any
  of these operations may throw, refuse or answer differently the second time.
* *State on both sides of a channel.* Whether the plugin is configured is kept in Dart and
  in C++, with messages on their way in between.
* *Errors that change their form.* A credential status becomes an HRESULT, a string, a
  code, an exception of the plugin and one of the locker.
* *Re-entrant destruction.* `Destroy` of a window calls `DestroyWindow`, which sends
  `WM_DESTROY`, whose handler calls `Destroy`; the destructor does it all again.
* *A timer against prompts.* The session must not lock under a biometric prompt and must
  lock when nobody is there; the code answers a timer that fires under a prompt by
  dropping it.
* *Errors that are answers.* `isInitialized`, `deleteWrap` and `deleteEntry` turn
  errors into `false`, which callers act on.

What makes each component correct: a storage whose calls look atomic and serial,
change the vault only for who can open it, never sign a broken or tampered vault
and never lose the last one; a locker whose cache is the vault's metas, that
unlocks only for who can open the vault and keeps no plaintext when it is locked;
a biometric set-up in which an enabled wrap always has its key; a plugin that never
replaces a key, ciphers with the configuration the call was made under, says what went
wrong and takes its hooks away; a window that is shown, destroyed once and quits the
process; a session that the timer ends when nobody is there; and no call of storage, locker
or plugin that fails to return.

## The modules

`StorageData` has no variables. It holds the types of the vault file, of requests
and of answers, and for every operation of `EncryptedStorageImpl` three things:
when it is granted (`Check`, with the error it stops with otherwise, in the order
of the code's checks), what it saves (`Saves`) and what it answers (`Success`,
`Failure`). `Outcomes(r, d)` puts them together; a refused biometric prompt (`Prompts`) comes before
the HMAC is checked, as in `_getDecryptedMasterKey`, so it may also be the answer for a
tampered vault. Cryptography is symbolic: a wrap
opens with exactly the credential that made it, a ciphertext carries its master
key, and `sealedBy` is the master key under which the file's HMAC verifies
(`NoKey`: none). JSON, base64, nonces and key derivation are left out; what is kept
of them is whether a file parses, and that a zero-length plaintext cannot be
decrypted. The list of entries is a set because no operation depends on its order.

`VaultPromise` is the abstract storage: a vault and calls that take effect one
after the other, each at once. `Perform` is an operation; `Tidy` is the one thing a call may
do before it takes effect: `init` asks `isInitialized`, which deletes a file of length zero,
and the file stays deleted when the `init` then fails. `Fail`, `Lose`, `Crash` and `Damage` are
what the promise admits of the file system and of others who write the file.

`EncryptedStorage` is the storage on its file. `queue` is `_sync`. `Probe` is the
`isInitialized` of an `init`, a step of its own because it may delete an empty file; `Seen` is what
the `init` believes after it. `Load` is
`_loadData`, the checks, `_getDecryptedMasterKey` and the new contents; `WriteTmp`,
`DeleteOld`, `RenameTmp` are `_writeDataToFile`; `Serve` is an operation that does
not save; `Release` is the end of `Sync.call`. Every step has its failing twin
(`ReadFails`, `ProbeFails`, `WriteTmpFails`, ...). `tmps` are the temporary files
that stay behind. `committed` is a history variable: the last vault that took
effect. `KeepsPromise` says that this module implements `VaultPromise`; a save takes
effect when the old file is deleted, or at the rename when there is none.

`MFALocker` is the locker over `Storage == INSTANCE VaultPromise`: a locker does not
see the steps of a save, so it is checked against the promise. A call is a `stage`:
probe `isInitialized`, load the metas when the locker is locked, then operate; each
stage asks the storage (`CallStorage`) and acts on its answer in one continuation
(`Probed`, `MetaLoaded`, `Written`, `DeletedEntry`, ...), which is what runs between
two `await`s in the code. `Lock` and `Dispose` may happen in any state.
`changePassword`, `enableBiometry` and `disableBiometry` are their storage requests
`addOrReplaceWrap` and `deleteWrap`. `orphans`, `dropped`, `held` and `raced` are history
variables for the properties.

`BiometricAccess` is the key pair under one tag of the hardware key store, the biometric
wrap in the vault, and the calls that must keep the two together. `setupBiometry` is
`CheckDevice`, `Wipe`, `Generate` outside `_sync`, `Authorise`, `Encrypt`, `Save` under it and,
when one of them fails, `Cleanup` outside it again; `teardownBiometry` is `Unwrap` under it and
`Drop` outside. All other calls that save the vault and keep its wrap are `WriteVault`. Every save may
lose the vault and the wrap with it (`SaveFails`, `UnwrapFails`, `WriteLosesVault`, a `Crash` of a
call that is `Saving`), and `init` may replace a vault it cannot read (`InitReplacesVault`). `Encrypt`
uses the key that is under the tag at that moment, which need not be the one the call has generated. A save of the vault is one step here: `EncryptedStorage`
shows why. `usable` is FALSE for a key that the operating system has disabled (a new
enrolment). `events` is a history variable: what has happened that can part a wrap
and its key.

`WindowsPluginData` has no variables: the tables and pure functions of the Windows plugin,
from a Windows status to the exception the application sees, the arguments of each method,
and the version cut out of the TPM's platform type (a sequence of tokens: what the parser
tells apart of the text).

`KeyStorePromise` is what an application may expect of the plugin: key pairs under tags,
never replaced; ciphertexts bound to a key pair and a configuration; calls that take
effect at once, each with the configuration asked for when it was made, or fail
without effect.

`WindowsHello` is the plugin from `BiometricCipher` in Dart to Windows Hello. `inbox` and
`outbox` are the two directions of the method channel; `stage` is the Windows operation a
coroutine waits for, and every action is what runs between two of them, e.g.
`CheckAvailability`, `Open` (`OpenAsync` and the hook), `RequestSign`. `signing` is in the
frame of the coroutine: what `BeginCipher` has read of the configuration before the first
suspension. `Throws` and `PromptThrows` are an operation that throws. `KeepsKeyStorePromise`
is the refinement; `intended`, `expects`, `said` and `overlapped` are history variables for it
and for the other properties.

`WindowsRunner` is the process: `at` is the line of `wWinMain`, `stack` the calls under way to
destroy the window, one step per call back. Creating the window, starting the engine and
the first frame may fail or come late; a window that Windows gives up after `WM_NCCREATE` has set
its handle is `aborted`. `Close` is a close by the user at any moment.

`AutoLock` is the automatic lock: `TimerServiceImpl`, what of `LockerBloc` and `SettingsBloc`
starts, extends, stops or blocks it, and the locker as locked or unlocked. An action is an
event of the Dart event loop with the microtasks it leaves. A bloc runs its event handlers
concurrently: each of `Handlers` has a `call`, from `Begin` through `CallLoads` (`loadAllMetaIfLocked`,
which may unlock) to `CallSucceeds`, `CallFails`, `PromptFails` or `Erased`. What stands between two
of them is `loadState`, for which the screens show an overlay or disable a button (`Offered`), and it is
one flag for all: `_handleBiometricFailure` resets it and goes on to await the state of the biometrics
(`TailEnds`), the end of one call resets it for another, and "Clear all" on the application bar is
never covered. The mark `operation` is one for all in the same way; `unmarked` is a history variable: the end
of one operation has cleared the mark of another. `starting` is `startTimer` waiting for the timeout from the vault, and
`TimerFails` its error path. `left` is the time to `_endTimestamp`; a fired timer is not running, but its
end stays, which is all that `shouldLockOnResume` looks at. `missed` is a history variable:
why an unlocked session has no running timer. Where the order of microtasks is not
fixed by the code (`Ends`, `Erased`) both orders are allowed. A vault is set up again only after the
calls of the one before have ended, which is a bound of the model.

`ExampleApp` composes `WindowsRunner` and `AutoLock`: the session takes steps only
while the message loop runs and the engine is there, ends when the window is destroyed (the engine goes in the
same turn of the loop), and each of its
biometric operations is a coroutine of the plugin in the runner (`prompt`).

The `MC...` modules define the requests TLC makes and the symmetry of the callers.
The modules whose names end in `Proofs` hold the theorems: `StorageDataProofs` and
`WindowsPluginDataProofs` what the data operators do, `EncryptedStorageProofs`,
`VaultPromiseProofs`, `MFALockerProofs`, `BiometricAccessProofs`, `WindowsHelloProofs` and
`ExampleAppProofs` what their systems keep.

Operators named `X_Y` with the comment `Mutant:` are broken variants of `X`, one
for each property, with which the property must fail.

## The runs

| run | question | bounds |
|---|---|---|
| `promise` | Is a vault with a valid HMAC whole, changed only by who can open it, never signed again after tampering, read only by who can open it? | every operation, every credential of 2 secrets x 2 salts, 2 ids, 2 texts of which one is blank, 2 master keys; 1 caller, since the abstract calls are serial anyway; any number of faults |
| `storage` | Is the last vault always somewhere on disk, is every vault ever written whole, do the calls look atomic and serial? | 2 callers, 9 requests, 2 faults of any kind but a failing probe |
| `storage_live` | Does every call return? | 2 callers, 4 requests, 2 faults of any kind |
| `locker` | Is the cache of an unlocked locker the vault's metas, does it unlock only for who can open the vault, is it empty when an application locks between calls? | 2 callers, 8 requests, one fault of any kind, `lock` and `dispose` in any state |
| `locker_live` | Does every call return or throw? | 2 callers, 4 requests, one fault |
| `blank_meta` *(violated)* | Can whoever holds a credential read the metas? | as `promise` |
| `atomic_write` *(violated)* | Is the file always the last vault, whatever failed? | one failing rename |
| `init_over_vault` *(violated)* | Does `init` never replace a vault? | one failing probe |
| `lock_holds` *(violated)* | Is the locker locked and empty from `lock()` to the next call? | no fault |
| `biometric` | Does an enabled wrap keep its key, a disabled one leave none, and does a setup that returns mean what it says? | 2 callers, each with setup, teardown, init, erase and any other saving call, with a right or wrong password; every kind of fault once (5), 4 key pairs |
| `hello` | Does Dart's flag mean a configured plugin, is every hook removed, do errors keep their meaning, is the TPM status true, do the calls keep the promise of the key store, does each return? | 2 callers, one makes every request and decrypts two ciphertexts, the other configures, generates and deletes; 1 tag, 2 key pairs, 2 data; 3 refusals, 3 availabilities, 14 platform types; any operation may throw, any number of times |
| `app` | Is the window shown, destroyed once, does closing it quit with nothing left behind; does the session agree with the locker, keep its timer, hold under prompts, lock in the end? | one window, a close at any moment, 2 operations of `LockerBloc` and one update of the timeout at a time, a timeout of 2 ticks |

Why the bounds are enough. Two callers show every interleaving a queue can: one that
owns the lock and one that waits. Two secrets and salts are the right and a wrong
credential, before and after a change of password; two ids are a clash and none; two
master keys are two lives of the vault, before and after `erase` and `init`. Two
faults are the shortest sequence in which a repair (a retry, a restart) fails too.
`MaxFaults` bounds the number of faults; in `MFALocker` and `BiometricAccess` each kind
happens at most once. Of the key pairs those that nothing refers to any more are reused: the
current one, the wrap's and one per call are at most four. In `hello` two keys are one that a
ciphertext was made with and another, two data a configuration that fits and another; of
the statuses and platform types there is one for every branch that the code takes on
them. Two ticks are a timer that is touched halfway and one that is not, two handlers an operation and one
that begins before it has ended; the proofs cover every other timeout and number of handlers. `HasRoom` bounds the ids: a request that needs a generated id is made only while `Ids`
has one, since `uuid.v4` always does. Deadlock is checked in every
run but `app`, whose process ends.

What the violated runs show of the code:

* `atomic_write`: the old file is deleted before the rename, so a failing rename or a
  crash leaves no vault file; what is left is a temporary file that nothing reads.
  `Recoverable` is the part that holds: the data are always in one of the two.
  Such a file also outlives `erase`: no step of `EncryptedStorage` but a crash or a failed
  save touches `tmps`, and nothing empties it.
* `init_over_vault`: `isInitialized` answers `false` for an I/O error and `init` then
  replaces the vault.
* `blank_meta`: a zero-length meta can be stored and makes the vault unreadable.
* `lock_holds`: `lock()` does not reach a call in flight, which unlocks the locker again
  or puts a meta into its cache. `QuietLockClears` is the part that holds.

What the passing runs show beside, where a property has an exception in it:

* `CacheMatches`: `delete` of the locker drops the entry from the cache even if the storage has
  answered `false`, because of an I/O error, an unknown id or a biometric cipher that the vault has
  no wrap for. These entries are in `dropped`; the cache is the rest of the vault. Faults that
  change the file under an unlocked locker are left out.
* `NoStrayKey` holds through setups and teardowns that overlap: each of them that may leave a
  key without a wrap goes on to give it one or to delete it. The code does leave a key behind when a
  vault with a biometric wrap is erased, when a save of any other call loses it (`lost`), when an `init`
  replaces it because it could not be read, when a key store call fails and when the process dies.
* `WrapHasKey`: `setupBiometry` deletes an existing key before the password is checked. Apart
  from that an enabled wrap loses its key only when setups or teardowns overlap or when
  teardown ignores the `false` of `deleteWrap`.
* `HooksReleased`: the hook of a prompt stays installed when the Windows operation under it
  throws, as `DeleteAsync` does for a key that is not there.
* `ErrorsKeepMeaning` leaves out two things that hold only in part: `deleteKey` of a
  missing key succeeds, as `biometric_cipher_provider.dart` says, only if Hello is available;
  and `encrypt` without a configuration is told an unknown error, not `notConfigured`.
* `FlagAgrees`: two `configure` calls that overlap may leave the flag set for a plugin that is not
  configured.
* `OrphanedOnlyAtEnd`: a coroutine can outlive the engine between the close of the window
  and the end of the message loop, at no other time.
* `SessionIsTimed`: a timer that fires under a biometric operation is dropped and no touch
  starts it again. `InactiveSessionLocks`: only a later return to the application locks
  that session; it does not as long as a sheet of the settings that offers biometrics is open;
  and never if `startTimer` could not read the timeout, which leaves the session without any timer.
* `PromptsAreNotLocked`: the end of one biometric operation, its tail or the closing of the sheet clears the
  mark of every other that is in progress, whose prompt a timer, a resume or the lock button may then
  lock (`unmarked`). The screen that tries out the TPM asks the plugin itself and marks nothing; its prompts are
  not in the model.
* `MessagesFindEngine` speaks of the messages the loop dispatches, not of those that Windows sends while the
  window is being created.

## Fairness

`FairSpec` puts weak fairness on the steps of a call that has begun: the Dart event loop
runs every continuation that is ready, and an operation of the file system ends. The
locker's fairness on the storage is `CallReturns` of `EncryptedStorage`. No caller
has to call, nobody has to lock or dispose, no fault has to happen, and a crash ends
the call it meets.

`WindowsHello` has weak fairness on the steps of each call: the message loop delivers every
message and resumes every coroutine, and a Windows operation ends, a prompt by its
timeout. `ExampleApp` has weak fairness on the thread of the runner (`wWinMain` and the destruction of a
window, of which one at most can go on), on the first frame and its callback, on what the session goes on
to do by itself, and on the clock with the timer. The user need not do anything, close the window or
come back: `InactiveSessionLocks` has these in its premise.

## What is proved

Every invariant and action property of the passing runs, and both refinements, for every value of the constants that the named assumptions admit: any callers,
requests, handlers, faults, ids, texts, secrets, salts, keys, platform types and bounds. The assumptions
say that the nulls are no values, that timeouts are integers (or, for the session, a positive
number of ticks) and that requests, faults and statuses are of their types. Each proof has the same shape: an
inductive invariant, that the initial states satisfy it, that each action keeps it, and
that it implies the property. TLC has checked each inductive invariant on the run of its module.

**The storage on its file** (`EncryptedStorageProofs`)

* `StorageTypes`: `TypeOK` is not inductive: that `RenameTmp` puts a vault into the file needs
  that a call in `staged`, `written` or `cleared` holds one, and that the operation under way is
  one that was asked for. The inductive invariant is `TypeInv == TypeOK /\ Asked /\ HoldsVault`.
* `NeverWhollyLost` (`Recoverable`): inductive relative to `TypeInv`. The only steps that take the
  vault out of the file are `DeleteOld`, which leaves it in the temporary file of the call,
  `Serve` of `erase`, which means it, and the faults, which move a temporary file to `tmps`.
* `SealedVaultsAreWhole` (`SealedCoherent`): inductive relative to `TypeInv`. The argument is per
  operation in `StorageDataProofs` (`SavesCoherent`: a granted request on a vault that is coherent if
  sealed saves a coherent one), and rests on the HMAC check: a save signs what it loaded, so
  without `sealedBy \in MasterKeys` it would seal a tampered vault.
* `ImplementsPromise` (`KeepsPromise`): the storage implements `VaultPromise`. `Serial` adds to `TypeInv`
  that only the owner of `_sync` is past its queue (`OwnsLock`), that what it is about to write is what
  its request computes from the vault that is still the current one (`Computed`), which of its files
  has which vault at which step (`Halfway`), and that a call without an outcome has no answer (`Untold`).
  `InitMaps` and `StepMaps` are the two halves: every step is a step of the promise or changes
  nothing it speaks of; a `Probe` that deletes an empty file is `Tidy`; the save is performed at `DeleteOld`, or at `RenameTmp` when there was no
  file. It assumes that probes do not fail (`"probe" \notin Faults`), because with a failing probe `init`
  replaces a vault, which the promise forbids and the run `init_over_vault` shows.

**The promise of the storage** (`VaultPromiseProofs`): `PromiseTypes`, `SealedIsCoherent`
(`VaultCoherent`), `OnlyHoldersChange` (`ChangesAreAuthorised`), `TamperingIsNeverSigned`
(`TamperingSticks`) and `OnlyHoldersRead` (`ReadsAreAuthorised`). The three action properties follow
from the type invariant and lemmas about the operations: `SaveIsAuthorised` (whatever saves over a vault was
granted by a credential that opens it) and `OkHoldsTheKey`. With `ImplementsPromise` they hold of the file as
well, at the steps where a save takes effect.

**The locker** (`MFALockerProofs`): `LockerTypes`, `QuietLocksClear` (`QuietLockClears`),
`UnlocksForHolders` (`UnlockIsAuthorised`), `CacheIsTheVaults` (`CacheMatches`). `Control` is what each `await` leaves true: only the owner of `_sync` has a call of the
storage, it is the one of its stage, and an answer to an unlocking call still speaks of the vault as it is.
`Quiet` adds that without a race a call past the unlocking finds the locker unlocked. `CacheFits` is the
heart: between the answer of the storage and the continuation the cache is *not* the vault's; what is
true then is that it will be after the continuation (`WillFit`), for each operation in its way.

**Biometric access** (`BiometricAccessProofs`): `BiometricTypes`, `WrapKeepsItsKey` (`WrapHasKey`),
`NoKeyIsLeftBehind` (`NoStrayKey`), `SetupsDeliver` (`SetupDelivers`). The invariant says that without an
overlap one setup or teardown is under way (`Alone`), that the key pair a setup is about to save is the one in
the key store (`BoundFits`), that the vault has no wrap while the key is being replaced or dropped
(`Together`), and that a key without a wrap belongs to a call that will deal with it (`Accounted`). The last needs no
exception for overlaps, which is why `NoStrayKey` has none; it has one for the vaults that an erase, the save of
another call or an `init` takes away with their wrap.

**The Windows plugin** (`WindowsPluginDataProofs`, `WindowsHelloProofs`)

* `TpmStatusMeans`: the parser of the platform type against the meaning of the text
  (`HasMajorVersion`), for texts of any length; by the least-number principle for `Leftmost`, without
  induction over the text.
* `HelloTypes`: the invariant `Sound` says in addition which operations come to which stage (`StagesFit`) and that
  `inbox` and `outbox` hold calls that were sent and answered, each once (`LinesFit`): without it the head of
  a queue could be answered twice.
* `HooksAreReleased` (`HooksReleased`), `ErrorsAreKept` (`ErrorsKeepMeaning`), `TpmStatusTold` (`TpmStatusIsTrue`):
  `Reported` says of every reply that it means its cause. `CallOutcome` shows once, action by action, that a call
  ends with such a reply or goes on to a Windows operation of its kind; the rest uses only that.
* `FlagAlwaysAgrees` (`FlagAgrees`): `LastConfigure` says that a configure call that overlaps no other is the only
  one, finds the flag unset, and when it is answered without an error the plugin has its data.
* `ImplementsKeyStore` (`KeepsKeyStorePromise`): every call ciphers with the configuration asked for when it was
  made, although it reads it later from `ConfigStorage`. The reason is the order of the channel: `InOrder` chains
  the calls in `inbox`, each made under the configuration that the one before leaves, the first under the one in
  the plugin; `SignsExpected` carries it in the frame of the coroutine over the prompt. Then `Send` maps to `Ask`,
  `Receive` to `Return`, a reply to the operation or to `Fail`, and a step to the next Windows operation to none.

**The example application** (`ExampleAppProofs`)

* `SessionTypes`, `BlocShowsLocker`, `UnlockedIsTimed`, `NoTimerWhenLocked`: `AppSpec` implies the
  invariants `SessionTypeOK`, `StatusAgrees`, `SessionIsTimed` and `LockedHasNoTimer`. `StatusAgrees` is not
  inductive: that the bloc may show the session when `startTimer` goes on needs that the
  locker is still unlocked and the status still the one at the start (`StartIsCurrent`), which
  nothing can change because a lock needs the status `unlocked`, an erasure waits, and what is still under
  way beside an initialization is at most the tail of a failed prompt.
* `PromptsHoldTheLock`: `AppSpec => PromptsAreNotLocked`. It needs `PromptIsMarked`: every prompt of
  the bloc or the settings has the biometric operation in progress, unless the end of another operation
  has cleared that mark, which is when `unmarked` is set (`EndsMarks`).
* The inductive invariant of the session is `SessionInv`, all of these together. The runner enters
  that proof only by taking the session back to its beginning.
* `RunnerOfTheApp`: `AppSpec => Spec`. Whatever the session does, the process and its window see of it
  only that a prompt is asked for or ends. So the invariants of the runner are proved of the runner
  alone, where a close, a prompt and its end may come at any moment, and hold in the application
  for any session.
* `RunnerTypes`, `WindowIsWhole` (`MessagesFindEngine`), `WindowDestroyedOnce` (`DestroyedOnce`),
  `LeavesNothing` (`CleanExit`) and `OrphansAreLast` (`OrphanedOnlyAtEnd`). None of them is
  inductive: what a call on the stack may do depends on the calls below it. `RunnerInv` lists what the
  stack can be: nothing (`AtRest`, where the place in `wWinMain` tells what there is), the calls of
  the destructor (`InDestructor`), or those inside `DestroyWindow` (`InDestroyWindow`) on top of the
  one that called it (`CalledFrom`: a close, or `Destroy` of the destructor, which has `clear` left). The
  point of it is the handle: it is gone before `Destroy` runs for the second time, which
  therefore does not reach `DestroyWindow` again. `TopOfStack` turns the stack into what each action needs.

Only model-checked: liveness (`CallReturns`, `ClosingQuits`, `GetsShown`, `InactiveSessionLocks`), which
the prover does not reach. No definition here is recursive, so none needs induction over data.

## What is not modelled

The byte level of encryption, of JSON and of passwords; the order of entries; wall-clock
time; two storages or lockers on one file, which nothing serialises; the Kotlin and Swift
code of the plugin beyond the key store of `BiometricAccess`; window sizes, theme, command
line and the other copies of the Windows runner, which are the same; in the example
application the entries, messages and views, biometric set-up during initialization and
the macOS full-screen transitions that skip a resume, and the screen that tries out the TPM. In the
plugin, that the conversion of an error's message to UTF-8 may throw in its turn. `SecurityProvider` only reads the
salt for the next call: a model's call may bring any salt. Erasable memory aliases
byte arrays that no property here looks into. Debug tools serve neither.
`PROJECT.json` lists each component with its status.

## The plan

Done: the vault (`StorageData`, `VaultPromise`, `EncryptedStorage`), the locker (`MFALocker`,
`BiometricAccess`), the Windows plugin and its promise (`WindowsPluginData`, `KeyStorePromise`,
`WindowsHello`), the example application and its runner (`AutoLock`, `WindowsRunner`, `ExampleApp`),
and the proofs of the safety properties and refinements of all of them.

Next, in this order:

1. Proofs: that a signature made with a key pair is still the one of the tag for any sequence
   of calls, as a property of `KeyStorePromise` that `WindowsHello` inherits by
   `ImplementsKeyStore`.
2. Erasable memory: who may erase a byte array that another holder still uses.
3. The salt that `SecurityProvider` reads before the call, as a step of its own.
