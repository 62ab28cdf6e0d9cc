---------------------------- MODULE StorageData ----------------------------
(***************************************************************************)
(* The contents of the vault file (StorageData, StorageEntry, WrappedKey,  *)
(* KeyWrap) and, for every operation of EncryptedStorageImpl, when it is   *)
(* granted, what it saves and what it answers.  The module has no          *)
(* variables: VaultPromise performs an operation in one step,              *)
(* EncryptedStorage spreads its save over the steps of the file system.    *)
(*                                                                         *)
(* Cryptography is symbolic.  A wrap opens with exactly the credential     *)
(* that made it, a ciphertext carries the master key it was made under,    *)
(* and a file carries in sealedBy the master key under which its HMAC      *)
(* covers the present contents (NoKey: no such key, the HMAC is wrong).    *)
(* The list of entries is a set: no operation depends on its order.        *)
(***************************************************************************)
EXTENDS Integers, FiniteSets

CONSTANTS
    Ids,        \* entry identifiers (without the empty one, readValue finds none)
    Texts,      \* plaintexts of metas and values
    Blank,      \* the zero-length plaintext (a member of Texts, or not)
    Secrets,    \* passwords and hardware key pairs
    Salts,      \* key derivation salts
    Keys,       \* master keys
    Durations,  \* lock timeouts a caller may ask for, in milliseconds
    NoId, NoText, NoSalt, NoKey   \* the null of each of these types

ASSUME StorageAssumption ==
    /\ NoId \notin Ids
    /\ NoText \notin Texts
    /\ NoSalt \notin Salts
    /\ NoKey \notin Keys
    /\ Durations \subseteq Int

-----------------------------------------------------------------------------
(* Types *)

Origin == {"pwd", "bio"}

\* What a CipherFunc is made from: a password with the salt it was derived
\* with, or the key pair behind a key tag, which has no salt.
CipherFunc ==
    [origin : {"pwd"}, secret : Secrets, salt : Salts]
      \cup [origin : {"bio"}, secret : Secrets, salt : {NoSalt}]

KeyWrap == [by : CipherFunc, mk : Keys]

StorageEntry == [id : Ids, meta : Texts, value : Texts, mk : Keys]

Vault == [kind : {"data"}, entries : SUBSET StorageEntry,
          wraps : SUBSET KeyWrap, salt : Salts, lockTimeout : Int,
          sealedBy : Keys \cup {NoKey}]

Absent == [kind |-> "absent"]     \* no such file
Empty == [kind |-> "empty"]       \* a file of length zero
Garbage == [kind |-> "garbage"]   \* a file StorageData.fromJson rejects

Disk == Vault \cup {Absent, Empty, Garbage}

EntryInput == [id : Ids \cup {NoId}, meta : Texts, value : Texts]

Request ==
    [op : {"init"}, cred : {f \in CipherFunc : f.origin = "pwd"},
     inputs : SUBSET EntryInput, lockTimeout : Durations]
      \cup [op : {"addOrReplaceWrap"}, cred : CipherFunc, newCred : CipherFunc]
      \cup [op : {"deleteWrap"}, cred : CipherFunc, origin : Origin]
      \cup [op : {"addEntry"}, cred : CipherFunc, input : EntryInput]
      \cup [op : {"updateEntry"}, cred : CipherFunc, id : Ids,
            meta : Texts \cup {NoText}, value : Texts \cup {NoText}]
      \cup [op : {"deleteEntry", "readValue"}, cred : CipherFunc, id : Ids]
      \cup [op : {"readAllMeta"}, cred : CipherFunc]
      \cup [op : {"updateLockTimeout"}, cred : CipherFunc,
            lockTimeout : Durations]
      \cup [op : {"erase", "isInitialized", "isBiometricEnabled", "salt",
                  "lockTimeout"}]

-----------------------------------------------------------------------------
(* The master key and the checks before an operation *)

Ensure(condition, error) == IF condition THEN "ok" ELSE error

\* isInitialized: the file exists and parses; nothing is verified.
IsInitialized(d) == d.kind = "data"

\* _loadData
LoadCheck(d) ==
    IF d.kind = "absent" THEN "notInitialized"
    ELSE IF d.kind = "data" THEN "ok" ELSE "invalidStorage"

\* The master keys the wraps of d give up to a credential.
MasterKeys(d, cred) == {w.mk : w \in {x \in d.wraps : x.by = cred}}

\* Mutant: the HMAC is not verified.
KeyCheck_NoHmac(d, cred) ==
    IF \A w \in d.wraps : w.by.origin # cred.origin THEN "noWrap"
    ELSE Ensure(MasterKeys(d, cred) # {}, "decryptFailed")

\* _getDecryptedMasterKey: the wrap of the credential's origin, its
\* decryption, the HMAC over the contents.
KeyCheck(d, cred) ==
    IF \A w \in d.wraps : w.by.origin # cred.origin THEN "noWrap"
    ELSE IF MasterKeys(d, cred) = {} THEN "decryptFailed"
    ELSE Ensure(d.sealedBy \in MasterKeys(d, cred), "invalidStorage")

\* Both in turn, with the operation's own check in between.
Guarded(d, cred, own) ==
    IF LoadCheck(d) # "ok" THEN LoadCheck(d)
    ELSE IF own # "ok" THEN own ELSE KeyCheck(d, cred)

HasId(d, id) == d.kind = "data" /\ \E e \in d.entries : e.id = id
Origins(d) == {w.by.origin : w \in d.wraps}

\* _validateNoDuplicateIds over the explicit ids.
NoDuplicateIds(inputs) ==
    \A x, y \in inputs : x # y /\ x.id # NoId => x.id # y.id

\* CryptographyUtils.decrypt rejects a ciphertext without content, which is
\* what encrypt makes of a zero-length plaintext.
DecryptCheck(text) == Ensure(text # Blank, "argumentError")

-----------------------------------------------------------------------------
(* When each operation is granted: "ok" or the error it stops with *)

\* Mutant: init does not ask isInitialized.
InitCheck_Unasked(r, d) ==
    IF r.lockTimeout <= 0 THEN "other"
    ELSE Ensure(NoDuplicateIds(r.inputs), "duplicateEntry")

InitCheck(r, d) ==
    IF IsInitialized(d) THEN "alreadyInitialized"
    ELSE IF r.lockTimeout <= 0 THEN "other"
    ELSE Ensure(NoDuplicateIds(r.inputs), "duplicateEntry")

DeleteWrapCheck(r, d) ==
    Guarded(d, r.cred,
            Ensure(d.kind = "data" => /\ r.origin \in Origins(d)
                                      /\ Origins(d) # {r.origin}, "other"))

AddEntryCheck(r, d) ==
    Guarded(d, r.cred, Ensure(~HasId(d, r.input.id), "duplicateEntry"))

UpdateEntryCheck(r, d) ==
    IF r.meta = NoText /\ r.value = NoText THEN "other"
    ELSE Guarded(d, r.cred, Ensure(HasId(d, r.id), "entryNotFound"))

DeleteEntryCheck(r, d) ==
    Guarded(d, r.cred, Ensure(HasId(d, r.id), "entryNotFound"))

UpdateLockTimeoutCheck(r, d) ==
    IF r.lockTimeout <= 0 THEN "other" ELSE Guarded(d, r.cred, "ok")

ReadAllMetaCheck(r, d) ==
    IF Guarded(d, r.cred, "ok") # "ok" THEN Guarded(d, r.cred, "ok")
    ELSE Ensure(\A e \in d.entries : DecryptCheck(e.meta) = "ok",
                "argumentError")

ReadValueCheck(r, d) ==
    LET granted == Guarded(d, r.cred, Ensure(HasId(d, r.id), "entryNotFound"))
    IN  IF granted # "ok" THEN granted
        ELSE Ensure(\A e \in d.entries :
                        e.id = r.id => DecryptCheck(e.value) = "ok",
                    "argumentError")

Check(r, d) ==
    CASE r.op = "init" -> InitCheck(r, d)
      [] r.op = "addOrReplaceWrap" -> Guarded(d, r.cred, "ok")
      [] r.op = "deleteWrap" -> DeleteWrapCheck(r, d)
      [] r.op = "addEntry" -> AddEntryCheck(r, d)
      [] r.op = "updateEntry" -> UpdateEntryCheck(r, d)
      [] r.op = "deleteEntry" -> DeleteEntryCheck(r, d)
      [] r.op = "updateLockTimeout" -> UpdateLockTimeoutCheck(r, d)
      [] r.op = "readAllMeta" -> ReadAllMetaCheck(r, d)
      [] r.op = "readValue" -> ReadValueCheck(r, d)
      [] r.op \in {"salt", "lockTimeout"} -> LoadCheck(d)
      [] OTHER -> "ok"

-----------------------------------------------------------------------------
(* What a granted operation saves *)

\* Ids for a set of inputs: the explicit ones, and for the others a uuid that
\* is new (uuid.v4 does not repeat).
Assigned(inputs, used) ==
    {f \in [inputs -> Ids] :
        /\ \A x \in inputs : IF x.id = NoId THEN f[x] \notin used
                                            ELSE f[x] = x.id
        /\ \A x, y \in inputs : x.id = NoId /\ f[x] = f[y] => x = y}

Encrypted(f, mk) ==
    {[id |-> f[x], meta |-> x.meta, value |-> x.value, mk |-> mk] :
        x \in DOMAIN f}

\* signDataWithHmac: a fresh HMAC key under mk, and the HMAC of the contents.
Sealed(d, mk) == [d EXCEPT !.sealedBy = mk]

Created(r, f, mk) ==
    [kind |-> "data", entries |-> Encrypted(f, mk),
     wraps |-> {[by |-> r.cred, mk |-> mk]}, salt |-> r.cred.salt,
     lockTimeout |-> r.lockTimeout, sealedBy |-> NoKey]

\* init: a fresh master key, one wrap, the initial entries.
InitSaves(r) ==
    UNION {{Sealed(Created(r, f, mk), mk) : f \in Assigned(r.inputs, {})} :
               mk \in Keys}

\* Mutant: the salt of the new password is not stored.
ReplaceWrap_OldSalt(r, d, mk) ==
    [d EXCEPT !.wraps = {w \in @ : w.by.origin # r.newCred.origin}
                          \cup {[by |-> r.newCred, mk |-> mk]}]

\* Mutant: the salt is taken from a biometric cipher too.
ReplaceWrap_AnySalt(r, d, mk) ==
    [d EXCEPT !.wraps = {w \in @ : w.by.origin # r.newCred.origin}
                          \cup {[by |-> r.newCred, mk |-> mk]},
              !.salt = r.newCred.salt]

ReplaceWrap(r, d, mk) ==
    [d EXCEPT !.wraps = {w \in @ : w.by.origin # r.newCred.origin}
                          \cup {[by |-> r.newCred, mk |-> mk]},
              !.salt = IF r.newCred.origin = "pwd" THEN r.newCred.salt ELSE @]

DropWrap(r, d) == [d EXCEPT !.wraps = {w \in @ : w.by.origin # r.origin}]

AddedEntries(r, d, mk) ==
    {[d EXCEPT !.entries = @ \cup Encrypted(f, mk)] :
        f \in Assigned({r.input}, {e.id : e \in d.entries})}

\* Mutant: the half of the entry that the input leaves out is not kept.
Updated_NoDefault(e, r) == [e EXCEPT !.meta = r.meta, !.value = r.value]

Updated(e, r) ==
    [e EXCEPT !.meta = IF r.meta = NoText THEN @ ELSE r.meta,
              !.value = IF r.value = NoText THEN @ ELSE r.value]

UpdateIn(r, d) ==
    [d EXCEPT !.entries = {e \in @ : e.id # r.id}
                            \cup {Updated(e, r) : e \in {x \in @ : x.id = r.id}}]

DropEntry(r, d) == [d EXCEPT !.entries = {e \in @ : e.id # r.id}]

\* The contents r leaves behind, before they are signed.
Changed(r, d, mk) ==
    CASE r.op = "addOrReplaceWrap" -> {ReplaceWrap(r, d, mk)}
      [] r.op = "deleteWrap" -> {DropWrap(r, d)}
      [] r.op = "addEntry" -> AddedEntries(r, d, mk)
      [] r.op = "updateEntry" -> {UpdateIn(r, d)}
      [] r.op = "deleteEntry" -> {DropEntry(r, d)}
      [] r.op = "updateLockTimeout" -> {[d EXCEPT !.lockTimeout = r.lockTimeout]}
      [] OTHER -> {}

Saves(r, d) ==
    IF r.op = "init" THEN InitSaves(r)
    ELSE UNION {{Sealed(n, mk) : n \in Changed(r, d, mk)} :
                    mk \in MasterKeys(d, r.cred)}

Saving == {"init", "addOrReplaceWrap", "deleteWrap", "addEntry", "updateEntry",
           "deleteEntry", "updateLockTimeout"}

-----------------------------------------------------------------------------
(* What an operation answers *)

Answer(status, data) == [status |-> status, data |-> data]

Status == {"ok", "false", "null", "notInitialized", "alreadyInitialized",
           "invalidStorage", "entryNotFound", "duplicateEntry", "other",
           "noWrap", "decryptFailed", "biometric", "argumentError", "io", "none"}

AnswerData == [id : Ids] \cup [id : Ids, meta : Texts] \cup [value : Texts]
                \cup [salt : Salts] \cup [lockTimeout : Int]

Answers == [status : Status, data : SUBSET AnswerData]

\* The try/catch of each operation: deleteWrap and deleteEntry answer false
\* for any error that is not a refused credential, a getter answers null or
\* false, erase answers false; every other operation rethrows.
Failure(r, error) ==
    IF \/ /\ r.op \in {"deleteWrap", "deleteEntry"}
          /\ error \notin {"decryptFailed", "biometric"}
       \/ r.op \in {"erase", "isInitialized", "isBiometricEnabled"}
    THEN Answer("false", {})
    ELSE IF r.op \in {"salt", "lockTimeout"} THEN Answer("null", {})
    ELSE Answer(error, {})

\* The answer to a granted r on d, when it saves n (n = d if it saves nothing).
Success(r, d, n) ==
    CASE r.op = "addEntry" ->
            Answer("ok", {[id |-> e.id] : e \in n.entries \ d.entries})
      [] r.op = "readAllMeta" ->
            Answer("ok", {[id |-> e.id, meta |-> e.meta] : e \in d.entries})
      [] r.op = "readValue" ->
            Answer("ok", {[value |-> e.value] : e \in {x \in d.entries : x.id = r.id}})
      [] r.op = "salt" -> Answer("ok", {[salt |-> d.salt]})
      [] r.op = "lockTimeout" -> Answer("ok", {[lockTimeout |-> d.lockTimeout]})
      [] r.op = "isInitialized" ->
            Answer(IF IsInitialized(d) THEN "ok" ELSE "false", {})
      [] r.op = "isBiometricEnabled" ->
            Answer(IF d.kind = "data" /\ "bio" \in Origins(d) THEN "ok"
                   ELSE "false", {})
      [] OTHER -> Answer("ok", {})

\* isInitialized deletes a file of length zero.
Tidied(d) == IF d = Empty THEN Absent ELSE d

\* The vault an operation leaves that saves nothing.
Kept(r, d) ==
    IF r.op = "erase" THEN Absent
    ELSE IF r.op = "isInitialized" THEN Tidied(d) ELSE d

\* A biometric prompt is shown: by the decryption of the wrap, which comes
\* after the operation's own checks and before all that the master key tells,
\* or by the encryption of a new one.
Prompts(r, d) ==
    /\ r.op \notin {"erase", "isInitialized", "isBiometricEnabled", "salt",
                    "lockTimeout"}
    /\ \/ /\ r.cred.origin = "bio" /\ d.kind = "data"
          /\ Check(r, d) \in {"ok", "decryptFailed", "invalidStorage",
                              "argumentError"}
       \/ /\ r.op = "addOrReplaceWrap" /\ r.newCred.origin = "bio"
          /\ Check(r, d) = "ok"

Outcome(answer, next) == [answer |-> answer, next |-> next]

\* Everything r may do to the vault d when the file system works.
Outcomes(r, d) ==
    (IF Check(r, d) # "ok" THEN {Outcome(Failure(r, Check(r, d)), d)}
     ELSE IF r.op \in Saving
          THEN {Outcome(Success(r, d, n), n) : n \in Saves(r, d)}
          ELSE {Outcome(Success(r, d, d), Kept(r, d))})
      \cup (IF Prompts(r, d) THEN {Outcome(Failure(r, "biometric"), d)} ELSE {})

-----------------------------------------------------------------------------
(* Calls *)

NoRequest == [op |-> "none"]
NoAnswer == Answer("none", {})

Inputs(r) ==
    IF r.op = "init" THEN r.inputs
    ELSE IF r.op = "addEntry" THEN {r.input} ELSE {}

\* BOUND.  uuid.v4 always has a new id, Ids is finite: a request that needs a
\* generated id is only made while the ids suffice for every pending request.
HasRoom(d, pending) ==
    LET wanted == UNION {{<<c, x>> : x \in Inputs(pending[c])} :
                             c \in DOMAIN pending}
        used == IF d.kind = "data" THEN {e.id : e \in d.entries} ELSE {}
    IN  (\E w \in wanted : w[2].id = NoId)
           => Cardinality(wanted) + Cardinality(used) <= Cardinality(Ids)

\* What external corruption or tampering makes of a vault file: cut to length
\* zero, overwritten, or still parsable with contents the HMAC does not cover.
Damaged(d) ==
    {Empty, Garbage}
      \cup (IF d.kind = "data"
            THEN {[d EXCEPT !.sealedBy = NoKey, !.entries = {}],
                  [d EXCEPT !.sealedBy = NoKey, !.lockTimeout = 0]}
                   \cup {[d EXCEPT !.sealedBy = NoKey, !.salt = s] : s \in Salts}
                   \cup {[d EXCEPT !.sealedBy = NoKey, !.wraps = {w}] :
                            w \in d.wraps}
            ELSE {})

-----------------------------------------------------------------------------
(* What a vault must satisfy *)

\* The HMAC of d verifies under a master key that one of its wraps gives up.
IsSealed(d) == d.kind = "data" /\ \E w \in d.wraps : w.mk = d.sealedBy

\* One master key for every wrap and every entry, one wrap per origin and at
\* least one, one entry per id, a positive timeout, and a stored salt that is
\* the one of the password wrap, without which no password opens the vault.
Coherent(d) ==
    /\ d.wraps # {}
    /\ \A w \in d.wraps : w.mk = d.sealedBy
    /\ \A e \in d.entries : e.mk = d.sealedBy
    /\ \A v, w \in d.wraps : v.by.origin = w.by.origin => v = w
    /\ \A e, f \in d.entries : e.id = f.id => e = f
    /\ \A w \in d.wraps : w.by.origin = "pwd" => w.by.salt = d.salt
    /\ d.lockTimeout > 0

=============================================================================
