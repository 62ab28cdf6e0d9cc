-------------------------- MODULE StorageDataProofs --------------------------
(* What the operators of StorageData return and preserve, for all requests   *)
(* and all contents of the vault file.                                       *)
EXTENDS StorageData, TLAPS

\* Every check ends in "ok" or in one of the errors of the code.
LEMMA CheckType == ASSUME NEW r, NEW d PROVE Check(r, d) \in Status
<1> USE DEF Status, Ensure
<1>1. LoadCheck(d) \in Status
  BY DEF LoadCheck
<1>2. ASSUME NEW cred PROVE KeyCheck(d, cred) \in Status
  BY DEF KeyCheck
<1>3. ASSUME NEW cred, NEW own \in Status PROVE Guarded(d, cred, own) \in Status
  BY <1>1, <1>2, <1>3 DEF Guarded
<1>4. InitCheck(r, d) \in Status
  BY DEF InitCheck
<1>5. DeleteWrapCheck(r, d) \in Status
  BY <1>3 DEF DeleteWrapCheck
<1>6. AddEntryCheck(r, d) \in Status
  BY <1>3 DEF AddEntryCheck
<1>7. UpdateEntryCheck(r, d) \in Status /\ DeleteEntryCheck(r, d) \in Status
  BY <1>3 DEF UpdateEntryCheck, DeleteEntryCheck
<1>8. UpdateLockTimeoutCheck(r, d) \in Status /\ Guarded(d, r.cred, "ok") \in Status
  BY <1>3 DEF UpdateLockTimeoutCheck
<1>9. ReadAllMetaCheck(r, d) \in Status
  BY <1>3 DEF ReadAllMetaCheck
<1>10. ReadValueCheck(r, d) \in Status
  BY <1>3 DEF ReadValueCheck
<1>11. QED
  BY <1>1, <1>4, <1>5, <1>6, <1>7, <1>8, <1>9, <1>10 DEF Check

\* A failed operation answers with a status and no data.
LEMMA FailureType ==
    ASSUME NEW r, NEW error \in Status
    PROVE  Failure(r, error) \in Answers
BY DEF Failure, Answers, Answer, Status

\* A failed operation never answers "ok".
LEMMA FailureNotOk ==
    ASSUME NEW r, NEW error \in Status, error # "ok"
    PROVE  Failure(r, error).status # "ok"
BY DEF Failure, Answer

-----------------------------------------------------------------------------

\* Encryption makes entries of inputs and their ids.
LEMMA EncryptedType ==
    ASSUME NEW inputs \in SUBSET EntryInput, NEW used, NEW mk \in Keys,
           NEW f \in Assigned(inputs, used)
    PROVE  Encrypted(f, mk) \in SUBSET StorageEntry
<1>1. f \in [inputs -> Ids]
  BY DEF Assigned
<1>2. ASSUME NEW x \in inputs
      PROVE  [id |-> f[x], meta |-> x.meta, value |-> x.value, mk |-> mk]
                \in StorageEntry
  BY <1>1 DEF EntryInput, StorageEntry
<1>3. QED
  BY <1>1, <1>2 DEF Encrypted

\* What the wraps of a vault give up is a master key.
LEMMA MasterKeysType ==
    ASSUME NEW d \in Vault, NEW cred PROVE MasterKeys(d, cred) \in SUBSET Keys
BY DEF MasterKeys, Vault, KeyWrap

\* Signing a vault makes a vault.
LEMMA SealedType ==
    ASSUME NEW d \in Vault, NEW mk \in Keys PROVE Sealed(d, mk) \in Vault
BY DEF Sealed, Vault

\* What init saves is a vault.
LEMMA InitSavesType ==
    ASSUME NEW r \in Request, r.op = "init" PROVE InitSaves(r) \in SUBSET Vault
<1>1. /\ r.cred \in {f \in CipherFunc : f.origin = "pwd"}
      /\ r.inputs \in SUBSET EntryInput
      /\ r.lockTimeout \in Int
  BY StorageAssumption DEF Request
<1>2. r.cred \in CipherFunc /\ r.cred.salt \in Salts
  BY <1>1 DEF CipherFunc
<1>3. ASSUME NEW mk \in Keys, NEW f \in Assigned(r.inputs, {})
      PROVE  Sealed(Created(r, f, mk), mk) \in Vault
  <2>1. Encrypted(f, mk) \in SUBSET StorageEntry
    BY <1>1, <1>3, EncryptedType
  <2>2. {[by |-> r.cred, mk |-> mk]} \in SUBSET KeyWrap
    BY <1>2 DEF KeyWrap
  <2>3. Created(r, f, mk) \in Vault
    BY <1>1, <1>2, <2>1, <2>2 DEF Created, Vault
  <2>4. QED
    BY <2>3, SealedType
<1>4. QED
  BY <1>3 DEF InitSaves

\* What any other saving operation makes of a vault is a vault.
LEMMA ChangedType ==
    ASSUME NEW r \in Request, NEW d \in Vault, NEW mk \in Keys
    PROVE  Changed(r, d, mk) \in SUBSET Vault
<1>1. CASE r.op = "addOrReplaceWrap"
  <2>1. r.newCred \in CipherFunc
    BY <1>1 DEF Request
  <2>2. [by |-> r.newCred, mk |-> mk] \in KeyWrap
    BY <2>1 DEF KeyWrap
  <2>3. {w \in d.wraps : w.by.origin # r.newCred.origin}
           \cup {[by |-> r.newCred, mk |-> mk]} \in SUBSET KeyWrap
    BY <2>2 DEF Vault
  <2>4. (IF r.newCred.origin = "pwd" THEN r.newCred.salt ELSE d.salt) \in Salts
    BY <2>1 DEF CipherFunc, Vault
  <2>5. ReplaceWrap(r, d, mk) \in Vault
    BY <2>3, <2>4 DEF ReplaceWrap, Vault
  <2>6. QED
    BY <1>1, <2>5 DEF Changed
<1>2. CASE r.op = "deleteWrap"
  <2>1. DropWrap(r, d) \in Vault
    BY DEF DropWrap, Vault
  <2>2. QED
    BY <1>2, <2>1 DEF Changed
<1>3. CASE r.op = "addEntry"
  <2>1. {r.input} \in SUBSET EntryInput
    BY <1>3 DEF Request
  <2>2. ASSUME NEW f \in Assigned({r.input}, {e.id : e \in d.entries})
        PROVE  [d EXCEPT !.entries = @ \cup Encrypted(f, mk)] \in Vault
    <3>1. Encrypted(f, mk) \in SUBSET StorageEntry
      BY <2>1, <2>2, EncryptedType
    <3>2. QED
      BY <3>1 DEF Vault
  <2>3. AddedEntries(r, d, mk) \in SUBSET Vault
    BY <2>2 DEF AddedEntries
  <2>4. QED
    BY <1>3, <2>3 DEF Changed
<1>4. CASE r.op = "updateEntry"
  <2>1. r.meta \in Texts \cup {NoText} /\ r.value \in Texts \cup {NoText}
    BY <1>4 DEF Request
  <2>2. ASSUME NEW e \in StorageEntry PROVE Updated(e, r) \in StorageEntry
    BY <2>1, <2>2 DEF Updated, StorageEntry
  <2>3. UpdateIn(r, d) \in Vault
    BY <2>2 DEF UpdateIn, Vault
  <2>4. QED
    BY <1>4, <2>3 DEF Changed
<1>5. CASE r.op = "deleteEntry"
  <2>1. DropEntry(r, d) \in Vault
    BY DEF DropEntry, Vault
  <2>2. QED
    BY <1>5, <2>1 DEF Changed
<1>6. CASE r.op = "updateLockTimeout"
  <2>1. r.lockTimeout \in Int
    BY <1>6, StorageAssumption DEF Request
  <2>2. [d EXCEPT !.lockTimeout = r.lockTimeout] \in Vault
    BY <2>1 DEF Vault
  <2>3. QED
    BY <1>6, <2>2 DEF Changed
<1>7. CASE r.op \notin Saving \ {"init"}
  <2>1. Changed(r, d, mk) = {}
    BY <1>7 DEF Changed, Saving
  <2>2. QED
    BY <2>1
<1>8. QED
  BY <1>1, <1>2, <1>3, <1>4, <1>5, <1>6, <1>7 DEF Saving

\* The operations that ask the vault for its master key.
Keyed == (Saving \ {"init"}) \cup {"readAllMeta", "readValue"}

\* A keyed request is granted on nothing but a vault.
LEMMA GrantedOnVault ==
    ASSUME NEW r, NEW d \in Disk, r.op \in Keyed, Check(r, d) = "ok"
    PROVE  d \in Vault
<1>1. LoadCheck(d) = "ok"
  BY DEF Check, Keyed, Saving, Guarded, DeleteWrapCheck, AddEntryCheck,
         UpdateEntryCheck, DeleteEntryCheck, UpdateLockTimeoutCheck,
         ReadAllMetaCheck, ReadValueCheck
<1>2. d.kind = "data"
  BY <1>1 DEF LoadCheck
<1>3. QED
  BY <1>2 DEF Disk, Absent, Empty, Garbage

\* Whatever a granted request saves is a vault.
LEMMA SavesType ==
    ASSUME NEW r \in Request, NEW d \in Disk, r.op \in Saving, Check(r, d) = "ok"
    PROVE  Saves(r, d) \in SUBSET Vault
<1>1. CASE r.op = "init"
  BY <1>1, InitSavesType DEF Saves
<1>2. CASE r.op # "init"
  <2>1. d \in Vault
    BY <1>2, GrantedOnVault DEF Keyed
  <2>2. ASSUME NEW mk \in MasterKeys(d, r.cred), NEW n \in Changed(r, d, mk)
        PROVE  Sealed(n, mk) \in Vault
    <3>1. mk \in Keys
      BY <2>1, <2>2, MasterKeysType
    <3>2. n \in Vault
      BY <2>1, <2>2, <3>1, ChangedType
    <3>3. QED
      BY <3>1, <3>2, SealedType
  <2>3. QED
    BY <1>2, <2>2 DEF Saves
<1>3. QED
  BY <1>1, <1>2

-----------------------------------------------------------------------------
(* Coherence *)

\* Who gets past the checks of a keyed request holds the one master key of a
\* sealed vault.
LEMMA GrantedBySeal ==
    ASSUME NEW r, NEW d \in Disk, r.op \in Keyed, Check(r, d) = "ok"
    PROVE  d \in Vault /\ d.sealedBy \in MasterKeys(d, r.cred) /\ IsSealed(d)
<1>1. d \in Vault
  BY GrantedOnVault
<1>2. KeyCheck(d, r.cred) = "ok"
  <2>1. ASSUME NEW own, Guarded(d, r.cred, own) = "ok"
        PROVE  KeyCheck(d, r.cred) = "ok"
    BY <2>1 DEF Guarded
  <2>2. \E own : Guarded(d, r.cred, own) = "ok"
    BY DEF Check, Keyed, Saving, DeleteWrapCheck, AddEntryCheck, UpdateEntryCheck,
           DeleteEntryCheck, UpdateLockTimeoutCheck, ReadAllMetaCheck, ReadValueCheck
  <2>3. QED
    BY <2>1, <2>2
<1>3. d.sealedBy \in MasterKeys(d, r.cred)
  BY <1>2 DEF KeyCheck, Ensure
<1>4. IsSealed(d)
  BY <1>1, <1>3 DEF IsSealed, MasterKeys, Vault
<1>5. QED
  BY <1>1, <1>3, <1>4

\* The checks an operation makes on its own, when it is granted.
LEMMA OwnChecks ==
    ASSUME NEW r \in Request, NEW d \in Disk, Check(r, d) = "ok"
    PROVE  /\ r.op = "init" => r.lockTimeout > 0 /\ NoDuplicateIds(r.inputs)
           /\ r.op = "updateLockTimeout" => r.lockTimeout > 0
           /\ r.op = "deleteWrap" => Origins(d) # {r.origin}
           /\ r.op = "addEntry" => ~HasId(d, r.input.id)
<1>1. ASSUME NEW own, Guarded(d, r.cred, own) = "ok" PROVE own = "ok" /\ LoadCheck(d) = "ok"
  BY <1>1 DEF Guarded
<1>2. ASSUME r.op = "init" PROVE r.lockTimeout > 0 /\ NoDuplicateIds(r.inputs)
  <2>1. r.lockTimeout \in Int
    BY <1>2, StorageAssumption DEF Request
  <2>2. QED
    BY <1>2, <2>1 DEF Check, InitCheck, Ensure
<1>3. ASSUME r.op = "updateLockTimeout" PROVE r.lockTimeout > 0
  <2>1. r.lockTimeout \in Int
    BY <1>3, StorageAssumption DEF Request
  <2>2. QED
    BY <1>3, <2>1 DEF Check, UpdateLockTimeoutCheck
<1>4. ASSUME r.op = "deleteWrap" PROVE Origins(d) # {r.origin}
  <2>1. DeleteWrapCheck(r, d) = "ok"
    BY <1>4 DEF Check
  <2>2. LoadCheck(d) = "ok"
    BY <2>1, <1>1 DEF DeleteWrapCheck
  <2>3. d.kind = "data"
    BY <2>2 DEF LoadCheck
  <2>4. QED
    BY <2>1, <2>3, <1>1 DEF DeleteWrapCheck, Ensure
<1>5. ASSUME r.op = "addEntry" PROVE ~HasId(d, r.input.id)
  BY <1>5, <1>1 DEF Check, AddEntryCheck, Ensure
<1>6. QED
  BY <1>2, <1>3, <1>4, <1>5

\* Signing leaves the contents alone.
LEMMA SealedFields ==
    ASSUME NEW n \in Vault, NEW mk \in Keys
    PROVE  /\ Sealed(n, mk).entries = n.entries
           /\ Sealed(n, mk).wraps = n.wraps
           /\ Sealed(n, mk).salt = n.salt
           /\ Sealed(n, mk).lockTimeout = n.lockTimeout
           /\ Sealed(n, mk).sealedBy = mk
           /\ Sealed(n, mk).kind = "data"
BY DEF Sealed, Vault

\* A new vault is coherent: one wrap, distinct ids, its own salt.
LEMMA InitCoherent ==
    ASSUME NEW r \in Request, r.op = "init",
           r.lockTimeout > 0, NoDuplicateIds(r.inputs),
           NEW mk \in Keys, NEW f \in Assigned(r.inputs, {})
    PROVE  Coherent(Sealed(Created(r, f, mk), mk))
<1> DEFINE n == Created(r, f, mk)
<1>1. /\ r.inputs \in SUBSET EntryInput
      /\ r.cred \in CipherFunc
      /\ r.lockTimeout \in Int
  BY StorageAssumption DEF Request
<1>2. f \in [r.inputs -> Ids] /\ n.entries = Encrypted(f, mk)
  BY DEF Created, Assigned
<1>3. ASSUME NEW x \in r.inputs, NEW y \in r.inputs, f[x] = f[y] PROVE x = y
  <2>1. CASE x.id = NoId
    BY <1>3, <2>1 DEF Assigned
  <2>2. CASE y.id = NoId
    BY <1>3, <2>2 DEF Assigned
  <2>3. CASE x.id # NoId /\ y.id # NoId
    <3>1. f[x] = x.id /\ f[y] = y.id
      BY <2>3 DEF Assigned
    <3>2. QED
      BY <1>3, <2>3, <3>1 DEF NoDuplicateIds
  <2>4. QED
    BY <2>1, <2>2, <2>3
<1>4. \A e, g \in n.entries : e.id = g.id => e = g
  BY <1>2, <1>3 DEF Encrypted
<1>5. \A e \in n.entries : e.mk = mk
  BY <1>2 DEF Encrypted
<1>6. n.wraps = {[by |-> r.cred, mk |-> mk]} /\ n.salt = r.cred.salt
        /\ n.lockTimeout = r.lockTimeout
  BY DEF Created
<1>7. /\ Sealed(n, mk).entries = n.entries
      /\ Sealed(n, mk).wraps = n.wraps
      /\ Sealed(n, mk).salt = n.salt
      /\ Sealed(n, mk).lockTimeout = n.lockTimeout
      /\ Sealed(n, mk).sealedBy = mk
  BY DEF Sealed, Created
<1>8. QED
  BY <1>4, <1>5, <1>6, <1>7 DEF Coherent

\* Every change of a coherent vault that gets past the operation's own checks
\* leaves a coherent vault.
LEMMA ChangedCoherent ==
    ASSUME NEW r \in Request, NEW d \in Vault, Coherent(d),
           NEW n \in Changed(r, d, d.sealedBy), d.sealedBy \in Keys,
           r.op = "updateLockTimeout" => r.lockTimeout > 0,
           r.op = "deleteWrap" => Origins(d) # {r.origin},
           r.op = "addEntry" => ~HasId(d, r.input.id)
    PROVE  Coherent(Sealed(n, d.sealedBy))
<1> DEFINE mk == d.sealedBy
<1>1. n \in Vault
  BY ChangedType
<1>2. SUFFICES
        /\ n.wraps # {}
        /\ \A w \in n.wraps : w.mk = mk
        /\ \A e \in n.entries : e.mk = mk
        /\ \A v, w \in n.wraps : v.by.origin = w.by.origin => v = w
        /\ \A e, f \in n.entries : e.id = f.id => e = f
        /\ \A w \in n.wraps : w.by.origin = "pwd" => w.by.salt = n.salt
        /\ n.lockTimeout > 0
  BY <1>1, SealedFields DEF Coherent
<1>3. CASE r.op = "addOrReplaceWrap"
  <2>1. n = ReplaceWrap(r, d, mk)
    BY <1>3 DEF Changed
  <2>2. /\ n.wraps = {w \in d.wraps : w.by.origin # r.newCred.origin}
                       \cup {[by |-> r.newCred, mk |-> mk]}
        /\ n.salt = IF r.newCred.origin = "pwd" THEN r.newCred.salt ELSE d.salt
        /\ n.entries = d.entries
        /\ n.lockTimeout = d.lockTimeout
    BY <2>1 DEF ReplaceWrap, Vault
  <2> DEFINE new == [by |-> r.newCred, mk |-> mk]
  <2>3. n.wraps # {} /\ \A w \in n.wraps : w.mk = mk
    <3>1. new \in n.wraps /\ new.mk = mk
      BY <2>2
    <3>2. \A w \in n.wraps : w = new \/ w \in d.wraps
      BY <2>2
    <3>3. \A w \in d.wraps : w.mk = mk
      BY DEF Coherent
    <3> HIDE DEF new
    <3>4. QED
      BY <3>1, <3>2, <3>3
  <2>4. \A v, w \in n.wraps : v.by.origin = w.by.origin => v = w
    <3>1. new.by.origin = r.newCred.origin
      OBVIOUS
    <3>2. \A v \in n.wraps : v = new \/ (v \in d.wraps /\ v.by.origin # r.newCred.origin)
      BY <2>2
    <3>3. \A v, w \in d.wraps : v.by.origin = w.by.origin => v = w
      BY DEF Coherent
    <3> HIDE DEF new
    <3>4. QED
      BY <3>1, <3>2, <3>3
  <2>5. \A w \in n.wraps : w.by.origin = "pwd" => w.by.salt = n.salt
    <3>1. CASE r.newCred.origin = "pwd"
      BY <2>2, <3>1
    <3>2. CASE r.newCred.origin # "pwd"
      BY <2>2, <3>2 DEF Coherent
    <3>3. QED
      BY <3>1, <3>2
  <2>6. QED
    BY <2>2, <2>3, <2>4, <2>5 DEF Coherent
<1>4. CASE r.op = "deleteWrap"
  <2>1. n = DropWrap(r, d)
    BY <1>4 DEF Changed
  <2>2. /\ n.wraps = {w \in d.wraps : w.by.origin # r.origin}
        /\ n.salt = d.salt /\ n.entries = d.entries
        /\ n.lockTimeout = d.lockTimeout
    BY <2>1 DEF DropWrap, Vault
  <2>3. n.wraps # {}
    BY <1>4, <2>2 DEF Origins, Coherent
  <2>4. QED
    BY <2>2, <2>3 DEF Coherent
<1>5. CASE r.op = "addEntry"
  <2>1. PICK f \in Assigned({r.input}, {e.id : e \in d.entries}) :
            n = [d EXCEPT !.entries = @ \cup Encrypted(f, mk)]
    BY <1>5 DEF Changed, AddedEntries
  <2>2. /\ n.entries = d.entries \cup Encrypted(f, mk)
        /\ n.wraps = d.wraps /\ n.salt = d.salt
        /\ n.lockTimeout = d.lockTimeout
    BY <2>1 DEF Vault
  <2>3. Encrypted(f, mk) =
          {[id |-> f[r.input], meta |-> r.input.meta, value |-> r.input.value,
            mk |-> mk]}
    BY DEF Encrypted, Assigned
  <2>4. \A e \in d.entries : e.id # f[r.input]
    BY <1>5 DEF Assigned, HasId, Vault
  <2>5. QED
    BY <2>2, <2>3, <2>4 DEF Coherent
<1>6. CASE r.op = "updateEntry"
  <2>1. n = UpdateIn(r, d)
    BY <1>6 DEF Changed
  <2>2. /\ n.entries = {e \in d.entries : e.id # r.id}
                         \cup {Updated(e, r) : e \in {x \in d.entries : x.id = r.id}}
        /\ n.wraps = d.wraps /\ n.salt = d.salt
        /\ n.lockTimeout = d.lockTimeout
    BY <2>1 DEF UpdateIn, Vault
  <2>3. \A e \in d.entries : Updated(e, r).id = e.id /\ Updated(e, r).mk = e.mk
    BY DEF Updated, Vault, StorageEntry
  <2>4. QED
    BY <2>2, <2>3 DEF Coherent
<1>7. CASE r.op = "deleteEntry"
  <2>1. n = DropEntry(r, d)
    BY <1>7 DEF Changed
  <2>2. /\ n.entries = {e \in d.entries : e.id # r.id}
        /\ n.wraps = d.wraps /\ n.salt = d.salt
        /\ n.lockTimeout = d.lockTimeout
    BY <2>1 DEF DropEntry, Vault
  <2>3. QED
    BY <2>2 DEF Coherent
<1>8. CASE r.op = "updateLockTimeout"
  <2>1. n = [d EXCEPT !.lockTimeout = r.lockTimeout]
    BY <1>8 DEF Changed
  <2>2. /\ n.entries = d.entries /\ n.wraps = d.wraps /\ n.salt = d.salt
        /\ n.lockTimeout = r.lockTimeout
    BY <2>1 DEF Vault
  <2>3. QED
    BY <1>8, <2>2 DEF Coherent
<1>9. QED
  BY <1>3, <1>4, <1>5, <1>6, <1>7, <1>8 DEF Changed

\* Whatever a granted request saves is coherent, if what it loaded was.
LEMMA SavesCoherent ==
    ASSUME NEW r \in Request, NEW d \in Disk, r.op \in Saving,
           Check(r, d) = "ok", IsSealed(d) => Coherent(d), NEW n \in Saves(r, d)
    PROVE  Coherent(n)
<1>1. CASE r.op = "init"
  BY <1>1, OwnChecks, InitCoherent DEF Saves, InitSaves
<1>2. CASE r.op # "init"
  <2>1. d \in Vault /\ d.sealedBy \in MasterKeys(d, r.cred) /\ Coherent(d)
    BY <1>2, GrantedBySeal DEF Keyed
  <2>2. PICK mk \in MasterKeys(d, r.cred) :
            n \in {Sealed(x, mk) : x \in Changed(r, d, mk)}
    BY <1>2 DEF Saves
  <2>3. mk = d.sealedBy /\ mk \in Keys
    BY <2>1, <2>2, MasterKeysType DEF MasterKeys, Coherent
  <2>4. QED
    BY <2>1, <2>2, <2>3, OwnChecks, ChangedCoherent
<1>3. QED
  BY <1>1, <1>2

-----------------------------------------------------------------------------
(* Outcomes *)

\* Reads that are granted are granted on a vault.
LEMMA ReadOnVault ==
    ASSUME NEW r, NEW d \in Disk, Check(r, d) = "ok",
           r.op \in {"readAllMeta", "readValue", "salt", "lockTimeout"}
    PROVE  d \in Vault
<1>1. LoadCheck(d) = "ok"
  BY DEF Check, Guarded, ReadAllMetaCheck, ReadValueCheck
<1>2. d.kind = "data"
  BY <1>1 DEF LoadCheck
<1>3. QED
  BY <1>2 DEF Disk, Absent, Empty, Garbage

\* A status with data is an answer.
LEMMA AnswerType ==
    ASSUME NEW status \in Status, NEW data \in SUBSET AnswerData
    PROVE  Answer(status, data) \in Answers
BY DEF Answer, Answers

\* A granted operation answers with the data of its kind.
LEMMA SuccessType ==
    ASSUME NEW r \in Request, NEW d \in Disk, Check(r, d) = "ok",
           NEW n \in Disk, r.op \in Saving => n \in Vault
    PROVE  Success(r, d, n) \in Answers
<1> USE DEF Status
<1>1. CASE r.op = "addEntry"
  <2>1. n.entries \in SUBSET StorageEntry
    BY <1>1 DEF Saving, Vault
  <2>2. {[id |-> e.id] : e \in n.entries \ d.entries} \in SUBSET AnswerData
    BY <2>1 DEF StorageEntry, AnswerData
  <2>3. QED
    BY <1>1, <2>2, AnswerType DEF Success
<1>2. CASE r.op = "readAllMeta"
  <2>1. d.entries \in SUBSET StorageEntry
    BY <1>2, ReadOnVault DEF Vault
  <2>2. {[id |-> e.id, meta |-> e.meta] : e \in d.entries} \in SUBSET AnswerData
    BY <2>1 DEF StorageEntry, AnswerData
  <2>3. QED
    BY <1>2, <2>2, AnswerType DEF Success
<1>3. CASE r.op = "readValue"
  <2>1. d.entries \in SUBSET StorageEntry
    BY <1>3, ReadOnVault DEF Vault
  <2>2. {[value |-> e.value] : e \in {x \in d.entries : x.id = r.id}}
           \in SUBSET AnswerData
    BY <2>1 DEF StorageEntry, AnswerData
  <2>3. QED
    BY <1>3, <2>2, AnswerType DEF Success
<1>4. CASE r.op = "salt"
  <2>1. {[salt |-> d.salt]} \in SUBSET AnswerData
    BY <1>4, ReadOnVault DEF Vault, AnswerData
  <2>2. QED
    BY <1>4, <2>1, AnswerType DEF Success
<1>5. CASE r.op = "lockTimeout"
  <2>1. {[lockTimeout |-> d.lockTimeout]} \in SUBSET AnswerData
    BY <1>5, ReadOnVault DEF Vault, AnswerData
  <2>2. QED
    BY <1>5, <2>1, AnswerType DEF Success
<1>6. CASE r.op \in {"isInitialized", "isBiometricEnabled"}
  BY <1>6, AnswerType DEF Success
<1>7. CASE r.op \notin {"addEntry", "readAllMeta", "readValue", "salt",
                        "lockTimeout", "isInitialized", "isBiometricEnabled"}
  <2>1. Success(r, d, n) = Answer("ok", {})
    BY <1>7 DEF Success
  <2>2. QED
    BY <2>1, AnswerType
<1>8. QED
  BY <1>1, <1>2, <1>3, <1>4, <1>5, <1>6, <1>7

\* An outcome is an answer and contents of the file.  Only a save changes a
\* vault into a vault, it answers "ok", and it keeps coherence.
LEMMA OutcomeFacts ==
    ASSUME NEW r \in Request, NEW d \in Disk, NEW o \in Outcomes(r, d)
    PROVE  /\ o.answer \in Answers
           /\ r.op \in Saving /\ o.answer.status = "ok"
                 => o.next \in Vault /\ ((IsSealed(d) => Coherent(d)) => Coherent(o.next))
           /\ ~(r.op \in Saving /\ o.answer.status = "ok")
                 => o.next \in {d, Absent}
<1>1. CASE Check(r, d) # "ok"
  <2>1. PICK error \in Status \ {"ok"} : o = [answer |-> Failure(r, error), next |-> d]
    BY <1>1, CheckType DEF Outcomes, Outcome, Status
  <2>2. o.answer \in Answers /\ o.answer.status # "ok"
    BY <2>1, FailureType, FailureNotOk
  <2>3. QED
    BY <2>1, <2>2
<1>2. CASE Check(r, d) = "ok"
  <2>1. CASE r.op \in Saving /\ \E n \in Saves(r, d) : o = Outcome(Success(r, d, n), n)
    <3>1. PICK n \in Saves(r, d) : o = [answer |-> Success(r, d, n), next |-> n]
      BY <2>1 DEF Outcome
    <3>2. n \in Vault
      BY <1>2, <2>1, SavesType
    <3>3. o.answer \in Answers /\ o.next = n
      BY <1>2, <3>1, <3>2, SuccessType DEF Disk
    <3>4. o.answer.status = "ok"
      BY <2>1, <3>1 DEF Success, Answer, Saving
    <3>5. (IsSealed(d) => Coherent(d)) => Coherent(n)
      BY <1>2, <2>1, SavesCoherent
    <3>6. QED
      BY <2>1, <3>2, <3>3, <3>4, <3>5
  <2>2. CASE /\ r.op \notin Saving
             /\ o = Outcome(Success(r, d, d), Kept(r, d))
    BY <1>2, <2>2, SuccessType DEF Outcome, Kept, Tidied
  <2>3. CASE o = Outcome(Failure(r, "biometric"), d)
    <3>1. o.answer \in Answers /\ o.answer.status # "ok" /\ o.next = d
      BY <2>3, FailureType, FailureNotOk DEF Outcome, Status
    <3>2. QED
      BY <3>1
  <2>4. QED
    BY <1>2, <2>1, <2>2, <2>3 DEF Outcomes
<1>3. QED
  BY <1>1, <1>2

\* Only a granted request is answered "ok".
LEMMA OkIsGranted ==
    ASSUME NEW r, NEW d, NEW o \in Outcomes(r, d), o.answer.status = "ok"
    PROVE  Check(r, d) = "ok"
<1>1. ASSUME Check(r, d) # "ok" PROVE FALSE
  <2>1. o.answer \in {Failure(r, Check(r, d)), Failure(r, "biometric")}
    BY <1>1 DEF Outcomes, Outcome
  <2>2. QED
    BY <1>1, <2>1, CheckType, FailureNotOk DEF Status
<1>2. QED
  BY <1>1

\* A save that is answered "ok" on a vault was not an init, and its credential
\* opens the vault, whose HMAC verifies: nothing is written over a vault by
\* someone who cannot read it.
LEMMA SaveIsAuthorised ==
    ASSUME NEW r \in Request, NEW d \in Disk, NEW o \in Outcomes(r, d),
           r.op \in Saving, o.answer.status = "ok", d.kind = "data"
    PROVE  /\ r.op # "init"
           /\ IsSealed(d)
           /\ MasterKeys(d, r.cred) # {}
<1>1. Check(r, d) = "ok"
  BY OkIsGranted
<1>2. r.op # "init"
  BY <1>1 DEF Check, InitCheck, IsInitialized
<1>3. d.sealedBy \in MasterKeys(d, r.cred) /\ IsSealed(d)
  BY <1>1, <1>2, GrantedBySeal DEF Keyed
<1>4. QED
  BY <1>2, <1>3

\* A keyed request that is answered "ok" was made with a credential whose wrap
\* gives up the key under which the vault is sealed.
LEMMA OkHoldsTheKey ==
    ASSUME NEW r, NEW d \in Disk, NEW o \in Outcomes(r, d),
           r.op \in Keyed, o.answer.status = "ok"
    PROVE  \E w \in d.wraps : w.by = r.cred /\ w.mk = d.sealedBy
<1>1. d.sealedBy \in MasterKeys(d, r.cred)
  BY OkIsGranted, GrantedBySeal
<1>2. QED
  BY <1>1 DEF MasterKeys

\* The three shapes of an outcome: a save that is answered "ok", an erase, and
\* all others, which leave the file as it was or, asked whether it is a vault,
\* tidied.
LEMMA OutcomeSteps ==
    ASSUME NEW r, NEW d, NEW o \in Outcomes(r, d),
           ~(r.op \in Saving /\ o.answer.status = "ok")
    PROVE  \/ o.next \in {d, Tidied(d)}
           \/ r.op = "erase" /\ o.answer.status = "ok" /\ o.next = Absent
<1>1. CASE Check(r, d) # "ok"
  BY <1>1 DEF Outcomes, Outcome
<1>2. CASE Check(r, d) = "ok" /\ r.op \in Saving
  <2>1. ASSUME NEW n, o = Outcome(Success(r, d, n), n) PROVE o.answer.status = "ok"
    BY <1>2, <2>1 DEF Outcome, Success, Answer, Saving
  <2>2. o = Outcome(Failure(r, "biometric"), d)
    BY <1>2, <2>1 DEF Outcomes
  <2>3. QED
    BY <2>2 DEF Outcome
<1>3. CASE Check(r, d) = "ok" /\ r.op \notin Saving
  <2>1. CASE o = Outcome(Success(r, d, d), Kept(r, d))
    <3>1. r.op = "erase" => o.answer.status = "ok" /\ o.next = Absent
      BY <2>1 DEF Outcome, Success, Answer, Kept
    <3>2. QED
      BY <2>1, <3>1 DEF Outcome, Kept
  <2>2. CASE o = Outcome(Failure(r, "biometric"), d)
    BY <2>2 DEF Outcome
  <2>3. QED
    BY <1>3, <2>1, <2>2 DEF Outcomes
<1>4. QED
  BY <1>1, <1>2, <1>3

\* A keyed save that is answered "ok" signs one of the changes of the vault it
\* found, and answers as Success says.
LEMMA SaveSteps ==
    ASSUME NEW r \in Request, NEW d \in Disk, NEW o \in Outcomes(r, d),
           r.op \in Saving \ {"init"}, o.answer.status = "ok"
    PROVE  d \in Vault /\ d.kind = "data" /\
           \E mk \in Keys : \E n \in Changed(r, d, mk) :
              /\ n \in Vault
              /\ o.next = Sealed(n, mk)
              /\ o.next.kind = "data"
              /\ o.next.entries = n.entries
              /\ o.answer = Success(r, d, o.next)
<1>1. Check(r, d) = "ok"
  BY OkIsGranted
<1>2. d \in Vault
  BY <1>1, GrantedOnVault DEF Keyed
<1>3. o # Outcome(Failure(r, "biometric"), d)
  BY FailureNotOk DEF Outcome, Status
<1>4. PICK n \in Saves(r, d) : o = Outcome(Success(r, d, n), n)
  BY <1>1, <1>3 DEF Outcomes
<1>5. PICK mk \in MasterKeys(d, r.cred) : \E x \in Changed(r, d, mk) : n = Sealed(x, mk)
  BY <1>4 DEF Saves
<1>6. mk \in Keys
  BY <1>2, <1>5, MasterKeysType
<1>7. PICK x \in Changed(r, d, mk) : n = Sealed(x, mk)
  BY <1>5
<1>8. x \in Vault
  BY <1>2, <1>6, <1>7, ChangedType
<1>9. o.next = n /\ o.answer = Success(r, d, n)
  BY <1>4 DEF Outcome
<1>10. d.kind = "data"
  BY <1>2 DEF Vault
<1>11. QED
  BY <1>2, <1>6, <1>7, <1>8, <1>9, <1>10, SealedFields

-----------------------------------------------------------------------------
(* Damage *)

\* What tampering leaves is a file, and no HMAC covers it.
LEMMA DamagedFacts ==
    ASSUME NEW d \in Disk, NEW n \in Damaged(d)
    PROVE  n \in Disk /\ ~IsSealed(n)
<1>1. CASE n \in {Empty, Garbage}
  BY <1>1 DEF Disk, Empty, Garbage, IsSealed
<1>2. CASE n \notin {Empty, Garbage}
  <2>1. d \in Vault
    <3>1. d.kind = "data"
      BY <1>2 DEF Damaged
    <3>2. QED
      BY <3>1 DEF Disk, Absent, Empty, Garbage
  <2>2. n \in Vault /\ n.sealedBy = NoKey
    <3>1. \/ n = [d EXCEPT !.sealedBy = NoKey, !.entries = {}]
          \/ n = [d EXCEPT !.sealedBy = NoKey, !.lockTimeout = 0]
          \/ \E s \in Salts : n = [d EXCEPT !.sealedBy = NoKey, !.salt = s]
          \/ \E w \in d.wraps : n = [d EXCEPT !.sealedBy = NoKey, !.wraps = {w}]
      BY <1>2 DEF Damaged
    <3>2. ASSUME n = [d EXCEPT !.sealedBy = NoKey, !.entries = {}]
          PROVE  n \in Vault /\ n.sealedBy = NoKey
      BY <2>1, <3>2 DEF Vault
    <3>3. ASSUME n = [d EXCEPT !.sealedBy = NoKey, !.lockTimeout = 0]
          PROVE  n \in Vault /\ n.sealedBy = NoKey
      <4> DEFINE zero == 0
      <4>1. zero \in Int
        OBVIOUS
      <4> HIDE DEF zero
      <4>2. n = [d EXCEPT !.sealedBy = NoKey, !.lockTimeout = zero]
        BY <3>3 DEF zero
      <4>3. QED
        BY <2>1, <4>1, <4>2 DEF Vault
    <3>4. ASSUME NEW s \in Salts, n = [d EXCEPT !.sealedBy = NoKey, !.salt = s]
          PROVE  n \in Vault /\ n.sealedBy = NoKey
      BY <2>1, <3>4 DEF Vault
    <3>5. ASSUME NEW w \in d.wraps, n = [d EXCEPT !.sealedBy = NoKey, !.wraps = {w}]
          PROVE  n \in Vault /\ n.sealedBy = NoKey
      <4>1. {w} \in SUBSET KeyWrap
        BY <2>1 DEF Vault
      <4>2. QED
        BY <2>1, <3>5, <4>1 DEF Vault
    <3>6. QED
      BY <3>1, <3>2, <3>3, <3>4, <3>5
  <2>3. ~IsSealed(n)
    BY <2>2, StorageAssumption DEF IsSealed, Vault, KeyWrap
  <2>4. QED
    BY <2>2, <2>3 DEF Disk
<1>3. QED
  BY <1>1, <1>2

=============================================================================
