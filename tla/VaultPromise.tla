--------------------------- MODULE VaultPromise ---------------------------
(***************************************************************************)
(* What EncryptedStorage promises its callers: one vault, operations that  *)
(* take effect one after the other, each at once, and answer what          *)
(* StorageData says they answer.  The promise admits what the file system  *)
(* can do to it: an operation may fail without effect, and a save that     *)
(* fails or is cut off by a crash may take the vault with it.              *)
(***************************************************************************)
EXTENDS StorageData

CONSTANTS
    Callers,     \* concurrent users of one EncryptedStorage
    Requests     \* the requests they make, a subset of Request

ASSUME PromiseAssumption == Requests \subseteq Request

VARIABLES
    vault,       \* the contents of the vault
    phase,       \* where the call of each caller is
    request,     \* what it asked for
    answer       \* what it is answered

vars == <<vault, phase, request, answer>>

Init ==
    /\ vault = Absent
    /\ phase = [c \in Callers |-> "idle"]
    /\ request = [c \in Callers |-> NoRequest]
    /\ answer = [c \in Callers |-> NoAnswer]

Pending(c) == phase[c] = "pending"
Performed(c) == phase[c] = "performed"

\* A caller asks for r and waits.
Ask(c, r) ==
    /\ phase[c] = "idle"
    /\ HasRoom(vault, [x \in Callers |->
                          IF x = c THEN r
                          ELSE IF Pending(x) THEN request[x] ELSE NoRequest])
    /\ phase' = [phase EXCEPT ![c] = "pending"]
    /\ request' = [request EXCEPT ![c] = r]
    /\ UNCHANGED <<vault, answer>>

Invoke(c) == \E r \in Requests : Ask(c, r)

\* A call whose turn it is: no other is between effect and return.
Served(c) == Pending(c) /\ \A x \in Callers : ~Performed(x)

Answered(c, a) ==
    /\ phase' = [phase EXCEPT ![c] = "performed"]
    /\ answer' = [answer EXCEPT ![c] = a]
    /\ UNCHANGED request

\* init asks isInitialized first, which deletes a file of length zero; whatever
\* becomes of the init, the file is gone.
Tidy(c) ==
    /\ Served(c)
    /\ request[c].op = "init"
    /\ vault = Empty
    /\ vault' = Tidied(vault)
    /\ UNCHANGED <<phase, request, answer>>

\* The operation takes effect, alone.
Perform(c) ==
    /\ Served(c)
    /\ \E o \in Outcomes(request[c], vault) :
          Answered(c, o.answer) /\ vault' = o.next

\* An error of the file system: the caller is told, the vault is as it was.
Fail(c) ==
    /\ Served(c)
    /\ \E error \in {"io", "invalidStorage"} :
          Answered(c, Failure(request[c], error))
    /\ UNCHANGED vault

\* A save that had begun to take effect fails: the vault is gone.
Saved(c) ==
    Performed(c) /\ request[c].op \in Saving /\ answer[c].status = "ok"

Lose(c) ==
    /\ Saved(c)
    /\ vault' = Absent
    /\ answer' = [answer EXCEPT ![c] = Failure(request[c], "io")]
    /\ UNCHANGED <<phase, request>>

Return(c) ==
    /\ Performed(c)
    /\ phase' = [phase EXCEPT ![c] = "idle"]
    /\ request' = [request EXCEPT ![c] = NoRequest]
    /\ answer' = [answer EXCEPT ![c] = NoAnswer]
    /\ UNCHANGED vault

Crash ==
    /\ phase' = [c \in Callers |-> "idle"]
    /\ request' = [c \in Callers |-> NoRequest]
    /\ answer' = [c \in Callers |-> NoAnswer]
    /\ \/ UNCHANGED vault
       \/ (\E c \in Callers : Saved(c)) /\ vault' = Absent

Damage ==
    /\ \A c \in Callers : ~Performed(c)
    /\ vault' \in Damaged(vault)
    /\ UNCHANGED <<phase, request, answer>>

Next ==
    \/ \E c \in Callers : \/ Invoke(c) \/ Tidy(c) \/ Perform(c)
                         \/ Fail(c) \/ Lose(c) \/ Return(c)
    \/ Crash
    \/ Damage

Spec == Init /\ [][Next]_vars

-----------------------------------------------------------------------------
(* Properties *)

\* Types of the vault and of the calls.
TypeOK ==
    /\ vault \in Disk
    /\ phase \in [Callers -> {"idle", "pending", "performed"}]
    /\ request \in [Callers -> Requests \cup {NoRequest}]
    /\ answer \in [Callers -> Answers]

\* A vault whose HMAC verifies is whole: one master key behind every wrap and
\* entry, one wrap per origin, one entry per id, the salt of its password wrap,
\* a positive timeout.  Every operation of EncryptedStorageImpl has a part.
VaultCoherent == IsSealed(vault) => Coherent(vault)

\* Only who holds a credential of the vault changes it: a step from one sealed
\* vault to another is the granted request of a caller whose credential opens
\* the first (_getDecryptedMasterKey before every save; init never replaces a
\* vault).
ChangesAreAuthorised ==
    [][IsSealed(vault) /\ IsSealed(vault') /\ vault' # vault
         => \E c \in Callers :
                /\ Pending(c) /\ ~Pending(c)'
                /\ request[c].op \in Saving \ {"init"}
                /\ MasterKeys(vault, request[c].cred) # {}]_vars

\* A tampered vault is never signed again: what the HMAC does not cover stays
\* uncovered until the file is erased or overwritten from outside.
TamperingSticks ==
    [][vault.kind = "data" /\ ~IsSealed(vault) => ~IsSealed(vault')]_vars

\* encrypted_storage.dart on readAllMeta, "Retrieves and decrypts all entries
\* metadata": whoever holds a credential of a sealed vault can read it.  A vault
\* with one zero-length meta can be written but never opened again.
AllMetaReadable ==
    IsSealed(vault)
        => \A w \in vault.wraps :
               ReadAllMetaCheck([op |-> "readAllMeta", cred |-> w.by], vault) = "ok"

\* Neither a wrong credential nor a tampered file yields anything: an operation
\* that takes a credential is answered with data only when the vault it was
\* performed on verifies under that credential.
ReadsAreAuthorised ==
    [][\A c \in Callers :
          /\ Pending(c) /\ Performed(c)'
          /\ request[c].op \in {"readAllMeta", "readValue", "addEntry"}
          /\ answer'[c].status = "ok"
          => \E w \in vault.wraps : w.by = request[c].cred
                                     /\ w.mk = vault.sealedBy]_vars

=============================================================================
