--------------------------- MODULE KeyStorePromise ---------------------------
(***************************************************************************)
(* What the biometric_cipher plugin promises an application: key pairs     *)
(* under tags that are neither replaced nor half made, ciphertexts bound   *)
(* to the key and to the configuration, and calls that take effect at      *)
(* once, each with the configuration the application had asked for when it *)
(* made the call, or fail without effect.                                  *)
(***************************************************************************)
EXTENDS FiniteSets

CONSTANTS
    Callers,   \* concurrent calls of the application
    Tags,
    Keys,      \* BOUND on the key pairs that anything refers to at one time
    NoKey,
    Data,      \* the data a configuration may have signed, not empty
    Empty,     \* the empty string: no configuration
    Absent,    \* an argument that is not there
    Requests   \* the requests each of them makes, of Request

\* A ciphertext opens under the key pair and the configuration it was made with.
\* One that is damaged opens under none; one that is short has no room for a tag.
Damaged == [key |-> NoKey, data |-> Empty]
Short == [key |-> NoKey, data |-> Absent]
Cipher == [key : Keys, data : Data] \cup {Damaged, Short}

Request ==
    [op : {"configure"}, data : Data \cup {Empty, Absent}]
    \cup [op : {"generateKey", "deleteKey", "encrypt"}, tag : Tags]
    \cup [op : {"decrypt"}, tag : Tags, cipher : Cipher]
    \cup [op : {"getBiometryStatus", "getTPMStatus"}]

NoRequest == [op |-> "none"]

\* What WindowsHello assumes of these constants.
KeyStoreAssumption ==
    /\ NoKey \notin Keys
    /\ Empty \notin Data /\ Absent \notin Data /\ Empty # Absent
    /\ Requests \in [Callers -> SUBSET Request]

VARIABLES
    creds,    \* the key pair under each tag
    config,   \* the configuration the application has asked for, Empty: none
    calls     \* the call of each caller: its request, configuration and answer

vars == <<creds, config, calls>>

NoAnswer == [result |-> "none", cipher |-> Damaged]
Done == [result |-> "done", cipher |-> Damaged]
Encrypted(key, data) == [result |-> "done", cipher |-> [key |-> key, data |-> data]]
Failed == [result |-> "failed", cipher |-> Damaged]
Mismatch == [result |-> "mismatch", cipher |-> Damaged]

NoCall == [request |-> NoRequest, config |-> Empty, answer |-> NoAnswer]

\* A configuration without data revokes the one before, one without the argument
\* is not even looked at.
Configured(r, old) == IF r.op = "configure" /\ r.data # Absent THEN r.data ELSE old

CipherKey(r) == IF r.op = "decrypt" THEN r.cipher.key ELSE NoKey

\* The key pairs that a tag, a request or an answer refers to.
KeysInUse ==
    {creds[t] : t \in Tags}
    \cup {CipherKey(calls[c].request) : c \in Callers}
    \cup {calls[c].answer.cipher.key : c \in Callers}

Init ==
    /\ creds = [t \in Tags |-> NoKey]
    /\ config = Empty
    /\ calls = [c \in Callers |-> NoCall]

Ask(c) ==
    \E r \in Requests[c] :
        /\ calls[c] = NoCall
        /\ calls' = [calls EXCEPT ![c] =
              [request |-> r, config |-> config, answer |-> NoAnswer]]
        /\ config' = Configured(r, config)
        /\ UNCHANGED creds

Asks(c, op) == calls[c].request.op = op /\ calls[c].answer = NoAnswer

Answers(c, a) == calls' = [calls EXCEPT ![c].answer = a] /\ UNCHANGED config

Tag(c) == calls[c].request.tag

\* A key that exists is never replaced.
GenerateKey(c) ==
    /\ Asks(c, "generateKey")
    /\ creds[Tag(c)] = NoKey
    /\ \E k \in Keys \ KeysInUse : creds' = [creds EXCEPT ![Tag(c)] = k]
    /\ Answers(c, Done)

\* Whether or not there was one.
DeleteKey(c) ==
    /\ Asks(c, "deleteKey")
    /\ creds' = [creds EXCEPT ![Tag(c)] = NoKey]
    /\ Answers(c, Done)

Encrypt(c) ==
    /\ Asks(c, "encrypt")
    /\ creds[Tag(c)] # NoKey /\ calls[c].config # Empty
    /\ Answers(c, Encrypted(creds[Tag(c)], calls[c].config))
    /\ UNCHANGED creds

\* It succeeds, or says that the ciphertext does not match, according to the key
\* pair and the configuration.
Decrypt(c) ==
    /\ Asks(c, "decrypt")
    /\ creds[Tag(c)] # NoKey /\ calls[c].config # Empty
    /\ Answers(c, IF calls[c].request.cipher =
                        [key |-> creds[Tag(c)], data |-> calls[c].config]
                  THEN Done ELSE Mismatch)
    /\ UNCHANGED creds

Configure(c) ==
    /\ Asks(c, "configure")
    /\ calls[c].request.data \in Data
    /\ Answers(c, Done)
    /\ UNCHANGED creds

Status(c) ==
    /\ Asks(c, "getBiometryStatus") \/ Asks(c, "getTPMStatus")
    /\ Answers(c, Done)
    /\ UNCHANGED creds

\* Anything but a status of the TPM may fail, without effect.
Fail(c) ==
    /\ calls[c] # NoCall /\ calls[c].answer = NoAnswer
    /\ calls[c].request.op # "getTPMStatus"
    /\ Answers(c, Failed)
    /\ UNCHANGED creds

Return(c) ==
    /\ calls[c].answer # NoAnswer
    /\ calls' = [calls EXCEPT ![c] = NoCall]
    /\ UNCHANGED <<creds, config>>

Next ==
    \E c \in Callers :
        \/ Ask(c) \/ GenerateKey(c) \/ DeleteKey(c) \/ Encrypt(c) \/ Decrypt(c)
        \/ Configure(c) \/ Status(c) \/ Fail(c) \/ Return(c)

Spec == Init /\ [][Next]_vars

=============================================================================
