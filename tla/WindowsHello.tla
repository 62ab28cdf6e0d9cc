---------------------------- MODULE WindowsHello ----------------------------
(***************************************************************************)
(* The biometric_cipher plugin on Windows, from BiometricCipher in Dart to *)
(* the calls of Windows Hello.  Method calls and replies cross the method  *)
(* channel in order.  All of the C++ runs on the platform thread: a step   *)
(* of a call is a Windows operation that ends and everything the coroutine *)
(* it resumes does up to the next one, so calls interleave only there.     *)
(* Each of these operations may throw, refuse, and change its mind from    *)
(* one call to the next.                                                   *)
(***************************************************************************)
EXTENDS WindowsPluginData, FiniteSets

CONSTANTS
    Callers, Tags, Keys, NoKey, Data, Empty, Absent, Requests,  \* of KeyStorePromise
    PlatformTypes, \* the platform types that TPMs report
    Refusals,      \* the statuses, other than about a key that is there or not, and
    Availabilities \* the availabilities that Windows answers with

VARIABLES
    flag,          \* Dart: BiometricCipher._configured
    inbox,         \* callers whose method call is on its way to the plugin
    outbox,        \* callers whose reply is on its way back
    isConfigured,  \* m_isConfigured of the ConfigStorage
    configData,    \* m_ConfigData of the ConfigStorage
    creds,         \* Windows: the key credential under each tag
    stage,         \* the Windows operation that the call of each caller awaits
    request,       \* what it asks for
    signing,       \* the data to sign, in the frame of its coroutine
    answer,        \* what it replies
    hooks,         \* the calls whose CBT hook is installed, until their reply is received
    intended,      \* HISTORY: the configuration asked for, in the order of the calls
    expects,       \* HISTORY: the same, when each call was made
    said,          \* HISTORY: what ended each call
    overlapped     \* HISTORY: the last configure call was made during another

dart == <<flag, inbox, outbox>>
storage == <<isConfigured, configData>>
frames == <<stage, request, signing, answer>>
history == <<intended, expects, said, overlapped>>
vars == <<dart, storage, creds, frames, hooks, history>>

-----------------------------------------------------------------------------
(* The promise it keeps *)

\* What the application sees of a reply: nothing until there is one.
PromisedAnswer(c) ==
    [result |-> IF stage[c] # "replied" THEN "none"
                ELSE IF said[c] = "Mismatch" THEN "mismatch"
                ELSE IF answer[c].code # "none" THEN "failed" ELSE "done",
     cipher |-> answer[c].cipher]

Promise == INSTANCE KeyStorePromise WITH
    config <- intended,
    calls <- [c \in Callers |->
                [request |-> request[c], config |-> expects[c],
                 answer |-> PromisedAnswer(c)]]

ASSUME HelloConstants == Promise!KeyStoreAssumption

ASSUME HelloAssumption ==
    /\ PlatformTypes \subseteq Seq(Piece)
    /\ Refusals \subseteq KeyCredentialStatus
                          \ {"Success", "NotFound", "CredentialAlreadyExists"}
    /\ Availabilities \subseteq DOMAIN AvailabilityStatus

Damaged == Promise!Damaged
Short == Promise!Short
NoRequest == Promise!NoRequest

Stage == {"idle", "sent", "isSupported", "availability", "open", "prompt", "replied"}

\* A reply: an error code, or the value of the result.
NoAnswer == [code |-> "none", status |-> 0, cipher |-> Damaged]
Value(status) == [NoAnswer EXCEPT !.status = status]
Error(hr) == [NoAnswer EXCEPT !.code = GetErrorCodeString(hr)]

\* What can end a call, of Windows or of the plugin.
Cause ==
    KeyCredentialStatus
    \cup {"Nothing", "Unavailable", "Threw", "NoKey", "Mismatch", "Short",
          "NotConverted", "Unconfigured", "BadConfig", "ModernTpm", "OldTpm", "NoTpm"}

Init ==
    /\ flag = FALSE
    /\ inbox = <<>> /\ outbox = <<>>
    /\ isConfigured = FALSE /\ configData = Empty
    /\ creds = [t \in Tags |-> NoKey]
    /\ stage = [c \in Callers |-> "idle"]
    /\ request = [c \in Callers |-> NoRequest]
    /\ signing = [c \in Callers |-> Empty]
    /\ answer = [c \in Callers |-> NoAnswer]
    /\ hooks = {}
    /\ intended = Empty
    /\ expects = [c \in Callers |-> Empty]
    /\ said = [c \in Callers |-> "Nothing"]
    /\ overlapped = FALSE

-----------------------------------------------------------------------------
(* The application and BiometricCipher *)

Overlaps(r) ==
    IF r.op = "configure" THEN \E x \in Callers : request[x].op = "configure"
    ELSE overlapped

\* Mutant: configure leaves the flag of an earlier configuration standing.
Send_KeepsFlag(c) ==
    \E r \in Requests[c] :
        /\ stage[c] = "idle"
        /\ r.op = "decrypt" => flag
        /\ flag' = flag
        /\ inbox' = Append(inbox, c)
        /\ stage' = [stage EXCEPT ![c] = "sent"]
        /\ request' = [request EXCEPT ![c] = r]
        /\ intended' = Promise!Configured(r, intended)
        /\ expects' = [expects EXCEPT ![c] = intended]
        /\ overlapped' = Overlaps(r)
        /\ UNCHANGED <<outbox, storage, creds, signing, answer, hooks, said>>

\* Empty tags and data, and a decrypt before the plugin is configured, are
\* refused in Dart before anything is sent.
Send(c) ==
    \E r \in Requests[c] :
        /\ stage[c] = "idle"
        /\ r.op = "decrypt" => flag
        /\ flag' = (flag /\ r.op # "configure")
        /\ inbox' = Append(inbox, c)
        /\ stage' = [stage EXCEPT ![c] = "sent"]
        /\ request' = [request EXCEPT ![c] = r]
        /\ intended' = Promise!Configured(r, intended)
        /\ expects' = [expects EXCEPT ![c] = intended]
        /\ overlapped' = Overlaps(r)
        /\ UNCHANGED <<outbox, storage, creds, signing, answer, hooks, said>>

\* The reply arrives, configure goes on after its await.
Receive(c) ==
    /\ outbox # <<>> /\ Head(outbox) = c
    /\ outbox' = Tail(outbox)
    /\ flag' = (flag \/ (request[c].op = "configure" /\ answer[c].code = "none"))
    /\ stage' = [stage EXCEPT ![c] = "idle"]
    /\ request' = [request EXCEPT ![c] = NoRequest]
    /\ signing' = [signing EXCEPT ![c] = Empty]
    /\ answer' = [answer EXCEPT ![c] = NoAnswer]
    /\ expects' = [expects EXCEPT ![c] = Empty]
    /\ said' = [said EXCEPT ![c] = "Nothing"]
    /\ hooks' = hooks \ {c}
    /\ UNCHANGED <<inbox, storage, creds, intended, overlapped>>

-----------------------------------------------------------------------------
(* The end of a call *)

\* result->Success or result->Error; the frame of the coroutine goes, with the
\* handle of a hook that is still in it.
Replies(c, a, cause) ==
    /\ stage' = [stage EXCEPT ![c] = "replied"]
    /\ answer' = [answer EXCEPT ![c] = a]
    /\ outbox' = Append(outbox, c)
    /\ said' = [said EXCEPT ![c] = cause]
    /\ UNCHANGED <<flag, request, signing, intended, expects, overlapped>>

\* A catch block.  It turns the message of the error into UTF-8 as well, which replaces
\* what it cannot convert: that this throws, and ends the process, is left out.
Fails(c, hr, cause) == Replies(c, Error(hr), cause)

\* The coroutine goes on to await another operation.
Awaits(c, s) ==
    /\ stage' = [stage EXCEPT ![c] = s]
    /\ UNCHANGED <<flag, outbox, request, answer, intended, expects, said, overlapped>>

NoHook == UNCHANGED hooks

\* SetWindowsHookEx, which may fail and return null.
SetsHook(c) == hooks' \in {hooks, hooks \cup {c}}

Unhooks(c) == hooks' = hooks \ {c}

\* An exception leaves the function before it comes to UnhookWindowsHookEx: the
\* hook stays, and nothing can remove it any more.
LosesHook == UNCHANGED hooks

-----------------------------------------------------------------------------
(* HandleMethodCall *)

Handles(c, op) ==
    /\ inbox # <<>> /\ Head(inbox) = c
    /\ request[c].op = op
    /\ inbox' = Tail(inbox)

Given(r) == IF r.data = Absent THEN {} ELSE {"windowsDataToSign"}

\* Mutant: empty data is stored before it is refused.
Configure_ThenChecks(c) ==
    LET data == request[c].data IN
    /\ Handles(c, "configure")
    /\ IF ~Parses("configure", Given(request[c]))
       THEN Fails(c, "error_invalid_argument", "BadConfig") /\ UNCHANGED storage
       ELSE /\ isConfigured' = TRUE /\ configData' = data
            /\ IF data = Empty THEN Fails(c, "error_configure", "BadConfig")
                               ELSE Replies(c, NoAnswer, "Success")
    /\ UNCHANGED creds /\ NoHook

\* SetConfigData revokes the configuration before it looks at the new one.
Configure(c) ==
    LET data == request[c].data IN
    /\ Handles(c, "configure")
    /\ IF ~Parses("configure", Given(request[c]))
       THEN Fails(c, "error_invalid_argument", "BadConfig") /\ UNCHANGED storage
       ELSE IF data = Empty
       THEN /\ isConfigured' = FALSE /\ UNCHANGED configData
            /\ Fails(c, "error_configure", "BadConfig")
       ELSE /\ isConfigured' = TRUE /\ configData' = data
            /\ Replies(c, NoAnswer, "Success")
    /\ UNCHANGED creds /\ NoHook

\* HISTORY: what kind of TPM a platform has.
TpmKind(platform) ==
    CASE ~platform.provider -> "NoTpm"
      [] platform.provider /\ platform.readable
            /\ HasMajorVersion(platform.type, "two") -> "ModernTpm"
      [] OTHER -> "OldTpm"

\* Both reads of the platform type happen in one go.
ReportTPMStatus(c) ==
    /\ Handles(c, "getTPMStatus")
    /\ \E platform \in Platform(PlatformTypes) :
          Replies(c, Value(GetTPMStatus(platform)), TpmKind(platform))
    /\ UNCHANGED <<storage, creds>> /\ NoHook

\* The methods that ask Windows Hello first.
BeginHello(c) ==
    /\ \/ Handles(c, "getBiometryStatus") \/ Handles(c, "generateKey")
       \/ Handles(c, "deleteKey")
    /\ Awaits(c, "isSupported")
    /\ UNCHANGED <<storage, creds, signing>> /\ NoHook

\* EncryptAsync and DecryptAsync take the configuration before they await.
BeginCipher(c) ==
    /\ Handles(c, "encrypt") \/ Handles(c, "decrypt")
    /\ isConfigured
    /\ signing' = [signing EXCEPT ![c] = configData]
    /\ Awaits(c, "isSupported")
    /\ UNCHANGED <<storage, creds>> /\ NoHook

RefuseCipher(c) ==
    /\ Handles(c, "encrypt") \/ Handles(c, "decrypt")
    /\ ~isConfigured
    /\ Fails(c, IF request[c].op = "encrypt" THEN "error_invalid_argument"
                                             ELSE "error_decrypt", "Unconfigured")
    /\ UNCHANGED <<storage, creds>> /\ NoHook

-----------------------------------------------------------------------------
(* WindowsHelloRepositoryImpl: each step is a Windows operation that ends *)

Resumes(c, s) == stage[c] = s /\ UNCHANGED <<inbox, storage>>

\* An operation of another stage than "prompt" throws; no hook is there yet.
Throws(c, s) ==
    /\ Resumes(c, s)
    /\ Fails(c, "other", "Threw")
    /\ UNCHANGED creds /\ NoHook

\* Windows Hello is there: the status is 0, a key operation goes on.
Supported(c) ==
    CASE request[c].op = "getBiometryStatus" ->
            Replies(c, Value(BiometryStatus.kSupported), "Success") /\ NoHook
      [] request[c].op \in {"generateKey", "deleteKey"} ->
            Awaits(c, "prompt") /\ UNCHANGED signing /\ SetsHook(c)
      [] OTHER ->
            Awaits(c, "open") /\ UNCHANGED signing /\ NoHook

IsSupported(c) ==
    /\ Resumes(c, "isSupported")
    /\ \/ Supported(c)
       \/ Awaits(c, "availability") /\ UNCHANGED signing /\ NoHook
    /\ UNCHANGED creds

\* CheckWindowsHelloIsStatusAsync lets nothing through but kSupported.
CheckAvailability(c) ==
    /\ Resumes(c, "availability")
    /\ \E available \in Availabilities :
          IF available = "Available" THEN Supported(c)
          ELSE /\ IF request[c].op = "getBiometryStatus"
                  THEN Replies(c, Value(AvailabilityStatus[available]), "Success")
                  ELSE Fails(c, "error_biometry_not_supported", "Unavailable")
               /\ NoHook
    /\ UNCHANGED creds

AvailabilityUnlisted(c) ==
    /\ Resumes(c, "availability")
    /\ Fails(c, "error_fail", "Unlisted")
    /\ UNCHANGED creds /\ NoHook

Key(c) == creds[request[c].tag]

\* The statuses that an operation on a credential may end with: that there is
\* one, or none, is only said when it is so.
Status(c) == Refusals \cup {IF Key(c) = NoKey THEN "NotFound" ELSE "Success"}

Open(c) ==
    /\ Resumes(c, "open")
    /\ \E status \in Status(c) :
          IF status = "Success"
          THEN Awaits(c, "prompt") /\ UNCHANGED signing /\ SetsHook(c)
          ELSE Fails(c, CheckKeyCredentialStatus(status), status) /\ NoHook
    /\ UNCHANGED creds

\* CreateAESKey hashes the signature, of these data by the credential that is now
\* under the tag; both are deterministic.
AesKey(c, data) == [key |-> Key(c), data |-> data]

\* The text of the result has to become UTF-8 first, which may fail.
ConvertHStringToString(c, a) ==
    Replies(c, a, "Success") \/ Fails(c, "error_converting_string", "NotConverted")

Encrypts(c, aes) == ConvertHStringToString(c, [NoAnswer EXCEPT !.cipher = aes])

\* A ciphertext decodes to 12 bytes of nonce, the data and 16 of tag, or is short.
Decrypts(c, aes) ==
    CASE request[c].cipher = Short -> Fails(c, "error_decrypt", "Short")
      [] request[c].cipher = aes -> ConvertHStringToString(c, NoAnswer)
      [] OTHER -> Fails(c, "other", "Mismatch")

Ciphers(c, data) ==
    IF request[c].op = "encrypt" THEN Encrypts(c, AesKey(c, data))
                                 ELSE Decrypts(c, AesKey(c, data))

\* Mutant: the configuration is read when the signature is asked for.
RequestSign_Configured(c) ==
    /\ Resumes(c, "prompt")
    /\ request[c].op \in {"encrypt", "decrypt"}
    /\ \E status \in Status(c) :
          IF status = "Success" THEN Ciphers(c, configData)
          ELSE Fails(c, CheckKeyCredentialStatus(status), status)
    /\ Unhooks(c)
    /\ UNCHANGED creds

RequestSign(c) ==
    /\ Resumes(c, "prompt")
    /\ request[c].op \in {"encrypt", "decrypt"}
    /\ \E status \in Status(c) :
          IF status = "Success" THEN Ciphers(c, signing[c])
          ELSE Fails(c, CheckKeyCredentialStatus(status), status)
    /\ Unhooks(c)
    /\ UNCHANGED creds

\* Mutant: the status is checked before the hook is removed.
RequestCreate_ChecksFirst(c) ==
    /\ Resumes(c, "prompt")
    /\ request[c].op = "generateKey"
    /\ \/ /\ Key(c) = NoKey
          /\ \E k \in Keys \ Promise!KeysInUse :
                creds' = [creds EXCEPT ![request[c].tag] = k]
          /\ Replies(c, NoAnswer, "Success")
          /\ Unhooks(c)
       \/ \E status \in Refusals \cup {"CredentialAlreadyExists"} :
             /\ status = "CredentialAlreadyExists" => Key(c) # NoKey
             /\ Fails(c, CheckKeyCredentialStatus(status), status)
             /\ LosesHook
             /\ UNCHANGED creds

\* FailIfExists.
RequestCreate(c) ==
    /\ Resumes(c, "prompt")
    /\ request[c].op = "generateKey"
    /\ \/ /\ Key(c) = NoKey
          /\ \E k \in Keys \ Promise!KeysInUse :
                creds' = [creds EXCEPT ![request[c].tag] = k]
          /\ Replies(c, NoAnswer, "Success")
       \/ \E status \in Refusals \cup {"CredentialAlreadyExists"} :
             /\ status = "CredentialAlreadyExists" => Key(c) # NoKey
             /\ Fails(c, CheckKeyCredentialStatus(status), status)
             /\ UNCHANGED creds
    /\ Unhooks(c)

\* Mutant: NTE_NO_KEY is swallowed with the reply.
Delete_Silent(c) ==
    /\ Resumes(c, "prompt")
    /\ request[c].op = "deleteKey"
    /\ IF Key(c) = NoKey THEN Awaits(c, "sent") /\ UNCHANGED signing
                         ELSE Replies(c, NoAnswer, "Success")
    /\ Unhooks(c)
    /\ creds' = [creds EXCEPT ![request[c].tag] = NoKey]

\* DeleteAsync throws NTE_NO_KEY when there is no credential, which
\* DeleteKeyAsync takes for success; the hook is lost all the same.
Delete(c) ==
    /\ Resumes(c, "prompt")
    /\ request[c].op = "deleteKey"
    /\ IF Key(c) = NoKey THEN LosesHook /\ Replies(c, NoAnswer, "NoKey")
                         ELSE Unhooks(c) /\ Replies(c, NoAnswer, "Success")
    /\ creds' = [creds EXCEPT ![request[c].tag] = NoKey]

PromptThrows(c) ==
    /\ Resumes(c, "prompt")
    /\ Fails(c, "other", "Threw")
    /\ LosesHook
    /\ UNCHANGED creds

-----------------------------------------------------------------------------

Handle(c) ==
    \/ Configure(c) \/ ReportTPMStatus(c) \/ BeginHello(c) \/ BeginCipher(c)
    \/ RefuseCipher(c)

Prompted(c) ==
    \/ RequestSign(c) \/ RequestCreate(c) \/ Delete(c) \/ PromptThrows(c)

Step(c) ==
    \/ Handle(c) \/ Receive(c)
    \/ IsSupported(c) \/ CheckAvailability(c) \/ AvailabilityUnlisted(c) \/ Open(c)
    \/ Throws(c, "isSupported") \/ Throws(c, "availability") \/ Throws(c, "open")
    \/ Prompted(c)

Next == \E c \in Callers : Send(c) \/ Step(c)

Spec == Init /\ [][Next]_vars

\* The message loop runs every message and continuation it is given, and a
\* Windows operation ends, a prompt because Windows times it out.
Fairness == \A c \in Callers : WF_vars(Step(c))

FairSpec == Spec /\ Fairness

-----------------------------------------------------------------------------
(* Properties *)

\* Types; a call has data to sign only between its first await and its reply, and
\* only a call at a prompt, or one that lost it, has a hook.
TypeOK ==
    /\ flag \in BOOLEAN
    /\ inbox \in Seq(Callers) /\ outbox \in Seq(Callers)
    /\ isConfigured \in BOOLEAN
    /\ configData \in Data \cup {Empty}
    /\ creds \in [Tags -> Keys \cup {NoKey}]
    /\ stage \in [Callers -> Stage]
    /\ \A c \in Callers : request[c] \in Requests[c] \cup {NoRequest}
    /\ DOMAIN request = Callers
    /\ signing \in [Callers -> Data \cup {Empty}]
    /\ \A c \in Callers :
          stage[c] \in {"isSupported", "availability", "open", "prompt"}
          /\ request[c].op \in {"encrypt", "decrypt"} => signing[c] # Empty
    /\ answer \in [Callers -> [code : {"none", "UNKNOWN_ERROR"} \cup
                                        {PluginErrorCode[hr] : hr \in DOMAIN PluginErrorCode},
                               status : 0..6,
                               cipher : Promise!Cipher]]
    /\ hooks \subseteq {c \in Callers : stage[c] \in {"prompt", "replied"}}
    /\ intended \in Data \cup {Empty}
    /\ expects \in [Callers -> Data \cup {Empty}]
    /\ said \in [Callers -> Cause]
    /\ overlapped \in BOOLEAN

\* The configured flag of BiometricCipher is about another object, on the far side
\* of the channel: while it is set, the plugin is configured, with the data the
\* application asked for last, unless that configure call overlapped another.
FlagAgrees ==
    flag /\ ~overlapped => isConfigured /\ configData = intended

\* The CBT hook of a call does not outlive it, whatever the user and Windows Hello
\* answer, unless the Windows operation under it throws.
HooksReleased ==
    \A c \in hooks : stage[c] = "replied" => said[c] \in {"Threw", "NoKey"}

\* What the application is told of an error, after the statuses of Windows have
\* become HRESULTs, strings, codes and exception types: it reads cancel, a missing
\* or an existing key and an unavailable biometry exactly when that was the cause.
ErrorsKeepMeaning ==
    \A c \in Callers : stage[c] = "replied" /\ answer[c].code # "none" =>
        LET code == ExceptionCode[answer[c].code]
            type == BiometricExceptionType(code)
        IN  /\ code = "authenticationUserCanceled" <=> said[c] = "UserCanceled"
            /\ code = "keyAlreadyExists" <=> said[c] = "CredentialAlreadyExists"
            /\ request[c].op \in {"encrypt", "decrypt"} =>
                  /\ type = "cancel" <=> said[c] = "UserCanceled"
                  /\ type = "keyNotFound" <=> said[c] = "NotFound"
                  /\ type = "notAvailable" <=> said[c] = "Unavailable"
            /\ request[c].op = "deleteKey" => said[c] # "NoKey"

\* getTPMStatus says supported of exactly the platforms whose type names version 2
\* or later, and unsupported of exactly those without a provider, whatever text
\* the type is.
TpmStatusIsTrue ==
    \A c \in Callers : stage[c] = "replied" /\ request[c].op = "getTPMStatus" =>
        /\ answer[c].code = "none"
        /\ answer[c].status = TpmStatus.kSupported <=> said[c] = "ModernTpm"
        /\ answer[c].status = TpmStatus.kUnsupported <=> said[c] = "NoTpm"

\* The plugin keeps the promise: keys are never replaced, calls take effect at
\* once, and each ciphers with the configuration the application had asked for
\* when it made the call, whatever is configured while Windows prompts.
KeepsKeyStorePromise == Promise!Spec

\* Every call gets its reply, also when Windows throws or the user refuses.
CallReturns == \A c \in Callers : stage[c] # "idle" ~> stage[c] = "idle"

=============================================================================
