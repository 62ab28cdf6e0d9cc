-------------------------- MODULE WindowsHelloProofs --------------------------
(* What WindowsHello keeps for any number of callers and any requests of      *)
(* theirs: types, that the flag in Dart agrees with the plugin, that hooks    *)
(* are released, that errors keep their meaning, and that it implements       *)
(* KeyStorePromise.                                                           *)
EXTENDS WindowsHello, WindowsPluginDataProofs

-----------------------------------------------------------------------------
(* The inductive invariant *)

CipherOp == {"encrypt", "decrypt"}
KeyOp == {"generateKey", "deleteKey"}
InWindows == {"isSupported", "availability", "open", "prompt"}

\* The stage of a call is one of its operation, and nothing is left over from
\* the call before.
StagesFit ==
    \A c \in Callers :
        /\ stage[c] = "idle" <=> request[c] = NoRequest
        /\ stage[c] \in {"isSupported", "availability"}
              => request[c].op \in CipherOp \cup KeyOp \cup {"getBiometryStatus"}
        /\ stage[c] = "open" => request[c].op \in CipherOp
        /\ stage[c] = "prompt" => request[c].op \in CipherOp \cup KeyOp
        /\ stage[c] # "replied" => answer[c] = NoAnswer
        /\ stage[c] = "idle" => expects[c] = Empty

\* A queue of the method channel holds calls of one stage, each of them once.
Line(q, s) ==
    /\ \A i \in 1..Len(q) : stage[q[i]] = s
    /\ \A i, j \in 1..Len(q) : q[i] = q[j] => i = j

LinesFit == Line(inbox, "sent") /\ Line(outbox, "replied")

ConfigFits == isConfigured => configData # Empty

\* The configuration in the plugin, and the one after a call in the inbox.
InPlugin == IF isConfigured THEN configData ELSE Empty
After(c) == Promise!Configured(request[c], expects[c])

\* The channel keeps the order of the calls: each call in the inbox will find
\* the configuration it was made under, and the last leaves the one intended.
InOrder ==
    /\ inbox = <<>> => intended = InPlugin
    /\ inbox # <<>> =>
          /\ expects[inbox[1]] = InPlugin
          /\ intended = After(inbox[Len(inbox)])
    /\ \A i \in 1..(Len(inbox) - 1) : expects[inbox[i + 1]] = After(inbox[i])

\* The data to sign is the configuration the call was made under.
SignsExpected ==
    \A c \in Callers :
        stage[c] \in InWindows /\ request[c].op \in CipherOp
            => signing[c] = expects[c]

Configures(c) == request[c].op = "configure"

\* A last configure call that overlaps no other is the only one under way, and
\* when its reply says it succeeded, the plugin has its data.
LastConfigure ==
    ~overlapped =>
        \A c \in Callers : Configures(c) =>
            /\ \A x \in Callers : Configures(x) => x = c
            /\ ~flag
            /\ request[c].data # Absent => intended = request[c].data
            /\ stage[c] = "replied" /\ answer[c].code = "none"
                 => isConfigured /\ configData = intended

-----------------------------------------------------------------------------
(* TypeOK in parts *)

Code ==
    {"none", "UNKNOWN_ERROR"} \cup {PluginErrorCode[hr] : hr \in DOMAIN PluginErrorCode}

Reply == [code : Code, status : 0..6, cipher : Promise!Cipher]

FrameTypes ==
    /\ stage \in [Callers -> Stage]
    /\ \A c \in Callers : request[c] \in Requests[c] \cup {NoRequest}
    /\ DOMAIN request = Callers
    /\ signing \in [Callers -> Data \cup {Empty}]
    /\ answer \in [Callers -> Reply]
    /\ expects \in [Callers -> Data \cup {Empty}]
    /\ said \in [Callers -> Cause]

SigningFits ==
    \A c \in Callers :
        stage[c] \in InWindows /\ request[c].op \in CipherOp => signing[c] # Empty

HooksFit == hooks \subseteq {c \in Callers : stage[c] \in {"prompt", "replied"}}

Flags == flag \in BOOLEAN /\ isConfigured \in BOOLEAN /\ overlapped \in BOOLEAN

StoreTypes ==
    /\ inbox \in Seq(Callers) /\ outbox \in Seq(Callers)
    /\ configData \in Data \cup {Empty}
    /\ creds \in [Tags -> Keys \cup {NoKey}]
    /\ intended \in Data \cup {Empty}

Types == FrameTypes /\ SigningFits /\ HooksFit /\ Flags /\ StoreTypes

\* TypeOK is the conjunction of these.
LEMMA TypeParts == TypeOK <=> Types
BY DEF TypeOK, Types, FrameTypes, SigningFits, HooksFit, Flags, StoreTypes,
       InWindows, CipherOp, Reply, Code

Control == FrameTypes /\ StagesFit /\ LinesFit /\ StoreTypes

-----------------------------------------------------------------------------
(* Replies and requests *)

\* The replies of the handlers are well-typed.
LEMMA ReplyTypes ==
    /\ NoAnswer \in Reply
    /\ \A s \in 0..6 : Value(s) \in Reply /\ Value(s).code = "none"
                       /\ Value(s).status = s /\ Value(s).cipher = Damaged
    /\ \A hr : Error(hr) \in Reply /\ Error(hr).code = GetErrorCodeString(hr)
                 /\ Error(hr).code # "none" /\ Error(hr).cipher = Damaged
    /\ \A aes \in Promise!Cipher :
          LET a == [NoAnswer EXCEPT !.cipher = aes]
          IN  a \in Reply /\ a.code = "none" /\ a.cipher = aes
<1>1. Damaged \in Promise!Cipher
  BY DEF Damaged, Promise!Cipher
<1>2. \A hr : GetErrorCodeString(hr) \in Code \ {"none"}
  BY DEF GetErrorCodeString, Code, PluginErrorCode
<1>3. "none" \in Code
  BY DEF Code
<1>4. QED
  BY <1>1, <1>2, <1>3 DEF NoAnswer, Value, Error, Reply

\* What a caller asks has the fields of its operation.
LEMMA RequestFields ==
    ASSUME FrameTypes, NEW c \in Callers
    PROVE  /\ request[c].op \in CipherOp \cup KeyOp => request[c].tag \in Tags
           /\ request[c].op = "decrypt" => request[c].cipher \in Promise!Cipher
           /\ request[c].op = "configure" => request[c].data \in Data \cup {Empty, Absent}
           /\ request[c] # NoRequest
                 => /\ request[c] \in Requests[c] /\ request[c] \in Promise!Request
                    /\ request[c].op \in CipherOp \cup KeyOp \cup
                          {"configure", "getBiometryStatus", "getTPMStatus"}
<1>1. NoRequest.op = "none"
  BY DEF NoRequest, Promise!NoRequest
<1>2. request[c] # NoRequest
         => request[c] \in Requests[c] /\ request[c] \in Promise!Request
  BY HelloConstants DEF FrameTypes, Promise!KeyStoreAssumption
<1>3. CASE request[c] = NoRequest
  BY <1>1, <1>3 DEF CipherOp, KeyOp
<1>4. CASE request[c] # NoRequest
  BY <1>2, <1>4 DEF Promise!Request, CipherOp, KeyOp
<1>5. QED
  BY <1>3, <1>4

-----------------------------------------------------------------------------
(* Queues of the method channel *)

\* A caller that is in no queue joins one.
LEMMA Joins ==
    ASSUME NEW q \in Seq(Callers), NEW c \in Callers,
           \A i \in 1..Len(q) : q[i] # c,
           \A i, j \in 1..Len(q) : q[i] = q[j] => i = j
    PROVE  /\ Append(q, c) \in Seq(Callers)
           /\ Len(Append(q, c)) = Len(q) + 1
           /\ Append(q, c)[Len(q) + 1] = c
           /\ \A i \in 1..Len(q) : Append(q, c)[i] = q[i]
           /\ \A i, j \in 1..Len(Append(q, c)) :
                 Append(q, c)[i] = Append(q, c)[j] => i = j
OBVIOUS

\* The head leaves it, and is in it no more.
LEMMA Leaves ==
    ASSUME NEW q \in Seq(Callers), q # <<>>,
           \A i, j \in 1..Len(q) : q[i] = q[j] => i = j
    PROVE  /\ Head(q) = q[1] /\ Head(q) \in Callers /\ Len(q) \in Nat \ {0}
           /\ Tail(q) \in Seq(Callers)
           /\ Len(Tail(q)) = Len(q) - 1
           /\ \A i \in 1..Len(Tail(q)) : /\ Tail(q)[i] = q[i + 1]
                                         /\ i + 1 \in 1..Len(q)
                                         /\ Tail(q)[i] # Head(q)
           /\ \A i, j \in 1..Len(Tail(q)) : Tail(q)[i] = Tail(q)[j] => i = j
OBVIOUS
-----------------------------------------------------------------------------
(* What a reply says *)

\* The body of ErrorsKeepMeaning, of one reply to a request.
ErrorMeans(r, a, cause) ==
    a.code # "none" =>
        LET code == ExceptionCode[a.code]
            type == BiometricExceptionType(code)
        IN  /\ code = "authenticationUserCanceled" <=> cause = "UserCanceled"
            /\ code = "keyAlreadyExists" <=> cause = "CredentialAlreadyExists"
            /\ r.op \in {"encrypt", "decrypt"} =>
                  /\ type = "cancel" <=> cause = "UserCanceled"
                  /\ type = "keyNotFound" <=> cause = "NotFound"
                  /\ type = "notAvailable" <=> cause = "Unavailable"
            /\ r.op = "deleteKey" => cause # "NoKey"

\* The body of TpmStatusIsTrue, of one reply to a request.
StatusMeans(r, a, cause) ==
    r.op = "getTPMStatus" =>
        /\ a.code = "none"
        /\ a.status = TpmStatus.kSupported <=> cause = "ModernTpm"
        /\ a.status = TpmStatus.kUnsupported <=> cause = "NoTpm"

Told(r, a, cause) == ErrorMeans(r, a, cause) /\ StatusMeans(r, a, cause)

\* Errors that the application is told nothing particular of.
PlainError ==
    {"error_invalid_argument", "error_fail", "other", "error_converting_string",
     "error_configure", "error_decrypt"}

PlainCause ==
    {"Threw", "Mismatch", "Short", "NotConverted", "Unconfigured", "BadConfig", "Unlisted"}

\* Errors of the plugin keep their meaning on the way to the application.
LEMMA ErrorsTold ==
    ASSUME NEW r, r.op # "getTPMStatus"
    PROVE  /\ \A hr \in PlainError : \A cause \in PlainCause : Told(r, Error(hr), cause)
           /\ Told(r, Error("error_biometry_not_supported"), "Unavailable")
           /\ \A status \in KeyCredentialStatus \ {"Success"} :
                 Told(r, Error(CheckKeyCredentialStatus(status)), status)
<1>1. \A hr : Error(hr).code = GetErrorCodeString(hr)
  BY ReplyTypes
<1>2. \A a, cause : ErrorMeans(r, a, cause) => Told(r, a, cause)
  BY DEF Told, StatusMeans
<1>3. ASSUME NEW hr \in PlainError PROVE ExceptionCode[GetErrorCodeString(hr)]
                 \in {"unknown", "configureError", "decryptionError"}
  BY DEF PlainError, GetErrorCodeString, PluginErrorCode, ExceptionCode
<1>4. ASSUME NEW hr \in PlainError, NEW cause \in PlainCause
      PROVE  ErrorMeans(r, Error(hr), cause)
  BY <1>1, <1>3 DEF ErrorMeans, PlainCause, BiometricExceptionType
<1>5. ErrorMeans(r, Error("error_biometry_not_supported"), "Unavailable")
  <2>1. ExceptionCode[GetErrorCodeString("error_biometry_not_supported")]
           = "biometricNotSupported"
    BY DEF GetErrorCodeString, PluginErrorCode, ExceptionCode
  <2>2. QED
    BY <1>1, <2>1 DEF ErrorMeans, BiometricExceptionType
<1>6. ASSUME NEW status \in KeyCredentialStatus \ {"Success"}
      PROVE  ErrorMeans(r, Error(CheckKeyCredentialStatus(status)), status)
  <2> DEFINE code == ExceptionCode[GetErrorCodeString(CheckKeyCredentialStatus(status))]
  <2>1. CASE status = "NotFound"
    <3>1. code = "keyNotFound"
      BY <2>1 DEF CheckKeyCredentialStatus, CredentialError, GetErrorCodeString,
                  PluginErrorCode, ExceptionCode
    <3>2. QED
      BY <1>1, <2>1, <3>1 DEF ErrorMeans, BiometricExceptionType
  <2>2. CASE status = "UserCanceled"
    <3>1. code = "authenticationUserCanceled"
      BY <2>2 DEF CheckKeyCredentialStatus, CredentialError, GetErrorCodeString,
                  PluginErrorCode, ExceptionCode
    <3>2. QED
      BY <1>1, <2>2, <3>1 DEF ErrorMeans, BiometricExceptionType
  <2>3. CASE status = "CredentialAlreadyExists"
    <3>1. code = "keyAlreadyExists"
      BY <2>3 DEF CheckKeyCredentialStatus, CredentialError, GetErrorCodeString,
                  PluginErrorCode, ExceptionCode
    <3>2. QED
      BY <1>1, <2>3, <3>1 DEF ErrorMeans, BiometricExceptionType
  <2>4. CASE status \in {"UnknownError", "UserPrefersPassword",
                         "SecurityDeviceLocked", "Unlisted"}
    <3>1. code \in {"unknown", "authenticationError"}
      BY <2>4 DEF CheckKeyCredentialStatus, CredentialError, GetErrorCodeString,
                  PluginErrorCode, ExceptionCode
    <3>2. QED
      BY <1>1, <2>4, <3>1 DEF ErrorMeans, BiometricExceptionType
  <2>5. QED
    BY <2>1, <2>2, <2>3, <2>4 DEF KeyCredentialStatus, CredentialError
<1>7. QED
  BY <1>2, <1>4, <1>5, <1>6

\* A reply that is no error says what the TPM is, or nothing that matters.
LEMMA ValuesTold ==
    ASSUME NEW r
    PROVE  /\ r.op # "getTPMStatus" =>
                 \A a, cause : a.code = "none" => Told(r, a, cause)
           /\ \A platform \in Platform(PlatformTypes) :
                 Told(r, Value(GetTPMStatus(platform)), TpmKind(platform))
<1>1. r.op # "getTPMStatus" => \A a, cause : a.code = "none" => Told(r, a, cause)
  BY DEF Told, ErrorMeans, StatusMeans
<1>2. ASSUME NEW platform \in Platform(PlatformTypes)
      PROVE  Told(r, Value(GetTPMStatus(platform)), TpmKind(platform))
  <2>1. /\ GetTPMStatus(platform) \in 0..2
        /\ GetTPMStatus(platform) = TpmStatus.kUnsupported <=> ~platform.provider
        /\ GetTPMStatus(platform) = TpmStatus.kSupported
              <=> /\ platform.provider /\ platform.readable
                  /\ HasMajorVersion(platform.type, "two")
    BY HelloAssumption, TpmStatusMeans
  <2>2. GetTPMStatus(platform) \in 0..6
    BY <2>1
  <2>3. /\ Value(GetTPMStatus(platform)).code = "none"
        /\ Value(GetTPMStatus(platform)).status = GetTPMStatus(platform)
    BY <2>2, ReplyTypes
  <2>4. /\ TpmKind(platform) = "NoTpm" <=> ~platform.provider
        /\ TpmKind(platform) = "ModernTpm"
              <=> /\ platform.provider /\ platform.readable
                  /\ HasMajorVersion(platform.type, "two")
    BY DEF TpmKind
  <2>5. QED
    BY <2>1, <2>3, <2>4 DEF Told, ErrorMeans, StatusMeans
<1>3. QED
  BY <1>1, <1>2

-----------------------------------------------------------------------------
(* The steps of a call *)

\* All steps of the plugin for a call.
CallStep(c) ==
    \/ Handle(c) \/ IsSupported(c) \/ CheckAvailability(c) \/ AvailabilityUnlisted(c)
    \/ Open(c) \/ Throws(c, "isSupported") \/ Throws(c, "availability")
    \/ Throws(c, "open") \/ Prompted(c)

Taken(c) == stage[c] = "sent" /\ inbox # <<>> /\ Head(inbox) = c /\ inbox' = Tail(inbox)

Continued(c) == stage[c] \in InWindows /\ UNCHANGED <<inbox, storage>>

\* What StagesFit lets a call of each operation await.
Suits(s, op) ==
    /\ s \in {"isSupported", "availability"}
          => op \in CipherOp \cup KeyOp \cup {"getBiometryStatus"}
    /\ s = "open" => op \in CipherOp
    /\ s = "prompt" => op \in CipherOp \cup KeyOp

\* It comes from the inbox or from Windows, and only configure changes the
\* configuration; a call at a prompt is one with a key.
LEMMA CallBegins ==
    ASSUME Control, NEW c \in Callers, CallStep(c)
    PROVE  /\ Taken(c) \/ Continued(c)
           /\ ~Configures(c) => UNCHANGED storage
           /\ Configures(c) => Taken(c) /\ Configure(c)
           /\ request[c] # NoRequest
           /\ request[c].op = "getTPMStatus" => Taken(c) /\ ReportTPMStatus(c)
           /\ Suits(stage[c], request[c].op)
           /\ UNCHANGED <<flag, request, intended, expects, overlapped>>
<1>1. Suits(stage[c], request[c].op) /\ (stage[c] # "idle" => request[c] # NoRequest)
  BY DEF Control, StagesFit, Suits
<1>2. ASSUME NEW op, Handles(c, op) PROVE Taken(c) /\ request[c] # NoRequest /\ request[c].op = op
  <2>1. inbox # <<>> /\ Head(inbox) = c /\ inbox' = Tail(inbox) /\ request[c].op = op
    BY <1>2 DEF Handles
  <2>2. inbox \in Seq(Callers)
    BY DEF Control, StoreTypes
  <2>3. Len(inbox) \in Nat /\ 1 \in 1..Len(inbox) /\ Head(inbox) = inbox[1]
    BY <2>1, <2>2
  <2>4. stage[c] = "sent"
    BY <2>1, <2>3 DEF Control, LinesFit, Line
  <2>5. QED
    BY <1>1, <2>1, <2>4 DEF Taken
<1>3. ASSUME NEW s \in InWindows, Resumes(c, s)
      PROVE  /\ Continued(c) /\ request[c] # NoRequest
             /\ ~Configures(c) /\ request[c].op # "getTPMStatus"
  BY <1>1, <1>3 DEF Resumes, Continued, InWindows, Configures, Suits, CipherOp, KeyOp
<1>4. CASE Configure(c)
  <2>1. Handles(c, "configure")
    BY <1>4 DEF Configure
  <2>2. UNCHANGED <<flag, request, intended, expects, overlapped>>
    BY <1>4 DEF Configure, Fails, Replies
  <2>3. QED
    BY <1>1, <1>2, <1>4, <2>1, <2>2 DEF Configures
<1>5. CASE ReportTPMStatus(c)
  <2>1. Handles(c, "getTPMStatus")
    BY <1>5 DEF ReportTPMStatus
  <2>2. UNCHANGED <<flag, request, intended, expects, overlapped, storage>>
    BY <1>5 DEF ReportTPMStatus, Replies
  <2>3. QED
    BY <1>1, <1>2, <1>5, <2>1, <2>2 DEF Configures
<1>6. CASE BeginHello(c) \/ BeginCipher(c) \/ RefuseCipher(c)
  <2>1. \E op \in CipherOp \cup KeyOp \cup {"getBiometryStatus"} : Handles(c, op)
    BY <1>6 DEF BeginHello, BeginCipher, RefuseCipher, CipherOp, KeyOp
  <2>2. UNCHANGED <<flag, request, intended, expects, overlapped, storage>>
    BY <1>6 DEF BeginHello, BeginCipher, RefuseCipher, Awaits, Fails, Replies
  <2>3. QED
    BY <1>1, <1>2, <2>1, <2>2 DEF Configures, CipherOp, KeyOp
<1>7. CASE IsSupported(c) \/ CheckAvailability(c) \/ AvailabilityUnlisted(c) \/ Open(c)
  <2>1. \E s \in InWindows : Resumes(c, s)
    BY <1>7 DEF IsSupported, CheckAvailability, AvailabilityUnlisted, Open, InWindows
  <2>2. UNCHANGED <<flag, request, intended, expects, overlapped>>
    BY <1>7 DEF IsSupported, CheckAvailability, AvailabilityUnlisted, Open, Supported,
                Awaits, Fails, Replies
  <2>3. QED
    BY <1>1, <1>3, <2>1, <2>2 DEF Continued
<1>8. CASE Throws(c, "isSupported") \/ Throws(c, "availability") \/ Throws(c, "open")
  <2>1. \E s \in InWindows : Resumes(c, s)
    BY <1>8 DEF Throws, InWindows
  <2>2. UNCHANGED <<flag, request, intended, expects, overlapped>>
    BY <1>8 DEF Throws, Fails, Replies
  <2>3. QED
    BY <1>1, <1>3, <2>1, <2>2 DEF Continued
<1>9. CASE Prompted(c)
  <2>1. Resumes(c, "prompt") /\ "prompt" \in InWindows
    BY <1>9 DEF Prompted, RequestSign, RequestCreate, Delete, PromptThrows, InWindows
  <2>2. UNCHANGED <<flag, request, intended, expects, overlapped>>
    BY <1>9 DEF Prompted, RequestSign, RequestCreate, Delete, PromptThrows, Ciphers,
                Encrypts, Decrypts, ConvertHStringToString, Fails, Replies
  <2>3. QED
    BY <1>1, <1>3, <2>1, <2>2 DEF Continued
<1>10. QED
  BY <1>4, <1>5, <1>6, <1>7, <1>8, <1>9 DEF CallStep, Handle

\* What a call replies that does not come to a prompt.
Unprompted(c, a, cause) ==
    /\ a.cipher = Damaged /\ cause # "Mismatch"
    /\ a.code = "none" => request[c].op \in {"configure", "getBiometryStatus", "getTPMStatus"}

\* A call ends, with a reply that means what caused it, and leaves no hook but by
\* an exception; or it awaits a Windows operation of its kind.
EndsWith(c, a, cause) ==
    /\ Replies(c, a, cause) /\ Told(request[c], a, cause)
    /\ stage[c] # "prompt" => Unprompted(c, a, cause)
    /\ c \in hooks' => cause \in {"Threw", "NoKey"}
    /\ Configures(c) /\ a.code = "none"
          => isConfigured' = TRUE /\ configData' = request[c].data

Ends(c) == \E a \in Reply, cause \in Cause : EndsWith(c, a, cause)

GoesOn(c) ==
    \E s \in InWindows :
        /\ Awaits(c, s) /\ Suits(s, request[c].op)
        /\ c \in hooks' => s = "prompt"
        /\ \/ signing' = signing /\ (Continued(c) \/ request[c].op \notin CipherOp)
           \/ Taken(c) /\ isConfigured /\ signing' = [signing EXCEPT ![c] = configData]

\* Refusals are statuses of Windows.
LEMMA Statuses ==
    ASSUME NEW c \in Callers
    PROVE  /\ Status(c) \subseteq KeyCredentialStatus
           /\ KeyCredentialStatus \subseteq Cause \ {"Mismatch"}
           /\ "Success" \notin Refusals
           /\ "Success" \in Status(c) => Key(c) # NoKey
BY HelloAssumption DEF Status, KeyCredentialStatus, CredentialError, Cause

\* What handles a method call answers it or awaits Windows Hello.
LEMMA HandleOutcome ==
    ASSUME Control, HooksFit, NEW c \in Callers, Handle(c)
    PROVE  (Ends(c) \/ GoesOn(c)) /\ UNCHANGED <<creds, hooks>>
<1>1. Taken(c)
  BY CallBegins DEF CallStep, Handle, Configure, ReportTPMStatus, BeginHello, BeginCipher,
                    RefuseCipher, Continued, Taken, Handles, Control, LinesFit, Line
<1>2. c \notin hooks
  BY <1>1 DEF HooksFit, Taken
<1>3. CASE Configure(c)
  <2>1. request[c].op = "configure" /\ UNCHANGED <<creds, hooks>>
    BY <1>3 DEF Configure, Handles, NoHook
  <2>2. CASE Replies(c, NoAnswer, "Success") /\ isConfigured' = TRUE
             /\ configData' = request[c].data
    <3>1. NoAnswer \in Reply /\ NoAnswer.code = "none" /\ NoAnswer.cipher = Damaged
      BY ReplyTypes DEF NoAnswer
    <3>2. Told(request[c], NoAnswer, "Success")
      BY <2>1, <3>1, ValuesTold
    <3>3. "Success" \in Cause
      BY DEF Cause, KeyCredentialStatus
    <3>4. QED
      BY <1>2, <2>1, <2>2, <3>1, <3>2, <3>3 DEF Ends, EndsWith, Unprompted
  <2>3. ASSUME NEW hr \in PlainError, Fails(c, hr, "BadConfig") PROVE Ends(c)
    <3>1. Error(hr) \in Reply /\ Error(hr).code # "none" /\ Error(hr).cipher = Damaged
      BY ReplyTypes
    <3>2. Told(request[c], Error(hr), "BadConfig")
      BY <2>1, ErrorsTold DEF PlainCause
    <3>3. "BadConfig" \in Cause
      BY DEF Cause
    <3>4. QED
      BY <1>2, <2>1, <2>3, <3>1, <3>2, <3>3 DEF Ends, EndsWith, Fails, Unprompted
  <2>4. \/ Fails(c, "error_invalid_argument", "BadConfig")
        \/ Fails(c, "error_configure", "BadConfig")
        \/ Replies(c, NoAnswer, "Success") /\ isConfigured' = TRUE
             /\ configData' = request[c].data
    BY <1>3 DEF Configure
  <2>5. QED
    BY <2>1, <2>2, <2>3, <2>4 DEF PlainError
<1>4. CASE ReportTPMStatus(c)
  <2>1. request[c].op = "getTPMStatus" /\ UNCHANGED <<creds, hooks>>
    BY <1>4 DEF ReportTPMStatus, Handles, NoHook
  <2>2. PICK platform \in Platform(PlatformTypes) :
          Replies(c, Value(GetTPMStatus(platform)), TpmKind(platform))
    BY <1>4 DEF ReportTPMStatus
  <2>3. Told(request[c], Value(GetTPMStatus(platform)), TpmKind(platform))
    BY <2>2, ValuesTold
  <2>4. GetTPMStatus(platform) \in 0..6 /\ TpmKind(platform) \in Cause \ {"Mismatch"}
    BY DEF GetTPMStatus, TpmStatus, TpmKind, Cause
  <2>5. /\ Value(GetTPMStatus(platform)) \in Reply
        /\ Value(GetTPMStatus(platform)).cipher = Damaged
    BY <2>4, ReplyTypes
  <2>6. QED
    BY <1>2, <2>1, <2>2, <2>3, <2>4, <2>5 DEF Ends, EndsWith, Unprompted, Configures
<1>5. CASE BeginHello(c)
  <2>1. /\ request[c].op \in KeyOp \cup {"getBiometryStatus"}
        /\ Awaits(c, "isSupported") /\ UNCHANGED <<creds, signing, hooks>>
    BY <1>5 DEF BeginHello, Handles, NoHook, KeyOp
  <2>2. GoesOn(c)
    BY <1>2, <2>1 DEF GoesOn, InWindows, Suits, KeyOp, CipherOp
  <2>3. QED
    BY <2>1, <2>2
<1>6. CASE BeginCipher(c)
  <2>1. /\ request[c].op \in CipherOp
        /\ Awaits(c, "isSupported") /\ UNCHANGED <<creds, hooks>>
        /\ isConfigured /\ signing' = [signing EXCEPT ![c] = configData]
    BY <1>6 DEF BeginCipher, Handles, NoHook, CipherOp
  <2>2. GoesOn(c)
    BY <1>1, <1>2, <2>1 DEF GoesOn, InWindows, Suits
  <2>3. QED
    BY <2>1, <2>2
<1>7. CASE RefuseCipher(c)
  <2>1. /\ request[c].op \in CipherOp /\ UNCHANGED <<creds, hooks>>
        /\ \E hr \in PlainError : Fails(c, hr, "Unconfigured")
    BY <1>7 DEF RefuseCipher, Handles, NoHook, PlainError, CipherOp
  <2>2. PICK hr \in PlainError : Fails(c, hr, "Unconfigured")
    BY <2>1
  <2>3. /\ Error(hr) \in Reply /\ Error(hr).code # "none" /\ Error(hr).cipher = Damaged
        /\ "Unconfigured" \in Cause
    BY ReplyTypes DEF Cause
  <2>4. Told(request[c], Error(hr), "Unconfigured")
    BY <2>1, ErrorsTold DEF PlainCause, CipherOp
  <2>5. QED
    BY <1>2, <2>1, <2>2, <2>3, <2>4
       DEF Ends, EndsWith, Unprompted, Fails, Configures, CipherOp
<1>8. QED
  BY <1>3, <1>4, <1>5, <1>6, <1>7 DEF Handle

\* A refused step ends the call.
LEMMA FailEnds ==
    ASSUME Control, NEW c \in Callers, Continued(c), NEW hr, NEW cause \in Cause,
           Fails(c, hr, cause), Told(request[c], Error(hr), cause),
           c \in hooks' => cause \in {"Threw", "NoKey"},
           stage[c] # "prompt" => cause # "Mismatch"
    PROVE  Ends(c)
<1>1. Error(hr) \in Reply /\ Error(hr).code # "none" /\ Error(hr).cipher = Damaged
  BY ReplyTypes
<1>2. QED
  BY <1>1 DEF Ends, EndsWith, Unprompted, Fails

\* What Windows Hello being there leads to.
LEMMA SupportedOutcome ==
    ASSUME Control, HooksFit, NEW c \in Callers,
           stage[c] \in {"isSupported", "availability"}, Continued(c), Supported(c)
    PROVE  /\ Ends(c) \/ GoesOn(c)
           /\ \A x \in hooks' : x \in hooks \/ x = c
<1>1. request[c].op \in CipherOp \cup KeyOp \cup {"getBiometryStatus"} /\ c \notin hooks
  BY DEF Control, StagesFit, HooksFit
<1>2. CASE request[c].op = "getBiometryStatus"
  <2>1. Replies(c, Value(0), "Success") /\ UNCHANGED hooks
    BY <1>2 DEF Supported, BiometryStatus, NoHook
  <2>2. 0 \in 0..6
    OBVIOUS
  <2>3. /\ Value(0) \in Reply /\ Value(0).code = "none" /\ Value(0).cipher = Damaged
        /\ "Success" \in Cause
    BY <2>2, ReplyTypes DEF Cause, KeyCredentialStatus
  <2>4. Told(request[c], Value(0), "Success")
    BY <1>2, <2>3, ValuesTold
  <2>5. QED
    BY <1>1, <1>2, <2>1, <2>3, <2>4 DEF Ends, EndsWith, Unprompted, Configures
<1>3. CASE request[c].op \in KeyOp
  <2>1. Awaits(c, "prompt") /\ UNCHANGED signing /\ hooks' \in {hooks, hooks \cup {c}}
    BY <1>3 DEF Supported, SetsHook, KeyOp
  <2>2. QED
    BY <1>3, <2>1 DEF GoesOn, Suits, InWindows
<1>4. CASE request[c].op \in CipherOp
  <2>1. Awaits(c, "open") /\ UNCHANGED <<signing, hooks>>
    BY <1>4 DEF Supported, NoHook, CipherOp
  <2>2. QED
    BY <1>1, <1>4, <2>1 DEF GoesOn, Suits, InWindows
<1>5. QED
  BY <1>1, <1>2, <1>3, <1>4

\* What becomes of a call before Windows prompts.
LEMMA AskOutcome ==
    ASSUME Control, HooksFit, NEW c \in Callers,
           \/ IsSupported(c) \/ CheckAvailability(c) \/ AvailabilityUnlisted(c) \/ Open(c)
           \/ Throws(c, "isSupported") \/ Throws(c, "availability") \/ Throws(c, "open")
    PROVE  /\ Ends(c) \/ GoesOn(c)
           /\ creds' = creds
           /\ \A x \in hooks' : x \in hooks \/ x = c
<1>1. Continued(c) /\ ~Configures(c) /\ request[c].op # "getTPMStatus"
  <2>1. Taken(c) => FALSE
    BY DEF IsSupported, CheckAvailability, AvailabilityUnlisted, Open, Throws, Resumes, Taken
  <2>2. QED
    BY <2>1, CallBegins DEF CallStep
<1>2. stage[c] \in {"isSupported", "availability", "open"}
  BY DEF IsSupported, CheckAvailability, AvailabilityUnlisted, Open, Throws, Resumes
<1>3. c \notin hooks /\ creds' = creds
  BY <1>2 DEF HooksFit, IsSupported, CheckAvailability, AvailabilityUnlisted, Open, Throws
<1>4. {"Threw", "Unlisted", "Unavailable", "Success"} \subseteq Cause
  BY DEF Cause, KeyCredentialStatus
<1>5. CASE IsSupported(c)
  <2>1. stage[c] = "isSupported"
    BY <1>5 DEF IsSupported, Resumes
  <2>2. CASE Supported(c)
    BY <1>1, <1>3, <2>1, <2>2, SupportedOutcome
  <2>3. CASE Awaits(c, "availability") /\ UNCHANGED signing /\ NoHook
    <3>1. Suits("availability", request[c].op)
      BY <2>1 DEF Suits, Control, StagesFit
    <3>2. QED
      BY <1>1, <1>3, <2>3, <3>1 DEF GoesOn, InWindows, NoHook
  <2>4. QED
    BY <1>5, <2>2, <2>3 DEF IsSupported
<1>6. CASE CheckAvailability(c)
  <2>1. stage[c] = "availability"
    BY <1>6 DEF CheckAvailability, Resumes
  <2>2. PICK available \in Availabilities :
          IF available = "Available" THEN Supported(c)
          ELSE /\ IF request[c].op = "getBiometryStatus"
                  THEN Replies(c, Value(AvailabilityStatus[available]), "Success")
                  ELSE Fails(c, "error_biometry_not_supported", "Unavailable")
               /\ NoHook
    BY <1>6 DEF CheckAvailability
  <2>3. CASE available = "Available"
    BY <1>1, <1>3, <2>1, <2>2, <2>3, SupportedOutcome
  <2>4. CASE available # "Available"
    <3>1. UNCHANGED hooks
      BY <2>2, <2>4 DEF NoHook
    <3>2. CASE request[c].op = "getBiometryStatus"
      <4>1. Replies(c, Value(AvailabilityStatus[available]), "Success")
        BY <2>2, <2>4, <3>2
      <4>2. AvailabilityStatus[available] \in 0..6
        BY HelloAssumption DEF AvailabilityStatus, BiometryStatus
      <4>3. /\ Value(AvailabilityStatus[available]) \in Reply
            /\ Value(AvailabilityStatus[available]).code = "none"
            /\ Value(AvailabilityStatus[available]).cipher = Damaged
        BY <4>2, ReplyTypes
      <4>4. Told(request[c], Value(AvailabilityStatus[available]), "Success")
        BY <1>1, <4>3, ValuesTold
      <4>5. QED
        BY <1>1, <1>3, <1>4, <3>1, <3>2, <4>1, <4>3, <4>4 DEF Ends, EndsWith, Unprompted
    <3>3. CASE request[c].op # "getBiometryStatus"
      <4>1. Fails(c, "error_biometry_not_supported", "Unavailable")
        BY <2>2, <2>4, <3>3
      <4>2. Told(request[c], Error("error_biometry_not_supported"), "Unavailable")
        BY <1>1, ErrorsTold
      <4>3. QED
        BY <1>1, <1>3, <1>4, <3>1, <4>1, <4>2, FailEnds
    <3>4. QED
      BY <3>2, <3>3
  <2>5. QED
    BY <2>3, <2>4
<1>7. CASE AvailabilityUnlisted(c)
  <2>1. Fails(c, "error_fail", "Unlisted") /\ UNCHANGED hooks
    BY <1>7 DEF AvailabilityUnlisted, NoHook
  <2>2. Told(request[c], Error("error_fail"), "Unlisted")
    BY <1>1, ErrorsTold DEF PlainError, PlainCause
  <2>3. QED
    BY <1>1, <1>3, <1>4, <2>1, <2>2, FailEnds
<1>8. CASE Open(c)
  <2>1. stage[c] = "open" /\ request[c].op \in CipherOp
    BY <1>8 DEF Open, Resumes, Control, StagesFit
  <2>2. PICK status \in Status(c) :
          IF status = "Success"
          THEN Awaits(c, "prompt") /\ UNCHANGED signing /\ SetsHook(c)
          ELSE Fails(c, CheckKeyCredentialStatus(status), status) /\ NoHook
    BY <1>8 DEF Open
  <2>3. CASE status = "Success"
    <3>1. Awaits(c, "prompt") /\ UNCHANGED signing /\ hooks' \in {hooks, hooks \cup {c}}
      BY <2>2, <2>3 DEF SetsHook
    <3>2. Suits("prompt", request[c].op)
      BY <2>1 DEF Suits
    <3>3. GoesOn(c)
      BY <1>1, <3>1, <3>2 DEF GoesOn, InWindows
    <3>4. QED
      BY <1>3, <3>1, <3>3
  <2>4. CASE status # "Success"
    <3>1. Fails(c, CheckKeyCredentialStatus(status), status) /\ UNCHANGED hooks
      BY <2>2, <2>4 DEF NoHook
    <3>2. status \in KeyCredentialStatus \ {"Success"} /\ status \in Cause \ {"Mismatch"}
      BY <2>4, Statuses
    <3>3. Told(request[c], Error(CheckKeyCredentialStatus(status)), status)
      BY <1>1, <3>2, ErrorsTold
    <3>4. QED
      BY <1>1, <1>3, <3>1, <3>2, <3>3, FailEnds
  <2>5. QED
    BY <2>3, <2>4
<1>9. CASE \E s \in {"isSupported", "availability", "open"} : Throws(c, s)
  <2>1. Fails(c, "other", "Threw") /\ UNCHANGED hooks
    BY <1>9 DEF Throws, NoHook
  <2>2. Told(request[c], Error("other"), "Threw")
    BY <1>1, ErrorsTold DEF PlainError, PlainCause
  <2>3. QED
    BY <1>1, <1>3, <1>4, <2>1, <2>2, FailEnds
<1>10. QED
  BY <1>5, <1>6, <1>7, <1>8, <1>9

\* The keys that a signature is made with.
LEMMA SignsWith ==
    ASSUME Control, SigningFits, NEW c \in Callers,
           stage[c] = "prompt", request[c].op \in CipherOp
    PROVE  /\ signing[c] \in Data
           /\ Key(c) \in Keys \cup {NoKey}
           /\ Key(c) # NoKey => AesKey(c, signing[c]) \in Promise!Cipher
<1>1. signing[c] \in Data
  BY DEF SigningFits, InWindows, Control, FrameTypes
<1>2. request[c].tag \in Tags
  BY RequestFields DEF Control
<1>3. Key(c) \in Keys \cup {NoKey}
  BY <1>2 DEF Key, Control, StoreTypes
<1>4. QED
  BY <1>1, <1>3 DEF AesKey, Promise!Cipher

\* What can become of a signature: the answer, or one of three errors.
LEMMA CipherOutcome ==
    ASSUME Control, SigningFits, NEW c \in Callers, stage[c] = "prompt",
           request[c].op \in CipherOp, Key(c) # NoKey, Ciphers(c, signing[c])
    PROVE  \/ /\ request[c].op = "encrypt"
              /\ Replies(c, [NoAnswer EXCEPT !.cipher = AesKey(c, signing[c])], "Success")
           \/ /\ request[c].op = "decrypt" /\ request[c].cipher = AesKey(c, signing[c])
              /\ Replies(c, NoAnswer, "Success")
           \/ /\ request[c].op = "decrypt" /\ request[c].cipher # AesKey(c, signing[c])
              /\ Fails(c, "other", "Mismatch")
           \/ Fails(c, "error_decrypt", "Short")
           \/ Fails(c, "error_converting_string", "NotConverted")
<1>1. CASE request[c].op = "encrypt"
  BY <1>1 DEF Ciphers, Encrypts, ConvertHStringToString
<1>2. CASE request[c].op = "decrypt"
  <2>1. Decrypts(c, AesKey(c, signing[c]))
    BY <1>2 DEF Ciphers
  <2>2. QED
    BY <1>2, <2>1 DEF Decrypts, ConvertHStringToString
<1>3. QED
  BY <1>1, <1>2 DEF CipherOp

\* What becomes of a call that Windows prompts for.
LEMMA PromptOutcome ==
    ASSUME Control, SigningFits, NEW c \in Callers, Prompted(c)
    PROVE  /\ Ends(c)
           /\ creds' \in [Tags -> Keys \cup {NoKey}]
           /\ \A x \in hooks' : x \in hooks
<1>1. Continued(c) /\ stage[c] = "prompt"
  BY DEF Prompted, RequestSign, RequestCreate, Delete, PromptThrows, Resumes, Continued, InWindows
<1>2. request[c].op \in CipherOp \cup KeyOp /\ ~Configures(c) /\ request[c].op # "getTPMStatus"
  BY <1>1 DEF Control, StagesFit, Configures, CipherOp, KeyOp
<1>3. creds \in [Tags -> Keys \cup {NoKey}] /\ request[c].tag \in Tags
  BY <1>2, RequestFields DEF Control, StoreTypes
<1>4. /\ {"Threw", "Success", "NoKey", "CredentialAlreadyExists", "Mismatch", "Short",
           "NotConverted"} \subseteq Cause
      /\ NoAnswer \in Reply /\ NoAnswer.code = "none"
  BY ReplyTypes DEF Cause, KeyCredentialStatus, CredentialError, NoAnswer
<1>5. ASSUME NEW a \in Reply, NEW cause \in Cause, Replies(c, a, cause), a.code = "none",
             c \in hooks' => cause \in {"Threw", "NoKey"}
      PROVE  Ends(c)
  <2>1. Told(request[c], a, cause)
    BY <1>2, <1>5, ValuesTold
  <2>2. QED
    BY <1>1, <1>2, <1>5, <2>1 DEF Ends, EndsWith
<1>6. CASE RequestSign(c)
  <2>1. request[c].op \in CipherOp /\ hooks' = hooks \ {c} /\ creds' = creds
    BY <1>6 DEF RequestSign, Unhooks, CipherOp
  <2>2. PICK status \in Status(c) :
          IF status = "Success" THEN Ciphers(c, signing[c])
          ELSE Fails(c, CheckKeyCredentialStatus(status), status)
    BY <1>6 DEF RequestSign
  <2>3. CASE status # "Success"
    <3>1. Fails(c, CheckKeyCredentialStatus(status), status)
      BY <2>2, <2>3
    <3>2. status \in KeyCredentialStatus \ {"Success"} /\ status \in Cause
      BY <2>3, Statuses
    <3>3. Told(request[c], Error(CheckKeyCredentialStatus(status)), status)
      BY <1>2, <3>2, ErrorsTold
    <3>4. QED
      BY <1>1, <1>3, <2>1, <3>1, <3>2, <3>3, FailEnds
  <2>4. CASE status = "Success"
    <3>1. Key(c) # NoKey
      BY <2>4, Statuses
    <3>2. PICK aes : aes = AesKey(c, signing[c])
      OBVIOUS
    <3>3. aes \in Promise!Cipher
      BY <1>1, <2>1, <3>1, <3>2, SignsWith
    <3>4. CASE Replies(c, [NoAnswer EXCEPT !.cipher = AesKey(c, signing[c])], "Success")
      <4>1. PICK a : a = [NoAnswer EXCEPT !.cipher = aes]
        OBVIOUS
      <4>2. a \in Reply /\ a.code = "none"
        BY <3>3, <4>1, ReplyTypes
      <4>3. Replies(c, a, "Success")
        BY <3>2, <3>4, <4>1 DEF Replies
      <4>4. QED
        BY <1>3, <1>4, <1>5, <2>1, <4>2, <4>3
    <3>5. CASE Replies(c, NoAnswer, "Success")
      BY <1>3, <1>4, <1>5, <2>1, <3>5
    <3>6. ASSUME NEW hr \in PlainError, NEW cause \in {"Mismatch", "Short", "NotConverted"},
                 Fails(c, hr, cause)
          PROVE  Ends(c)
      <4>1. Told(request[c], Error(hr), cause)
        BY <1>2, ErrorsTold DEF PlainCause
      <4>2. cause \in Cause
        BY <1>4
      <4>3. QED
        BY <1>1, <2>1, <3>6, <4>1, <4>2, FailEnds
    <3>7. \/ Replies(c, [NoAnswer EXCEPT !.cipher = AesKey(c, signing[c])], "Success")
          \/ Replies(c, NoAnswer, "Success")
          \/ Fails(c, "other", "Mismatch")
          \/ Fails(c, "error_decrypt", "Short")
          \/ Fails(c, "error_converting_string", "NotConverted")
      BY <1>1, <2>1, <2>2, <2>4, <3>1, CipherOutcome
    <3>8. QED
      BY <1>3, <2>1, <3>4, <3>5, <3>6, <3>7 DEF PlainError
  <2>5. QED
    BY <2>3, <2>4
<1>7. CASE RequestCreate(c)
  <2>1. hooks' = hooks \ {c}
    BY <1>7 DEF RequestCreate, Unhooks
  <2>2. CASE /\ \E k \in Keys \ Promise!KeysInUse :
                   creds' = [creds EXCEPT ![request[c].tag] = k]
             /\ Replies(c, NoAnswer, "Success")
    BY <1>3, <1>4, <1>5, <2>1, <2>2
  <2>3. ASSUME NEW status \in Refusals \cup {"CredentialAlreadyExists"},
               Fails(c, CheckKeyCredentialStatus(status), status), UNCHANGED creds
        PROVE  Ends(c) /\ creds' \in [Tags -> Keys \cup {NoKey}]
    <3>1. status \in KeyCredentialStatus \ {"Success"} /\ status \in Cause
      BY HelloAssumption, Statuses DEF KeyCredentialStatus, CredentialError
    <3>2. Told(request[c], Error(CheckKeyCredentialStatus(status)), status)
      BY <1>2, <3>1, ErrorsTold
    <3>3. QED
      BY <1>1, <1>3, <2>1, <2>3, <3>1, <3>2, FailEnds
  <2>4. QED
    BY <1>7, <2>1, <2>2, <2>3 DEF RequestCreate
<1>8. CASE Delete(c)
  <2>1. creds' \in [Tags -> Keys \cup {NoKey}]
    BY <1>3, <1>8 DEF Delete
  <2>2. CASE Key(c) = NoKey
    <3>1. hooks' = hooks /\ Replies(c, NoAnswer, "NoKey")
      BY <1>8, <2>2 DEF Delete, LosesHook
    <3>2. QED
      BY <1>4, <1>5, <2>1, <3>1
  <2>3. CASE Key(c) # NoKey
    <3>1. hooks' = hooks \ {c} /\ Replies(c, NoAnswer, "Success")
      BY <1>8, <2>3 DEF Delete, Unhooks
    <3>2. QED
      BY <1>4, <1>5, <2>1, <3>1
  <2>4. QED
    BY <2>2, <2>3
<1>9. CASE PromptThrows(c)
  <2>1. Fails(c, "other", "Threw") /\ UNCHANGED <<creds, hooks>>
    BY <1>9 DEF PromptThrows, LosesHook
  <2>2. Told(request[c], Error("other"), "Threw")
    BY <1>2, ErrorsTold DEF PlainError, PlainCause
  <2>3. QED
    BY <1>1, <1>3, <1>4, <2>1, <2>2, FailEnds
<1>10. QED
  BY <1>6, <1>7, <1>8, <1>9 DEF Prompted

\* What becomes of a call in any step of it.
LEMMA CallOutcome ==
    ASSUME Control, HooksFit, SigningFits, NEW c \in Callers, CallStep(c)
    PROVE  /\ Ends(c) \/ GoesOn(c)
           /\ creds' \in [Tags -> Keys \cup {NoKey}]
           /\ \A x \in hooks' : x \in hooks \/ x = c
<1>1. creds \in [Tags -> Keys \cup {NoKey}]
  BY DEF Control, StoreTypes
<1>2. QED
  BY <1>1, HandleOutcome, AskOutcome, PromptOutcome DEF CallStep

-----------------------------------------------------------------------------
(* Types *)

Sound == Types /\ StagesFit /\ LinesFit /\ ConfigFits

\* Each line keeps its calls while the stage of a call outside of it changes.
LEMMA OthersKeepStage ==
    ASSUME NEW q \in Seq(Callers), NEW s, Line(q, s), FrameTypes,
           NEW c \in Callers, NEW t, stage[c] # s, stage' = [stage EXCEPT ![c] = t]
    PROVE  /\ \A i \in 1..Len(q) : q[i] \in Callers /\ q[i] # c
           /\ \A i \in 1..Len(q) : stage'[q[i]] = s
           /\ \A i, j \in 1..Len(q) : q[i] = q[j] => i = j
<1>1. \A i \in 1..Len(q) : q[i] \in Callers /\ q[i] # c
  BY DEF Line
<1>2. stage \in [Callers -> Stage]
  BY DEF FrameTypes
<1>3. QED
  BY <1>1, <1>2 DEF Line

\* A call joins the end of a line, or leaves the head of it.
LEMMA LineJoined ==
    ASSUME NEW q \in Seq(Callers), NEW s, Line(q, s), FrameTypes,
           NEW c \in Callers, stage[c] # s, stage' = [stage EXCEPT ![c] = s]
    PROVE  /\ \A i \in 1..Len(Append(q, c)) : stage'[Append(q, c)[i]] = s
           /\ \A i, j \in 1..Len(Append(q, c)) : Append(q, c)[i] = Append(q, c)[j] => i = j
           /\ Append(q, c) \in Seq(Callers)
<1>1. /\ \A i \in 1..Len(q) : q[i] \in Callers /\ q[i] # c /\ stage[q[i]] = s
      /\ \A i, j \in 1..Len(q) : q[i] = q[j] => i = j
  BY DEF Line
<1>2. stage'[c] = s /\ \A x \in Callers : x # c => stage'[x] = stage[x]
  BY DEF FrameTypes
<1>3. /\ Append(q, c) \in Seq(Callers) /\ Len(q) \in Nat
      /\ Len(Append(q, c)) = Len(q) + 1 /\ Append(q, c)[Len(q) + 1] = c
      /\ \A i \in 1..Len(q) : Append(q, c)[i] = q[i]
      /\ \A i, j \in 1..Len(Append(q, c)) : Append(q, c)[i] = Append(q, c)[j] => i = j
  BY <1>1, Joins
<1>4. ASSUME NEW i \in 1..Len(Append(q, c)) PROVE stage'[Append(q, c)[i]] = s
  <2>1. CASE i = Len(q) + 1
    BY <1>2, <1>3, <2>1
  <2>2. CASE i \in 1..Len(q)
    BY <1>1, <1>2, <1>3, <2>2
  <2>3. QED
    BY <1>3, <2>1, <2>2
<1>5. QED
  BY <1>3, <1>4

LEMMA LineLeft ==
    ASSUME NEW q \in Seq(Callers), NEW s, Line(q, s), FrameTypes, q # <<>>,
           NEW c \in Callers, Head(q) = c, NEW t, stage' = [stage EXCEPT ![c] = t]
    PROVE  /\ stage[c] = s
           /\ \A i \in 1..Len(Tail(q)) : stage'[Tail(q)[i]] = s
           /\ \A i, j \in 1..Len(Tail(q)) : Tail(q)[i] = Tail(q)[j] => i = j
           /\ Tail(q) \in Seq(Callers)
<1>1. /\ Head(q) = q[1] /\ Len(q) \in Nat \ {0}
      /\ Tail(q) \in Seq(Callers)
      /\ \A i \in 1..Len(Tail(q)) : /\ Tail(q)[i] = q[i + 1]
                                    /\ i + 1 \in 1..Len(q)
                                    /\ Tail(q)[i] # Head(q)
      /\ \A i, j \in 1..Len(Tail(q)) : Tail(q)[i] = Tail(q)[j] => i = j
  BY Leaves DEF Line
<1>2. stage[c] = s
  BY <1>1 DEF Line
<1>3. \A x \in Callers : x # c => stage'[x] = stage[x]
  BY DEF FrameTypes
<1>4. ASSUME NEW i \in 1..Len(Tail(q)) PROVE stage'[Tail(q)[i]] = s
  <2>1. q[i + 1] \in Callers /\ q[i + 1] # c /\ stage[q[i + 1]] = s
    BY <1>1 DEF Line
  <2>2. QED
    BY <1>1, <1>3, <2>1
<1>5. QED
  BY <1>1, <1>2, <1>4

LEMMA SendSound ==
    ASSUME Sound, NEW c \in Callers, Send(c) PROVE Sound'
<1>1. PICK r \in Requests[c] :
        /\ stage[c] = "idle" /\ inbox' = Append(inbox, c)
        /\ flag' = (flag /\ r.op # "configure")
        /\ stage' = [stage EXCEPT ![c] = "sent"]
        /\ request' = [request EXCEPT ![c] = r]
        /\ intended' = Promise!Configured(r, intended)
        /\ expects' = [expects EXCEPT ![c] = intended]
        /\ overlapped' = Overlaps(r)
        /\ UNCHANGED <<outbox, storage, creds, signing, answer, hooks, said>>
  BY DEF Send
<1>2. r \in Promise!Request /\ r # NoRequest
  <2>1. r \in Promise!Request
    BY HelloConstants DEF Promise!KeyStoreAssumption
  <2>2. QED
    BY <2>1 DEF Promise!Request, NoRequest, Promise!NoRequest
<1>3. Types /\ StagesFit /\ LinesFit /\ ConfigFits
  BY DEF Sound
<1>4. FrameTypes /\ HooksFit /\ SigningFits /\ StoreTypes /\ Flags
  BY <1>3 DEF Types
<1>5. Line(inbox, "sent") /\ Line(outbox, "replied") /\ outbox \in Seq(Callers)
      /\ inbox \in Seq(Callers)
  BY <1>3, <1>4 DEF LinesFit, StoreTypes
<1>6. FrameTypes'
  <2>1. \A x \in Callers : request'[x] \in Requests[x] \cup {NoRequest}
    BY <1>1, <1>4 DEF FrameTypes
  <2>2. QED
    BY <1>1, <1>4, <2>1 DEF FrameTypes, StoreTypes, Stage
<1>7. \A x \in Callers : x # c => stage'[x] = stage[x] /\ request'[x] = request[x]
                                  /\ expects'[x] = expects[x]
  BY <1>1, <1>4 DEF FrameTypes
<1>8. stage'[c] = "sent" /\ request'[c] = r /\ request[c] = NoRequest
  BY <1>1, <1>3, <1>4 DEF FrameTypes, StagesFit
<1>9. SigningFits' /\ HooksFit'
  <2>1. SigningFits'
    BY <1>1, <1>4, <1>7, <1>8 DEF SigningFits, InWindows
  <2>2. HooksFit'
    BY <1>1, <1>4, <1>7 DEF HooksFit
  <2>3. QED
    BY <2>1, <2>2
<1>10. StoreTypes'
  <2>1. intended' \in Data \cup {Empty}
    BY <1>1, <1>2, <1>4 DEF StoreTypes, Promise!Configured, Promise!Request
  <2>2. inbox' \in Seq(Callers)
    BY <1>1, <1>5
  <2>3. QED
    BY <1>1, <1>4, <2>1, <2>2 DEF StoreTypes, storage
<1>11. Flags'
  <2>1. overlapped' \in BOOLEAN
    BY <1>1, <1>4 DEF Overlaps, Flags
  <2>2. flag' \in BOOLEAN
    BY <1>1, <1>4 DEF Flags
  <2>3. QED
    BY <1>1, <1>4, <2>1, <2>2 DEF Flags, storage
<1>12. LinesFit'
  <2>1. Line(inbox, "sent")'
    <3>1. stage[c] # "sent" /\ stage' = [stage EXCEPT ![c] = "sent"]
      BY <1>1
    <3>2. /\ \A i \in 1..Len(Append(inbox, c)) : stage'[Append(inbox, c)[i]] = "sent"
          /\ \A i, j \in 1..Len(Append(inbox, c)) :
                Append(inbox, c)[i] = Append(inbox, c)[j] => i = j
      BY <1>4, <1>5, <3>1, LineJoined
    <3>3. inbox' = Append(inbox, c)
      BY <1>1
    <3>4. QED
      BY <3>2, <3>3 DEF Line
  <2>2. Line(outbox, "replied")'
    BY <1>1, <1>4, <1>5, OthersKeepStage DEF Line
  <2>3. QED
    BY <2>1, <2>2 DEF LinesFit
<1>13. StagesFit'
  BY <1>1, <1>2, <1>3, <1>7, <1>8 DEF StagesFit
<1>14. ConfigFits'
  BY <1>1, <1>3 DEF ConfigFits, storage
<1>15. QED
  BY <1>6, <1>9, <1>10, <1>11, <1>12, <1>13, <1>14 DEF Sound, Types

LEMMA ReceiveSound ==
    ASSUME Sound, NEW c \in Callers, Receive(c) PROVE Sound' /\ stage[c] = "replied"
<1>1. /\ outbox # <<>> /\ Head(outbox) = c /\ outbox' = Tail(outbox)
      /\ flag' = (flag \/ (request[c].op = "configure" /\ answer[c].code = "none"))
      /\ stage' = [stage EXCEPT ![c] = "idle"]
      /\ request' = [request EXCEPT ![c] = NoRequest]
      /\ signing' = [signing EXCEPT ![c] = Empty]
      /\ answer' = [answer EXCEPT ![c] = NoAnswer]
      /\ expects' = [expects EXCEPT ![c] = Empty]
      /\ said' = [said EXCEPT ![c] = "Nothing"]
      /\ hooks' = hooks \ {c}
      /\ UNCHANGED <<inbox, storage, creds, intended, overlapped>>
  BY DEF Receive
<1>2. Types /\ StagesFit /\ LinesFit /\ ConfigFits
  BY DEF Sound
<1>3. FrameTypes /\ HooksFit /\ SigningFits /\ StoreTypes /\ Flags
  BY <1>2 DEF Types
<1>4. Line(inbox, "sent") /\ Line(outbox, "replied") /\ outbox \in Seq(Callers)
      /\ inbox \in Seq(Callers)
  BY <1>2, <1>3 DEF LinesFit, StoreTypes
<1>5. stage[c] = "replied"
  BY <1>1, <1>3, <1>4, LineLeft
<1>6. FrameTypes'
  <2>1. \A x \in Callers : request'[x] \in Requests[x] \cup {NoRequest}
    BY <1>1, <1>3 DEF FrameTypes
  <2>2. NoAnswer \in Reply /\ "Nothing" \in Cause
    BY ReplyTypes DEF Cause
  <2>3. QED
    BY <1>1, <1>3, <2>1, <2>2 DEF FrameTypes, Stage
<1>7. \A x \in Callers : x # c => stage'[x] = stage[x] /\ request'[x] = request[x]
                                  /\ expects'[x] = expects[x] /\ answer'[x] = answer[x]
                                  /\ signing'[x] = signing[x]
  BY <1>1, <1>3 DEF FrameTypes
<1>8. stage'[c] = "idle" /\ request'[c] = NoRequest /\ expects'[c] = Empty
      /\ answer'[c] = NoAnswer
  BY <1>1, <1>3 DEF FrameTypes
<1>9. SigningFits' /\ HooksFit'
  <2>1. SigningFits'
    BY <1>3, <1>7, <1>8 DEF SigningFits, InWindows
  <2>2. HooksFit'
    BY <1>1, <1>3, <1>7 DEF HooksFit
  <2>3. QED
    BY <2>1, <2>2
<1>10. LinesFit' /\ outbox' \in Seq(Callers)
  <2>1. Line(inbox, "sent")'
    BY <1>1, <1>3, <1>4, <1>5, OthersKeepStage DEF Line
  <2>2. Line(outbox, "replied")' /\ outbox' \in Seq(Callers)
    BY <1>1, <1>3, <1>4, LineLeft DEF Line
  <2>3. QED
    BY <2>1, <2>2 DEF LinesFit
<1>11. StoreTypes'
  BY <1>1, <1>3, <1>10 DEF StoreTypes, storage
<1>12. Flags'
  <2>1. flag' \in BOOLEAN
    BY <1>1, <1>3 DEF Flags
  <2>2. QED
    BY <1>1, <1>3, <2>1 DEF Flags, storage
<1>13. StagesFit'
  BY <1>2, <1>7, <1>8 DEF StagesFit
<1>14. ConfigFits'
  BY <1>1, <1>2 DEF ConfigFits, storage
<1>15. QED
  BY <1>5, <1>6, <1>9, <1>10, <1>11, <1>12, <1>13, <1>14 DEF Sound, Types

\* What configure does with each kind of data.
LEMMA ConfigureOutcome ==
    ASSUME Control, NEW c \in Callers, Configure(c)
    PROVE  \/ /\ request[c].data = Absent /\ UNCHANGED storage
              /\ Fails(c, "error_invalid_argument", "BadConfig")
           \/ /\ request[c].data = Empty /\ isConfigured' = FALSE /\ configData' = configData
              /\ Fails(c, "error_configure", "BadConfig")
           \/ /\ request[c].data \in Data /\ isConfigured' = TRUE
              /\ configData' = request[c].data
              /\ Replies(c, NoAnswer, "Success")
<1>1. request[c].data \in Data \cup {Empty, Absent}
  <2>1. request[c].op = "configure"
    BY DEF Configure, Handles
  <2>2. QED
    BY <2>1, RequestFields DEF Control
<1>2. Parses("configure", Given(request[c])) <=> request[c].data # Absent
  BY DEF Parses, Arguments, Given
<1>3. Empty # Absent /\ Empty \notin Data
  BY HelloConstants DEF Promise!KeyStoreAssumption
<1>4. QED
  BY <1>1, <1>2, <1>3 DEF Configure, storage

\* What a call does to the configuration and the history of it.
LEMMA StorageSteps ==
    ASSUME Sound, NEW c \in Callers, CallStep(c)
    PROVE  /\ ConfigFits'
           /\ configData' \in Data \cup {Empty}
           /\ isConfigured' \in BOOLEAN
<1>1. /\ Control /\ ConfigFits /\ configData \in Data \cup {Empty}
      /\ Empty \notin Data
  BY HelloConstants DEF Sound, Types, Control, StoreTypes, Promise!KeyStoreAssumption
<1>2. isConfigured \in BOOLEAN
  BY DEF Sound, Types, Flags
<1>3. CASE ~Configures(c)
  <2>1. configData' = configData /\ isConfigured' = isConfigured
    BY <1>1, <1>3, CallBegins DEF storage
  <2>2. ConfigFits' /\ configData' \in Data \cup {Empty}
    BY <1>1, <2>1 DEF ConfigFits
  <2>3. isConfigured' \in BOOLEAN
    BY <1>2, <2>1
  <2>4. QED
    BY <2>2, <2>3
<1>4. CASE Configures(c)
  <2>1. \/ configData' = configData /\ isConfigured' = isConfigured
        \/ isConfigured' = FALSE /\ configData' = configData
        \/ request[c].data \in Data /\ isConfigured' = TRUE /\ configData' = request[c].data
    BY <1>1, <1>4, CallBegins, ConfigureOutcome DEF storage
  <2>2. ConfigFits'
    BY <1>1, <2>1 DEF ConfigFits
  <2>3. configData' \in Data \cup {Empty}
    BY <1>1, <2>1
  <2>4. isConfigured' \in BOOLEAN
    BY <1>2, <2>1
  <2>5. QED
    BY <2>2, <2>3, <2>4
<1>5. QED
  BY <1>3, <1>4

LEMMA CallSound ==
    ASSUME Sound, NEW c \in Callers, CallStep(c) PROVE Sound'
<1>1. Types /\ StagesFit /\ LinesFit /\ ConfigFits
  BY DEF Sound
<1>2. FrameTypes /\ HooksFit /\ SigningFits /\ StoreTypes /\ Flags /\ Control
  BY <1>1 DEF Types, Control
<1>3. Line(inbox, "sent") /\ Line(outbox, "replied") /\ outbox \in Seq(Callers)
      /\ inbox \in Seq(Callers)
  BY <1>1, <1>2 DEF LinesFit, StoreTypes
<1>4. /\ Taken(c) \/ Continued(c)
      /\ request[c] # NoRequest
      /\ UNCHANGED <<flag, request, intended, expects, overlapped>>
  BY <1>2, CallBegins
<1>5. /\ Ends(c) \/ GoesOn(c)
      /\ creds' \in [Tags -> Keys \cup {NoKey}]
      /\ \A x \in hooks' : x \in hooks \/ x = c
  BY <1>2, CallOutcome
<1>6. /\ ConfigFits'
      /\ configData' \in Data \cup {Empty}
      /\ isConfigured' \in BOOLEAN
  BY StorageSteps
<1>7. stage[c] \notin {"replied", "idle"} /\ (stage[c] # "sent" => Continued(c))
  BY <1>4 DEF Taken, Continued, InWindows
<1>8. Flags'
  BY <1>2, <1>4, <1>6 DEF Flags
<1>9. ASSUME NEW s \in InWindows \cup {"replied"}, stage' = [stage EXCEPT ![c] = s]
      PROVE  Line(inbox, "sent")' /\ inbox' \in Seq(Callers)
  <2>1. CASE Taken(c)
    BY <1>2, <1>3, <1>9, <2>1, LineLeft DEF Taken, Line
  <2>2. CASE Continued(c)
    <3>1. stage[c] # "sent" /\ inbox' = inbox
      BY <2>2 DEF Continued, InWindows
    <3>2. \A i \in 1..Len(inbox) : stage'[inbox[i]] = "sent"
      BY <1>2, <1>3, <1>9, <3>1, OthersKeepStage
    <3>3. QED
      BY <1>3, <3>1, <3>2 DEF Line
  <2>3. QED
    BY <1>4, <2>1, <2>2
<1>10. CASE Ends(c)
  <2>1. PICK a \in Reply, cause \in Cause : EndsWith(c, a, cause)
    BY <1>10 DEF Ends
  <2>2. /\ stage' = [stage EXCEPT ![c] = "replied"]
        /\ answer' = [answer EXCEPT ![c] = a]
        /\ outbox' = Append(outbox, c)
        /\ said' = [said EXCEPT ![c] = cause]
        /\ UNCHANGED <<flag, request, signing, intended, expects, overlapped>>
    BY <2>1 DEF EndsWith, Replies
  <2>3. FrameTypes'
    BY <1>2, <2>2 DEF FrameTypes, Stage
  <2>4. \A x \in Callers : x # c => stage'[x] = stage[x] /\ answer'[x] = answer[x]
    BY <1>2, <2>2 DEF FrameTypes
  <2>5. stage'[c] = "replied"
    BY <1>2, <2>2 DEF FrameTypes
  <2>6. SigningFits'
    BY <1>2, <2>2, <2>4, <2>5 DEF SigningFits, InWindows
  <2>7. HooksFit'
    BY <1>2, <1>5, <2>4, <2>5 DEF HooksFit
  <2>8. Line(outbox, "replied")' /\ outbox' \in Seq(Callers)
    <3>1. stage[c] # "replied"
      BY <1>7
    <3>2. /\ \A i \in 1..Len(Append(outbox, c)) : stage'[Append(outbox, c)[i]] = "replied"
          /\ \A i, j \in 1..Len(Append(outbox, c)) :
                Append(outbox, c)[i] = Append(outbox, c)[j] => i = j
          /\ Append(outbox, c) \in Seq(Callers)
      BY <1>2, <1>3, <2>2, <3>1, LineJoined
    <3>3. outbox' = Append(outbox, c)
      BY <2>2
    <3>4. QED
      BY <3>2, <3>3 DEF Line
  <2>9. LinesFit' /\ inbox' \in Seq(Callers)
    BY <1>9, <2>2, <2>8 DEF LinesFit
  <2>10. StoreTypes'
    BY <1>2, <1>5, <1>6, <2>2, <2>8, <2>9 DEF StoreTypes
  <2>11. StagesFit'
    BY <1>1, <1>4, <2>2, <2>4, <2>5 DEF StagesFit
  <2>12. QED
    BY <1>6, <1>8, <2>3, <2>6, <2>7, <2>9, <2>10, <2>11 DEF Sound, Types
<1>11. CASE GoesOn(c)
  <2>1. PICK s \in InWindows :
          /\ Awaits(c, s) /\ Suits(s, request[c].op)
          /\ c \in hooks' => s = "prompt"
          /\ \/ signing' = signing /\ (Continued(c) \/ request[c].op \notin CipherOp)
             \/ Taken(c) /\ isConfigured /\ signing' = [signing EXCEPT ![c] = configData]
    BY <1>11 DEF GoesOn
  <2>2. /\ stage' = [stage EXCEPT ![c] = s]
        /\ UNCHANGED <<flag, outbox, request, answer, intended, expects, said, overlapped>>
    BY <2>1 DEF Awaits
  <2>3. signing' \in [Callers -> Data \cup {Empty}]
    BY <1>2, <2>1 DEF FrameTypes, StoreTypes
  <2>4. FrameTypes'
    BY <1>2, <2>2, <2>3 DEF FrameTypes, Stage, InWindows
  <2>5. \A x \in Callers : x # c => stage'[x] = stage[x] /\ signing'[x] = signing[x]
    BY <1>2, <2>1, <2>2 DEF FrameTypes
  <2>6. stage'[c] = s
    BY <1>2, <2>2 DEF FrameTypes
  <2>7. SigningFits'
    <3>1. request[c].op \in CipherOp => signing'[c] # Empty
      <4>1. CASE signing' = signing /\ (Continued(c) \/ request[c].op \notin CipherOp)
        BY <1>2, <4>1 DEF SigningFits, Continued
      <4>2. CASE isConfigured /\ signing' = [signing EXCEPT ![c] = configData]
        BY <1>1, <1>2, <4>2 DEF ConfigFits, FrameTypes
      <4>3. QED
        BY <2>1, <4>1, <4>2
    <3>2. QED
      BY <1>2, <2>2, <2>5, <2>6, <3>1 DEF SigningFits
  <2>8. HooksFit'
    BY <1>2, <1>5, <2>1, <2>5, <2>6 DEF HooksFit
  <2>9. Line(outbox, "replied")'
    BY <1>2, <1>3, <1>7, <2>2, OthersKeepStage DEF Line
  <2>10. LinesFit' /\ inbox' \in Seq(Callers)
    BY <1>9, <2>2, <2>9 DEF LinesFit
  <2>11. StoreTypes'
    BY <1>2, <1>5, <1>6, <2>2, <2>10 DEF StoreTypes
  <2>12. StagesFit'
    <3>1. answer[c] = NoAnswer
      BY <1>1, <1>7 DEF StagesFit
    <3>2. QED
      BY <1>1, <1>4, <2>1, <2>2, <2>5, <2>6, <3>1 DEF StagesFit, Suits, InWindows
  <2>13. QED
    BY <1>6, <1>8, <2>4, <2>7, <2>8, <2>10, <2>11, <2>12 DEF Sound, Types
<1>12. QED
  BY <1>5, <1>10, <1>11

\* The steps of the specification, sorted.
LEMMA StepCases ==
    ASSUME [Next]_vars
    PROVE  \/ \E c \in Callers : Send(c) \/ Receive(c) \/ CallStep(c)
           \/ UNCHANGED vars
BY DEF Next, Step, CallStep

LEMMA SoundInit == Init => Sound
<1> SUFFICES ASSUME Init PROVE Sound
  OBVIOUS
<1>1. FrameTypes
  <2>1. NoAnswer \in Reply /\ "Nothing" \in Cause /\ "idle" \in Stage
    BY ReplyTypes DEF Cause, Stage
  <2>2. QED
    BY <2>1 DEF Init, FrameTypes
<1>2. SigningFits /\ HooksFit /\ StagesFit
  BY DEF Init, SigningFits, HooksFit, StagesFit, InWindows
<1>3. Flags /\ StoreTypes /\ LinesFit /\ ConfigFits
  <2>1. Flags /\ ConfigFits
    BY DEF Init, Flags, ConfigFits
  <2>2. inbox = <<>> /\ outbox = <<>> /\ configData = Empty /\ intended = Empty
        /\ creds = [t \in Tags |-> NoKey]
    BY DEF Init
  <2>3. StoreTypes
    BY <2>2 DEF StoreTypes
  <2>4. LinesFit
    BY <2>2 DEF LinesFit, Line
  <2>5. QED
    BY <2>1, <2>3, <2>4
<1>4. QED
  BY <1>1, <1>2, <1>3 DEF Sound, Types

LEMMA SoundStep == Sound /\ [Next]_vars => Sound'
<1>1. ASSUME Sound, UNCHANGED vars PROVE Sound'
  BY <1>1 DEF Sound, Types, FrameTypes, SigningFits, HooksFit, Flags, StoreTypes, StagesFit,
              LinesFit, Line, ConfigFits, vars, dart, storage, frames, history
<1>2. QED
  BY <1>1, StepCases, SendSound, ReceiveSound, CallSound

\* Spec => []TypeOK: the values of every variable; a call has data to sign while
\* it needs them, and no hook outlives its call unnoticed.
THEOREM HelloTypes == Spec => []TypeOK
<1>1. Sound => TypeOK
  BY TypeParts DEF Sound
<1>2. QED
  BY <1>1, SoundInit, SoundStep, PTL DEF Spec

-----------------------------------------------------------------------------
(* Replies and hooks *)

\* What each reply on its way says of its cause.
Reported ==
    \A c \in Callers : stage[c] = "replied" => Told(request[c], answer[c], said[c])

LEMMA RepliesStep ==
    Sound /\ Reported /\ HooksReleased /\ [Next]_vars => (Reported /\ HooksReleased)'
<1> SUFFICES ASSUME Sound, Reported, HooksReleased, [Next]_vars
             PROVE  (Reported /\ HooksReleased)'
  OBVIOUS
<1>1. FrameTypes /\ HooksFit /\ SigningFits /\ Control
  BY DEF Sound, Types, Control
<1>2. ASSUME NEW c \in Callers, Send(c) PROVE (Reported /\ HooksReleased)'
  <2>1. /\ stage' = [stage EXCEPT ![c] = "sent"]
        /\ \A x \in Callers : x # c => request'[x] = request[x]
        /\ UNCHANGED <<answer, hooks, said>>
    BY <1>1, <1>2 DEF Send, FrameTypes
  <2>2. \A x \in Callers : stage'[x] = "replied" => stage[x] = "replied" /\ x # c
    BY <1>1, <2>1 DEF FrameTypes
  <2>3. QED
    BY <1>1, <2>1, <2>2 DEF Reported, HooksReleased, HooksFit
<1>3. ASSUME NEW c \in Callers, Receive(c) PROVE (Reported /\ HooksReleased)'
  <2>1. /\ stage' = [stage EXCEPT ![c] = "idle"]
        /\ hooks' = hooks \ {c}
        /\ \A x \in Callers : x # c => request'[x] = request[x] /\ answer'[x] = answer[x]
                                       /\ said'[x] = said[x]
    BY <1>1, <1>3 DEF Receive, FrameTypes
  <2>2. \A x \in Callers : stage'[x] = "replied" => stage[x] = "replied" /\ x # c
    BY <1>1, <2>1 DEF FrameTypes
  <2>3. QED
    BY <1>1, <2>1, <2>2 DEF Reported, HooksReleased, HooksFit
<1>4. ASSUME NEW c \in Callers, CallStep(c) PROVE (Reported /\ HooksReleased)'
  <2>1. /\ Ends(c) \/ GoesOn(c)
        /\ \A x \in hooks' : x \in hooks \/ x = c
        /\ request' = request
    BY <1>1, <1>4, CallBegins, CallOutcome
  <2>2. CASE Ends(c)
    <3>1. PICK a \in Reply, cause \in Cause : EndsWith(c, a, cause)
      BY <2>2 DEF Ends
    <3>2. /\ stage'[c] = "replied" /\ answer'[c] = a /\ said'[c] = cause
          /\ \A x \in Callers : x # c => stage'[x] = stage[x] /\ answer'[x] = answer[x]
                                         /\ said'[x] = said[x]
          /\ Told(request[c], a, cause) /\ (c \in hooks' => cause \in {"Threw", "NoKey"})
      BY <1>1, <3>1 DEF EndsWith, Replies, FrameTypes
    <3>3. Reported'
      BY <2>1, <3>2 DEF Reported
    <3>4. HooksReleased'
      BY <1>1, <2>1, <3>2 DEF HooksReleased, HooksFit
    <3>5. QED
      BY <3>3, <3>4
  <2>3. CASE GoesOn(c)
    <3>1. PICK s \in InWindows : Awaits(c, s)
      BY <2>3 DEF GoesOn
    <3>2. /\ stage'[c] # "replied" /\ UNCHANGED <<answer, said>>
          /\ \A x \in Callers : x # c => stage'[x] = stage[x]
      BY <1>1, <3>1 DEF Awaits, FrameTypes, InWindows
    <3>3. QED
      BY <1>1, <2>1, <3>2 DEF Reported, HooksReleased, HooksFit
  <2>4. QED
    BY <2>1, <2>2, <2>3
<1>5. CASE UNCHANGED vars
  BY <1>5 DEF Reported, HooksReleased, vars, frames, history
<1>6. QED
  BY <1>2, <1>3, <1>4, <1>5, StepCases

LEMMA AlwaysReported == Spec => [](Sound /\ Reported /\ HooksReleased)
<1>1. Init => Reported /\ HooksReleased
  BY DEF Init, Reported, HooksReleased
<1>2. QED
  BY <1>1, SoundInit, SoundStep, RepliesStep, PTL DEF Spec

\* Spec => []HooksReleased: the CBT hook that WindowsHelloRepositoryImpl installs
\* is gone when the call is answered, unless Windows threw under it.
THEOREM HooksAreReleased == Spec => []HooksReleased
BY AlwaysReported, PTL

\* Spec => []ErrorsKeepMeaning: on the whole way from a status of Windows to the
\* exception in Dart, no error takes the meaning of another.
THEOREM ErrorsAreKept == Spec => []ErrorsKeepMeaning
<1>1. Reported => ErrorsKeepMeaning
  BY DEF Reported, Told, ErrorMeans, ErrorsKeepMeaning
<1>2. QED
  BY <1>1, AlwaysReported, PTL

\* Spec => []TpmStatusIsTrue: the parser of the platform type is right about every
\* text of any length.
THEOREM TpmStatusTold == Spec => []TpmStatusIsTrue
<1>1. Reported => TpmStatusIsTrue
  BY DEF Reported, Told, StatusMeans, TpmStatusIsTrue
<1>2. QED
  BY <1>1, AlwaysReported, PTL

-----------------------------------------------------------------------------
(* The flag in Dart *)

Current == LastConfigure /\ FlagAgrees

LEMMA SendCurrent ==
    ASSUME Sound, Current, NEW c \in Callers, Send(c) PROVE Current'
<1>1. PICK r \in Requests[c] :
        /\ stage[c] = "idle"
        /\ flag' = (flag /\ r.op # "configure")
        /\ stage' = [stage EXCEPT ![c] = "sent"]
        /\ request' = [request EXCEPT ![c] = r]
        /\ intended' = Promise!Configured(r, intended)
        /\ overlapped' = Overlaps(r)
        /\ UNCHANGED <<storage, answer>>
  BY DEF Send
<1>2. /\ stage'[c] = "sent" /\ request'[c] = r
      /\ \A x \in Callers : x # c => stage'[x] = stage[x] /\ request'[x] = request[x]
  BY <1>1 DEF Sound, Types, FrameTypes
<1>3. ~Configures(c)
  BY <1>1 DEF Sound, StagesFit, Configures, NoRequest, Promise!NoRequest
<1>4. CASE r.op = "configure"
  <2>1. ~flag' /\ FlagAgrees'
    BY <1>1, <1>4 DEF FlagAgrees
  <2>2. ~overlapped' => \A x \in Callers : ~Configures(x)
    BY <1>1, <1>4 DEF Overlaps, Configures
  <2>3. r.data # Absent => intended' = r.data
    BY <1>1, <1>4 DEF Promise!Configured
  <2>4. LastConfigure'
    BY <1>2, <2>1, <2>2, <2>3 DEF LastConfigure, Configures
  <2>5. QED
    BY <2>1, <2>4 DEF Current
<1>5. CASE r.op # "configure"
  <2>1. intended' = intended /\ UNCHANGED storage
    BY <1>1, <1>5 DEF Promise!Configured
  <2>2. overlapped' = overlapped
    BY <1>1, <1>5 DEF Overlaps
  <2>3. flag' => flag
    BY <1>1
  <2>4. FlagAgrees'
    BY <2>1, <2>2, <2>3 DEF FlagAgrees, Current, storage
  <2>5. LastConfigure'
    BY <1>1, <1>2, <1>3, <1>5, <2>1, <2>2, <2>3
       DEF LastConfigure, Current, Configures, storage
  <2>6. QED
    BY <2>4, <2>5 DEF Current
<1>6. QED
  BY <1>4, <1>5

LEMMA ReceiveCurrent ==
    ASSUME Sound, Current, NEW c \in Callers, Receive(c) PROVE Current'
<1>1. /\ flag' = (flag \/ (request[c].op = "configure" /\ answer[c].code = "none"))
      /\ stage' = [stage EXCEPT ![c] = "idle"]
      /\ request' = [request EXCEPT ![c] = NoRequest]
      /\ answer' = [answer EXCEPT ![c] = NoAnswer]
      /\ UNCHANGED <<storage, intended, overlapped>>
  BY DEF Receive
<1>2. stage[c] = "replied"
  BY ReceiveSound
<1>3. /\ request'[c] = NoRequest
      /\ \A x \in Callers : x # c => /\ stage'[x] = stage[x] /\ request'[x] = request[x]
                                     /\ answer'[x] = answer[x]
  BY <1>1 DEF Sound, Types, FrameTypes
<1>4. NoRequest.op # "configure"
  BY DEF NoRequest, Promise!NoRequest
<1>5. FlagAgrees'
  BY <1>1, <1>2 DEF Current, FlagAgrees, LastConfigure, Configures, storage
<1>6. LastConfigure'
  <2>1. ASSUME ~overlapped, NEW x \in Callers, x # c, Configures(x) PROVE ~flag'
    BY <1>1, <2>1 DEF Current, LastConfigure, Configures
  <2>2. QED
    BY <1>1, <1>3, <1>4, <2>1 DEF Current, LastConfigure, Configures, storage
<1>7. QED
  BY <1>5, <1>6 DEF Current

LEMMA CallCurrent ==
    ASSUME Sound, Current, NEW c \in Callers, CallStep(c) PROVE Current'
<1>1. FrameTypes /\ HooksFit /\ SigningFits /\ Control
  BY DEF Sound, Types, Control
<1>2. /\ ~Configures(c) => UNCHANGED storage
      /\ Configures(c) => Taken(c) /\ Configure(c)
      /\ UNCHANGED <<flag, request, intended, expects, overlapped>>
  BY <1>1, CallBegins
<1>3. \A x \in Callers : x # c => stage'[x] = stage[x] /\ answer'[x] = answer[x]
  <2>1. CASE Ends(c)
    BY <1>1, <2>1 DEF Ends, EndsWith, Replies, FrameTypes
  <2>2. CASE GoesOn(c)
    BY <1>1, <2>2 DEF GoesOn, Awaits, FrameTypes
  <2>3. QED
    BY <1>1, <2>1, <2>2, CallOutcome
<1>4. CASE ~Configures(c)
  BY <1>2, <1>3, <1>4 DEF Current, FlagAgrees, LastConfigure, Configures, storage
<1>5. CASE Configures(c)
  <2>1. ~overlapped => ~flag /\ \A x \in Callers : Configures(x) => x = c
    BY <1>5 DEF Current, LastConfigure
  <2>2. FlagAgrees'
    BY <1>2, <2>1 DEF FlagAgrees
  <2>3. stage'[c] = "replied" /\ answer'[c].code = "none"
           => /\ isConfigured' /\ configData' = request[c].data
              /\ request[c].data # Absent
    <3>1. Absent \notin Data
      BY HelloConstants DEF Promise!KeyStoreAssumption
    <3>2. ASSUME NEW hr, NEW cause, Fails(c, hr, cause) PROVE answer'[c].code # "none"
      BY <1>1, <3>2, ReplyTypes DEF Fails, Replies, FrameTypes
    <3>3. QED
      BY <1>1, <1>2, <1>5, <3>1, <3>2, ConfigureOutcome
  <2>4. LastConfigure'
    BY <1>2, <1>5, <2>1, <2>3 DEF Current, LastConfigure, Configures
  <2>5. QED
    BY <2>2, <2>4 DEF Current
<1>6. QED
  BY <1>4, <1>5

\* Spec => []FlagAgrees: while BiometricCipher takes the plugin for configured, it
\* is, with the data the application asked for last.
THEOREM FlagAlwaysAgrees == Spec => []FlagAgrees
<1>1. Init => Current
  BY DEF Init, Current, LastConfigure, FlagAgrees, Configures, NoRequest, Promise!NoRequest
<1>2. ASSUME Sound, Current, UNCHANGED vars PROVE Current'
  BY <1>2 DEF Current, LastConfigure, FlagAgrees, Configures, vars, dart, storage, frames,
              history
<1>3. Sound /\ Current /\ [Next]_vars => Current'
  BY <1>2, StepCases, SendCurrent, ReceiveCurrent, CallCurrent
<1>4. Current => FlagAgrees
  BY DEF Current
<1>5. QED
  BY <1>1, <1>3, <1>4, SoundInit, SoundStep, PTL DEF Spec

-----------------------------------------------------------------------------
(* The order of the channel *)

Ordered == InOrder /\ SignsExpected

LEMMA SendOrdered ==
    ASSUME Sound, Ordered, NEW c \in Callers, Send(c) PROVE Ordered'
<1>1. PICK r \in Requests[c] :
        /\ stage[c] = "idle" /\ inbox' = Append(inbox, c)
        /\ stage' = [stage EXCEPT ![c] = "sent"]
        /\ request' = [request EXCEPT ![c] = r]
        /\ intended' = Promise!Configured(r, intended)
        /\ expects' = [expects EXCEPT ![c] = intended]
        /\ UNCHANGED <<storage, signing>>
  BY DEF Send
<1>2. /\ stage'[c] = "sent" /\ request'[c] = r /\ expects'[c] = intended
      /\ \A x \in Callers : x # c => /\ stage'[x] = stage[x] /\ request'[x] = request[x]
                                     /\ expects'[x] = expects[x]
  BY <1>1 DEF Sound, Types, FrameTypes
<1>3. /\ inbox \in Seq(Callers) /\ Len(inbox) \in Nat
      /\ \A i \in 1..Len(inbox) : inbox[i] \in Callers /\ inbox[i] # c
  <2>1. inbox \in Seq(Callers)
    BY DEF Sound, Types, StoreTypes
  <2>2. \A i \in 1..Len(inbox) : stage[inbox[i]] = "sent"
    BY DEF Sound, LinesFit, Line
  <2>3. QED
    BY <1>1, <2>1, <2>2
<1>4. /\ Len(inbox') = Len(inbox) + 1 /\ inbox'[Len(inbox) + 1] = c
      /\ \A i \in 1..Len(inbox) : inbox'[i] = inbox[i]
      /\ inbox' # <<>>
  <2>1. Len(inbox') = Len(inbox) + 1 /\ inbox'[Len(inbox) + 1] = c
        /\ \A i \in 1..Len(inbox) : inbox'[i] = inbox[i]
    BY <1>1, <1>3
  <2>2. Len(inbox') # 0
    BY <1>3, <2>1
  <2>3. Len(<<>>) = 0
    OBVIOUS
  <2>4. inbox' # <<>>
    BY <2>2, <2>3, Zenon
  <2>5. QED
    BY <2>1, <2>4
<1> DEFINE Then(x) == Promise!Configured(request'[x], expects'[x])
<1>5. /\ \A x \in Callers : x # c => Then(x) = After(x)
      /\ Then(c) = intended'
      /\ InPlugin' = InPlugin
  <2>1. InPlugin' = InPlugin
    BY <1>1 DEF InPlugin, storage
  <2>2. Then(c) = intended'
    BY <1>1, <1>2 DEF Promise!Configured
  <2>3. QED
    BY <1>2, <2>1, <2>2 DEF After, Promise!Configured
<1>6. ASSUME NEW i \in 1..Len(inbox)
      PROVE  /\ Then(inbox[i]) = Promise!Configured(request[inbox[i]], expects[inbox[i]])
             /\ expects'[inbox[i]] = expects[inbox[i]]
  BY <1>2, <1>3, <1>6
<1> HIDE DEF Then
<1>7. InOrder'
  <2>1. CASE inbox = <<>>
    <3>1. Len(inbox) = 0 /\ intended = InPlugin
      BY <2>1 DEF Ordered, InOrder
    <3>2. Len(inbox') = 1 /\ inbox'[1] = c /\ 1..(Len(inbox') - 1) = {}
      BY <1>4, <3>1
    <3>3. QED
      BY <1>2, <1>4, <1>5, <3>1, <3>2 DEF InOrder, After, Then
  <2>2. CASE inbox # <<>>
    <3>1. Len(inbox) \in Nat \ {0}
      BY <1>3, <2>2
    <3>2. expects'[inbox'[1]] = InPlugin'
      BY <1>2, <1>3, <1>4, <1>5, <2>2, <3>1 DEF Ordered, InOrder
    <3>3. intended' = Then(inbox'[Len(inbox')])
      BY <1>3, <1>4, <1>5
    <3>4. ASSUME NEW i \in 1..(Len(inbox') - 1)
          PROVE  expects'[inbox'[i + 1]] = Then(inbox'[i])
      <4>1. i \in 1..Len(inbox) /\ inbox'[i] = inbox[i]
        BY <1>3, <1>4, <3>4
      <4>2. Then(inbox'[i]) = Promise!Configured(request[inbox[i]], expects[inbox[i]])
        BY <1>6, <4>1
      <4>3. CASE i = Len(inbox)
        <5>1. expects'[inbox'[i + 1]] = intended
          BY <1>2, <1>4, <4>3
        <5>2. intended = Promise!Configured(request[inbox[i]], expects[inbox[i]])
          BY <2>2, <4>3 DEF Ordered, InOrder, After
        <5>3. QED
          BY <4>2, <5>1, <5>2
      <4>4. CASE i # Len(inbox)
        <5>1. i \in 1..(Len(inbox) - 1) /\ i + 1 \in 1..Len(inbox)
          BY <1>3, <4>1, <4>4
        <5>2. expects[inbox[i + 1]] = Promise!Configured(request[inbox[i]], expects[inbox[i]])
          BY <5>1 DEF Ordered, InOrder, After
        <5>3. expects'[inbox'[i + 1]] = expects[inbox[i + 1]]
          BY <1>4, <1>6, <5>1
        <5>4. QED
          BY <4>2, <5>2, <5>3
      <4>5. QED
        BY <4>3, <4>4
    <3>5. QED
      BY <1>4, <3>2, <3>3, <3>4 DEF InOrder, After, Then
  <2>3. QED
    BY <2>1, <2>2
<1>8. SignsExpected'
  BY <1>1, <1>2 DEF Ordered, SignsExpected, InWindows
<1>9. QED
  BY <1>7, <1>8 DEF Ordered

LEMMA ReceiveOrdered ==
    ASSUME Sound, Ordered, NEW c \in Callers, Receive(c) PROVE Ordered'
<1>1. /\ stage' = [stage EXCEPT ![c] = "idle"]
      /\ request' = [request EXCEPT ![c] = NoRequest]
      /\ signing' = [signing EXCEPT ![c] = Empty]
      /\ expects' = [expects EXCEPT ![c] = Empty]
      /\ UNCHANGED <<inbox, storage, intended>>
  BY DEF Receive
<1>2. stage[c] = "replied"
  BY ReceiveSound
<1>3. /\ stage'[c] = "idle"
      /\ \A x \in Callers : x # c => /\ stage'[x] = stage[x] /\ request'[x] = request[x]
                                     /\ expects'[x] = expects[x] /\ signing'[x] = signing[x]
  BY <1>1 DEF Sound, Types, FrameTypes
<1>4. /\ inbox \in Seq(Callers) /\ Len(inbox) \in Nat
      /\ \A i \in 1..Len(inbox) : inbox[i] \in Callers /\ inbox[i] # c
  BY <1>2 DEF Sound, Types, StoreTypes, LinesFit, Line
<1>5. InPlugin' = InPlugin
  BY <1>1 DEF InPlugin, storage
<1> DEFINE Then(x) == Promise!Configured(request'[x], expects'[x])
<1>6. ASSUME NEW i \in 1..Len(inbox)
      PROVE  /\ Then(inbox[i]) = Promise!Configured(request[inbox[i]], expects[inbox[i]])
             /\ expects'[inbox[i]] = expects[inbox[i]]
  BY <1>3, <1>4, <1>6
<1> HIDE DEF Then
<1>7. InOrder'
  <2>1. CASE inbox = <<>>
    <3>1. 1..(Len(inbox) - 1) = {}
      BY <2>1
    <3>2. QED
      BY <1>1, <1>5, <2>1, <3>1 DEF Ordered, InOrder
  <2>2. CASE inbox # <<>>
    <3>1. Len(inbox) \in 1..Len(inbox) /\ 1 \in 1..Len(inbox)
      BY <1>4, <2>2
    <3>2. ASSUME NEW i \in 1..(Len(inbox) - 1)
          PROVE  expects'[inbox[i + 1]] = Then(inbox[i])
      <4>1. i \in 1..Len(inbox) /\ i + 1 \in 1..Len(inbox)
        BY <1>4, <3>2
      <4>2. QED
        BY <1>6, <3>2, <4>1 DEF Ordered, InOrder, After
    <3>3. expects'[inbox[1]] = InPlugin' /\ intended' = Then(inbox[Len(inbox)])
      BY <1>1, <1>5, <1>6, <2>2, <3>1 DEF Ordered, InOrder, After
    <3>4. QED
      BY <1>1, <2>2, <3>2, <3>3 DEF InOrder, After, Then
  <2>3. QED
    BY <2>1, <2>2
<1>8. SignsExpected'
  BY <1>3 DEF Ordered, SignsExpected, InWindows
<1>9. QED
  BY <1>7, <1>8 DEF Ordered

\* The call at the head finds the configuration it was made under, and leaves the
\* one that the next was made under.
LEMMA HeadOrdered ==
    ASSUME Sound, Ordered, NEW c \in Callers, CallStep(c), Taken(c)
    PROVE  expects[c] = InPlugin /\ InPlugin' = After(c)
<1>1. Control /\ expects[c] = InPlugin
  <2>1. Head(inbox) = inbox[1] /\ Control
    BY DEF Sound, Types, Control, StoreTypes, Taken
  <2>2. QED
    BY <2>1 DEF Ordered, InOrder, Taken
<1>2. CASE ~Configures(c)
  <2>1. UNCHANGED storage
    BY <1>1, <1>2, CallBegins
  <2>2. QED
    BY <1>1, <1>2, <2>1 DEF InPlugin, After, Promise!Configured, Configures, storage
<1>3. CASE Configures(c)
  <2>1. Configure(c)
    BY <1>1, <1>3, CallBegins
  <2>2. Absent \notin Data /\ Empty # Absent
    BY HelloConstants DEF Promise!KeyStoreAssumption
  <2>3. After(c) = IF request[c].data = Absent THEN expects[c] ELSE request[c].data
    BY <1>3 DEF After, Promise!Configured, Configures
  <2>4. CASE request[c].data = Absent /\ UNCHANGED storage
    BY <1>1, <2>3, <2>4 DEF InPlugin, storage
  <2>5. CASE request[c].data = Empty /\ isConfigured' = FALSE
    BY <1>1, <2>2, <2>3, <2>5 DEF InPlugin
  <2>6. CASE request[c].data \in Data /\ isConfigured' = TRUE /\ configData' = request[c].data
    BY <1>1, <2>2, <2>3, <2>6 DEF InPlugin
  <2>7. QED
    BY <1>1, <2>1, <2>4, <2>5, <2>6, ConfigureOutcome
<1>4. QED
  BY <1>2, <1>3

LEMMA CallOrdered ==
    ASSUME Sound, Ordered, NEW c \in Callers, CallStep(c) PROVE Ordered'
<1>1. FrameTypes /\ HooksFit /\ SigningFits /\ Control /\ inbox \in Seq(Callers)
  BY DEF Sound, Types, Control, StoreTypes
<1>2. /\ Taken(c) \/ Continued(c)
      /\ ~Configures(c) => UNCHANGED storage
      /\ Configures(c) => Taken(c)
      /\ UNCHANGED <<request, intended, expects>>
  BY <1>1, CallBegins
<1>3. \A x : After(x)' = After(x)
  BY <1>2 DEF After, Promise!Configured
<1>4. InOrder'
  <2>1. CASE Continued(c)
    <3>1. ~Configures(c) /\ inbox' = inbox
      BY <1>1, <1>2, <2>1, CallBegins DEF Continued, Taken, InWindows
    <3>2. InPlugin' = InPlugin
      BY <1>2, <3>1 DEF InPlugin, storage
    <3>3. QED
      BY <1>2, <1>3, <3>1, <3>2 DEF Ordered, InOrder
  <2>2. CASE Taken(c)
    <3>1. inbox # <<>> /\ Head(inbox) = c /\ inbox' = Tail(inbox)
      BY <2>2 DEF Taken
    <3>2. /\ Head(inbox) = inbox[1] /\ Len(inbox) \in Nat \ {0}
          /\ Len(inbox') = Len(inbox) - 1 /\ inbox' \in Seq(Callers)
          /\ \A i \in 1..Len(inbox') : inbox'[i] = inbox[i + 1]
      BY <1>1, <3>1
    <3>3. InPlugin' = After(inbox[1])
      BY <2>2, <3>1, <3>2, HeadOrdered
    <3>4. intended' = After(inbox[Len(inbox)])
      BY <1>2, <3>1 DEF Ordered, InOrder
    <3>5. \A i \in 1..(Len(inbox) - 1) : expects'[inbox[i + 1]] = After(inbox[i])
      BY <1>2 DEF Ordered, InOrder
    <3>6. CASE Len(inbox) = 1
      <4>1. inbox' = <<>> /\ 1..(Len(inbox') - 1) = {}
        BY <3>2, <3>6
      <4>2. QED
        BY <3>3, <3>4, <3>6, <4>1 DEF InOrder
    <3>7. CASE Len(inbox) # 1
      <4>1. /\ Len(inbox') \in 1..Len(inbox') /\ 1 \in 1..Len(inbox')
            /\ 1 \in 1..(Len(inbox) - 1)
        BY <3>2, <3>7
      <4>2. inbox' # <<>>
        BY <3>2, <4>1
      <4>3. expects'[inbox'[1]] = InPlugin'
        BY <3>2, <3>3, <3>5, <4>1
      <4>4. inbox'[Len(inbox')] = inbox[Len(inbox)]
        BY <3>2, <4>1
      <4>5. ASSUME NEW i \in 1..(Len(inbox') - 1)
            PROVE  expects'[inbox'[i + 1]] = After(inbox'[i])
        <5>1. /\ i \in 1..Len(inbox') /\ i + 1 \in 1..Len(inbox')
              /\ i + 1 \in 1..(Len(inbox) - 1)
          BY <3>2, <4>5
        <5>2. QED
          BY <3>2, <3>5, <5>1
      <4>6. QED
        BY <1>3, <3>4, <4>2, <4>3, <4>4, <4>5 DEF InOrder
    <3>8. QED
      BY <3>6, <3>7
  <2>3. QED
    BY <1>2, <2>1, <2>2
<1>5. SignsExpected'
  <2>1. CASE Ends(c)
    <3>1. /\ stage'[c] = "replied" /\ signing' = signing
          /\ \A x \in Callers : x # c => stage'[x] = stage[x]
      BY <1>1, <2>1 DEF Ends, EndsWith, Replies, FrameTypes
    <3>2. QED
      BY <1>2, <3>1 DEF Ordered, SignsExpected, InWindows
  <2>2. CASE GoesOn(c)
    <3>1. PICK s \in InWindows :
            /\ Awaits(c, s)
            /\ \/ signing' = signing /\ (Continued(c) \/ request[c].op \notin CipherOp)
               \/ Taken(c) /\ isConfigured /\ signing' = [signing EXCEPT ![c] = configData]
      BY <2>2 DEF GoesOn
    <3>2. \A x \in Callers : x # c => stage'[x] = stage[x] /\ signing'[x] = signing[x]
      BY <1>1, <3>1 DEF Awaits, FrameTypes
    <3>3. request[c].op \in CipherOp => signing'[c] = expects[c]
      <4>1. CASE signing' = signing /\ (Continued(c) \/ request[c].op \notin CipherOp)
        BY <4>1 DEF Ordered, SignsExpected, Continued
      <4>2. CASE Taken(c) /\ isConfigured /\ signing' = [signing EXCEPT ![c] = configData]
        <5>1. signing'[c] = configData
          BY <1>1, <4>2 DEF FrameTypes
        <5>2. expects[c] = configData
          BY <4>2, HeadOrdered DEF InPlugin
        <5>3. QED
          BY <5>1, <5>2
      <4>3. QED
        BY <3>1, <4>1, <4>2
    <3>4. QED
      BY <1>2, <3>2, <3>3 DEF Ordered, SignsExpected
  <2>3. QED
    BY <1>1, <2>1, <2>2, CallOutcome
<1>6. QED
  BY <1>4, <1>5 DEF Ordered

-----------------------------------------------------------------------------
(* The plugin implements KeyStorePromise *)

\* The call of the promise that the call of a caller stands for.
Called(c) ==
    [request |-> request[c], config |-> expects[c], answer |-> PromisedAnswer(c)]

\* The answer of the promise that a reply stands for.
Answer(a, cause) ==
    [result |-> IF cause = "Mismatch" THEN "mismatch"
                ELSE IF a.code # "none" THEN "failed" ELSE "done",
     cipher |-> a.cipher]

LEMMA PromisedAnswers ==
    ASSUME NEW c \in Callers
    PROVE  /\ stage[c] = "replied" => PromisedAnswer(c) = Answer(answer[c], said[c])
           /\ stage[c] # "replied" /\ answer[c] = NoAnswer
                 => PromisedAnswer(c) = Promise!NoAnswer
BY DEF PromisedAnswer, Answer, NoAnswer, Promise!NoAnswer, Damaged

\* The same for the state after a step.
LEMMA PromisedAnswersNext ==
    ASSUME NEW c \in Callers
    PROVE  /\ stage'[c] = "replied" => PromisedAnswer(c)' = Answer(answer'[c], said'[c])
           /\ stage'[c] # "replied" /\ answer'[c] = NoAnswer
                 => PromisedAnswer(c)' = Promise!NoAnswer
BY DEF PromisedAnswer, Answer, NoAnswer, Promise!NoAnswer, Damaged

\* What the promise knows of a call that has not been answered.
LEMMA Unanswered ==
    ASSUME Sound, NEW c \in Callers, stage[c] # "replied"
    PROVE  /\ Called(c).answer = Promise!NoAnswer
           /\ Called(c).request = request[c]
           /\ Called(c).config = expects[c]
           /\ stage[c] = "idle" => Called(c) = Promise!NoCall
<1>1. answer[c] = NoAnswer /\ (stage[c] = "idle" => request[c] = NoRequest /\ expects[c] = Empty)
  BY DEF Sound, StagesFit
<1>2. PromisedAnswer(c) = Promise!NoAnswer
  BY <1>1, PromisedAnswers
<1>3. NoRequest = Promise!NoRequest
  BY DEF NoRequest
<1>4. QED
  BY <1>1, <1>2, <1>3 DEF Called, Promise!NoCall

\* A step that a call takes to its reply answers it in the promise.
LEMMA ReplyAnswers ==
    ASSUME Sound, NEW c \in Callers, NEW a, NEW cause, Replies(c, a, cause),
           stage[c] # "replied"
    PROVE  Promise!Answers(c, Answer(a, cause))
<1> DEFINE old == [x \in Callers |->
                     [request |-> request[x], config |-> expects[x],
                      answer |-> PromisedAnswer(x)]]
           new == [x \in Callers |->
                     [request |-> request'[x], config |-> expects'[x],
                      answer |-> PromisedAnswer(x)']]
<1>1. /\ UNCHANGED <<request, expects, intended>>
      /\ stage'[c] = "replied" /\ answer'[c] = a /\ said'[c] = cause
      /\ \A x \in Callers : x # c => /\ stage'[x] = stage[x] /\ answer'[x] = answer[x]
                                     /\ said'[x] = said[x]
  BY DEF Replies, Sound, Types, FrameTypes
<1>2. PromisedAnswer(c)' = Answer(a, cause)
  BY <1>1, PromisedAnswersNext
<1>3. ASSUME NEW x \in Callers, x # c PROVE PromisedAnswer(x)' = PromisedAnswer(x)
  BY <1>1, <1>3 DEF PromisedAnswer
<1>4. new = [old EXCEPT ![c].answer = Answer(a, cause)]
  <2> HIDE DEF Answer
  <2>1. new[c] = [old[c] EXCEPT !.answer = Answer(a, cause)]
    BY <1>1, <1>2
  <2>2. \A x \in Callers : x # c => new[x] = old[x]
    BY <1>1, <1>3
  <2>3. new = [x \in Callers |-> new[x]] /\ old = [x \in Callers |-> old[x]]
    OBVIOUS
  <2> HIDE DEF new, old
  <2>4. QED
    BY <2>1, <2>2, <2>3
<1>5. QED
  BY <1>1, <1>4 DEF Promise!Answers

\* A step on the way to Windows changes nothing that the promise speaks of.
LEMMA WaitStutters ==
    ASSUME Sound, NEW c \in Callers, NEW s \in InWindows, Awaits(c, s), creds' = creds,
           stage[c] # "replied"
    PROVE  UNCHANGED Promise!vars
<1>1. /\ UNCHANGED <<request, expects, intended, answer, said>>
      /\ stage'[c] # "replied"
      /\ \A x \in Callers : x # c => stage'[x] = stage[x]
  BY DEF Awaits, Sound, Types, FrameTypes, InWindows
<1>2. ASSUME NEW x \in Callers PROVE PromisedAnswer(x)' = PromisedAnswer(x)
  BY <1>1, <1>2 DEF PromisedAnswer
<1>3. [x \in Callers |-> [request |-> request'[x], config |-> expects'[x],
                          answer |-> PromisedAnswer(x)']]
      = [x \in Callers |-> [request |-> request[x], config |-> expects[x],
                            answer |-> PromisedAnswer(x)]]
  BY <1>1, <1>2
<1>4. QED
  BY <1>1, <1>3 DEF Promise!vars

LEMMA SendMaps ==
    ASSUME Sound, NEW c \in Callers, Send(c) PROVE Promise!Ask(c)
<1>1. PICK r \in Requests[c] :
        /\ stage[c] = "idle"
        /\ stage' = [stage EXCEPT ![c] = "sent"]
        /\ request' = [request EXCEPT ![c] = r]
        /\ intended' = Promise!Configured(r, intended)
        /\ expects' = [expects EXCEPT ![c] = intended]
        /\ UNCHANGED <<creds, answer, said>>
  BY DEF Send
<1> DEFINE old == [x \in Callers |->
                     [request |-> request[x], config |-> expects[x],
                      answer |-> PromisedAnswer(x)]]
           new == [x \in Callers |->
                     [request |-> request'[x], config |-> expects'[x],
                      answer |-> PromisedAnswer(x)']]
           call == [request |-> r, config |-> intended, answer |-> Promise!NoAnswer]
<1>2. /\ stage'[c] = "sent" /\ request'[c] = r /\ expects'[c] = intended
      /\ \A x \in Callers : x # c => /\ stage'[x] = stage[x] /\ request'[x] = request[x]
                                     /\ expects'[x] = expects[x]
  BY <1>1 DEF Sound, Types, FrameTypes
<1>3. answer'[c] = NoAnswer
  BY <1>1 DEF Sound, StagesFit
<1>4. PromisedAnswer(c)' = Promise!NoAnswer
  BY <1>2, <1>3, PromisedAnswersNext
<1>5. ASSUME NEW x \in Callers, x # c PROVE PromisedAnswer(x)' = PromisedAnswer(x)
  BY <1>1, <1>2, <1>5 DEF PromisedAnswer
<1>6. new = [old EXCEPT ![c] = call]
  <2>1. new[c] = call
    BY <1>2, <1>4
  <2>2. \A x \in Callers : x # c => new[x] = old[x]
    BY <1>2, <1>5
  <2>3. new = [x \in Callers |-> new[x]] /\ old = [x \in Callers |-> old[x]]
    OBVIOUS
  <2> HIDE DEF new, old
  <2>4. QED
    BY <2>1, <2>2, <2>3
<1>7. old[c] = Promise!NoCall
  BY <1>1, Unanswered DEF Called
<1>8. QED
  BY <1>1, <1>6, <1>7 DEF Promise!Ask

LEMMA ReceiveMaps ==
    ASSUME Sound, NEW c \in Callers, Receive(c) PROVE Promise!Return(c)
<1>1. /\ stage' = [stage EXCEPT ![c] = "idle"]
      /\ request' = [request EXCEPT ![c] = NoRequest]
      /\ answer' = [answer EXCEPT ![c] = NoAnswer]
      /\ expects' = [expects EXCEPT ![c] = Empty]
      /\ said' = [said EXCEPT ![c] = "Nothing"]
      /\ UNCHANGED <<creds, intended>>
  BY DEF Receive
<1> DEFINE old == [x \in Callers |->
                     [request |-> request[x], config |-> expects[x],
                      answer |-> PromisedAnswer(x)]]
           new == [x \in Callers |->
                     [request |-> request'[x], config |-> expects'[x],
                      answer |-> PromisedAnswer(x)']]
<1>2. stage[c] = "replied"
  BY ReceiveSound
<1>3. /\ stage'[c] = "idle" /\ request'[c] = NoRequest /\ expects'[c] = Empty
      /\ answer'[c] = NoAnswer
      /\ \A x \in Callers : x # c => /\ stage'[x] = stage[x] /\ request'[x] = request[x]
                                     /\ expects'[x] = expects[x] /\ answer'[x] = answer[x]
                                     /\ said'[x] = said[x]
  BY <1>1 DEF Sound, Types, FrameTypes
<1>4. PromisedAnswer(c)' = Promise!NoAnswer
  BY <1>3, PromisedAnswersNext
<1>5. ASSUME NEW x \in Callers, x # c PROVE PromisedAnswer(x)' = PromisedAnswer(x)
  BY <1>3, <1>5 DEF PromisedAnswer
<1>6. NoRequest = Promise!NoRequest
  BY DEF NoRequest
<1>7. new = [old EXCEPT ![c] = Promise!NoCall]
  <2>1. new[c] = Promise!NoCall
    BY <1>3, <1>4, <1>6 DEF Promise!NoCall
  <2>2. \A x \in Callers : x # c => new[x] = old[x]
    BY <1>3, <1>5
  <2>3. new = [x \in Callers |-> new[x]] /\ old = [x \in Callers |-> old[x]]
    OBVIOUS
  <2> HIDE DEF new, old
  <2>4. QED
    BY <2>1, <2>2, <2>3
<1>8. old[c].answer # Promise!NoAnswer
  <2>1. PromisedAnswer(c).result # "none"
    BY <1>2, PromisedAnswers DEF Answer
  <2>2. QED
    BY <2>1 DEF Promise!NoAnswer
<1>9. QED
  BY <1>1, <1>7, <1>8 DEF Promise!Return

\* A call that fails in the plugin fails in the promise, if it is not one about
\* the TPM.
LEMMA FailMaps ==
    ASSUME Sound, NEW c \in Callers, NEW a, NEW cause, Replies(c, a, cause),
           a.code # "none", a.cipher = Damaged, cause # "Mismatch", creds' = creds,
           stage[c] # "replied", request[c] # NoRequest,
           request[c].op # "getTPMStatus"
    PROVE  Promise!Fail(c)
<1>1. Answer(a, cause) = Promise!Failed
  BY DEF Answer, Promise!Failed, Damaged
<1>2. Promise!Answers(c, Promise!Failed)
  BY <1>1, ReplyAnswers
<1>3. Called(c).answer = Promise!NoAnswer /\ Called(c).request = request[c]
  BY Unanswered
<1>4. Called(c) # Promise!NoCall
  BY <1>3 DEF Promise!NoCall, NoRequest
<1>5. QED
  BY <1>2, <1>3, <1>4 DEF Promise!Fail, Called

\* What the promise asks before it lets a call be done.
LEMMA DoneMaps ==
    ASSUME Sound, NEW c \in Callers, NEW a, NEW cause, Replies(c, a, cause),
           a.code = "none", cause # "Mismatch", stage[c] # "replied"
    PROVE  /\ Promise!Answers(c, [result |-> "done", cipher |-> a.cipher])
           /\ \A op : request[c].op = op => Promise!Asks(c, op)
<1>1. Answer(a, cause) = [result |-> "done", cipher |-> a.cipher]
  BY DEF Answer
<1>2. Promise!Answers(c, [result |-> "done", cipher |-> a.cipher])
  BY <1>1, ReplyAnswers
<1>3. Called(c).answer = Promise!NoAnswer /\ Called(c).request = request[c]
  BY Unanswered
<1>4. QED
  BY <1>2, <1>3 DEF Promise!Asks, Called

\* Every step of a call before its prompt is one of the promise, or none.
LEMMA UnpromptedMaps ==
    ASSUME Sound, NEW c \in Callers, CallStep(c), ~Prompted(c)
    PROVE  Promise!Next \/ UNCHANGED Promise!vars
<1>1. FrameTypes /\ HooksFit /\ SigningFits /\ Control
  BY DEF Sound, Types, Control
<1>2. /\ Taken(c) \/ Continued(c)
      /\ Configures(c) => Configure(c)
      /\ request[c] # NoRequest
      /\ request[c].op = "getTPMStatus" => ReportTPMStatus(c)
  BY <1>1, CallBegins
<1>3. stage[c] \notin {"replied", "idle"}
  BY <1>2 DEF Taken, Continued, InWindows
<1>4. stage[c] # "prompt" /\ creds' = creds
  <2>1. stage[c] # "prompt"
    <3>1. CASE Handle(c)
      <4>1. inbox # <<>> /\ Head(inbox) = c /\ inbox' = Tail(inbox)
        BY <3>1 DEF Handle, Configure, ReportTPMStatus, BeginHello, BeginCipher,
                    RefuseCipher, Handles
      <4>2. inbox \in Seq(Callers) /\ Line(inbox, "sent")
        BY <1>1 DEF Control, StoreTypes, LinesFit
      <4>3. QED
        BY <4>1, <4>2 DEF Line
    <3>2. CASE ~Handle(c)
      BY <3>2 DEF CallStep, IsSupported, CheckAvailability, AvailabilityUnlisted, Open,
                  Throws, Resumes
    <3>3. QED
      BY <3>1, <3>2
  <2>2. QED
    BY <1>1, <2>1, HandleOutcome, AskOutcome DEF CallStep
<1>5. CASE GoesOn(c)
  BY <1>3, <1>4, <1>5, WaitStutters DEF GoesOn
<1>6. CASE Ends(c)
  <2>1. PICK a \in Reply, cause \in Cause : EndsWith(c, a, cause)
    BY <1>6 DEF Ends
  <2>2. /\ Replies(c, a, cause) /\ Told(request[c], a, cause)
        /\ a.cipher = Damaged /\ cause # "Mismatch"
        /\ a.code = "none"
              => request[c].op \in {"configure", "getBiometryStatus", "getTPMStatus"}
    BY <1>4, <2>1 DEF EndsWith, Unprompted
  <2>3. CASE a.code # "none"
    <3>1. request[c].op # "getTPMStatus"
      BY <2>2, <2>3 DEF Told, StatusMeans
    <3>2. Promise!Fail(c)
      BY <1>2, <1>3, <1>4, <2>2, <2>3, <3>1, FailMaps
    <3>3. QED
      BY <3>2 DEF Promise!Next
  <2>4. CASE a.code = "none"
    <3>1. /\ Promise!Answers(c, [result |-> "done", cipher |-> a.cipher])
          /\ \A op : request[c].op = op => Promise!Asks(c, op)
      BY <1>3, <2>2, <2>4, DoneMaps
    <3>2. Promise!Answers(c, Promise!Done)
      BY <2>2, <3>1 DEF Promise!Done, Damaged
    <3>3. CASE request[c].op \in {"getBiometryStatus", "getTPMStatus"}
      BY <1>4, <3>1, <3>2, <3>3 DEF Promise!Status, Promise!Next
    <3>4. CASE request[c].op = "configure"
      <4>1. Configure(c)
        BY <1>2, <3>4 DEF Configures
      <4>2. answer'[c] = a
        BY <1>1, <2>2 DEF Replies, FrameTypes
      <4>3. ASSUME NEW hr, NEW why, Fails(c, hr, why) PROVE FALSE
        <5>1. answer'[c] = Error(hr)
          BY <1>1, <4>3 DEF Fails, Replies, FrameTypes
        <5>2. QED
          BY <2>4, <4>2, <5>1, ReplyTypes
      <4>4. request[c].data \in Data
        BY <1>1, <4>1, <4>3, ConfigureOutcome
      <4>5. Called(c).request = request[c]
        BY DEF Called
      <4>6. Promise!Configure(c)
        BY <1>4, <3>1, <3>2, <3>4, <4>4, <4>5 DEF Promise!Configure, Called
      <4>7. QED
        BY <4>6 DEF Promise!Next
    <3>5. QED
      BY <2>2, <2>4, <3>3, <3>4
  <2>5. QED
    BY <2>3, <2>4
<1>7. QED
  BY <1>1, <1>5, <1>6, CallOutcome

LEMMA PromptedMaps ==
    ASSUME Sound, Ordered, NEW c \in Callers, Prompted(c)
    PROVE  Promise!Next
<1>1. FrameTypes /\ HooksFit /\ SigningFits /\ Control
  BY DEF Sound, Types, Control
<1>2. stage[c] = "prompt" /\ request[c].op \in CipherOp \cup KeyOp
  <2>1. stage[c] = "prompt"
    BY DEF Prompted, RequestSign, RequestCreate, Delete, PromptThrows, Resumes
  <2>2. QED
    BY <2>1 DEF Sound, StagesFit
<1>3. request[c] # NoRequest /\ request[c].op # "getTPMStatus" /\ stage[c] # "replied"
  BY <1>2 DEF Sound, StagesFit, CipherOp, KeyOp
<1>4. NoAnswer.code = "none" /\ NoAnswer.cipher = Damaged
  BY DEF NoAnswer
<1>5. ASSUME NEW hr, NEW cause, Fails(c, hr, cause), cause # "Mismatch", creds' = creds
      PROVE  Promise!Next
  <2>1. PICK a : a = Error(hr)
    OBVIOUS
  <2>2. Replies(c, a, cause) /\ a.code # "none" /\ a.cipher = Damaged
    BY <1>5, <2>1, ReplyTypes DEF Fails
  <2>3. Promise!Fail(c)
    BY <1>3, <1>5, <2>2, FailMaps
  <2>4. QED
    BY <2>3 DEF Promise!Next
<1>6. ASSUME NEW cause, Replies(c, NoAnswer, cause), cause # "Mismatch"
      PROVE  /\ Promise!Answers(c, Promise!Done)
             /\ \A op : request[c].op = op => Promise!Asks(c, op)
  BY <1>3, <1>4, <1>6, DoneMaps DEF Promise!Done, Damaged
<1>7. CASE RequestCreate(c)
  <2>1. request[c].op = "generateKey"
    BY <1>7 DEF RequestCreate
  <2>2. CASE /\ Key(c) = NoKey
             /\ \E k \in Keys \ Promise!KeysInUse :
                   creds' = [creds EXCEPT ![request[c].tag] = k]
             /\ Replies(c, NoAnswer, "Success")
    <3>1. Promise!Answers(c, Promise!Done) /\ Promise!Asks(c, "generateKey")
      BY <1>6, <2>1, <2>2
    <3>2. Promise!GenerateKey(c)
      BY <2>2, <3>1 DEF Promise!GenerateKey, Promise!Tag, Key
    <3>3. QED
      BY <3>2 DEF Promise!Next
  <2>3. ASSUME NEW status \in Refusals \cup {"CredentialAlreadyExists"},
               Fails(c, CheckKeyCredentialStatus(status), status), UNCHANGED creds
        PROVE  Promise!Next
    <3>1. status # "Mismatch"
      BY HelloAssumption DEF KeyCredentialStatus, CredentialError
    <3>2. QED
      BY <1>5, <2>3, <3>1
  <2>4. QED
    BY <1>7, <2>2, <2>3 DEF RequestCreate
<1>8. CASE Delete(c)
  <2>1. /\ request[c].op = "deleteKey"
        /\ creds' = [creds EXCEPT ![request[c].tag] = NoKey]
        /\ \E cause \in {"NoKey", "Success"} : Replies(c, NoAnswer, cause)
    BY <1>8 DEF Delete
  <2>2. Promise!Answers(c, Promise!Done) /\ Promise!Asks(c, "deleteKey")
    BY <1>6, <2>1
  <2>3. Promise!DeleteKey(c)
    BY <2>1, <2>2 DEF Promise!DeleteKey, Promise!Tag
  <2>4. QED
    BY <2>3 DEF Promise!Next
<1>9. CASE PromptThrows(c)
  BY <1>5, <1>9 DEF PromptThrows
<1>10. CASE RequestSign(c)
  <2>1. request[c].op \in CipherOp /\ creds' = creds
    BY <1>10 DEF RequestSign, CipherOp
  <2>2. PICK status \in Status(c) :
          IF status = "Success" THEN Ciphers(c, signing[c])
          ELSE Fails(c, CheckKeyCredentialStatus(status), status)
    BY <1>10 DEF RequestSign
  <2>3. CASE status # "Success"
    <3>1. status # "Mismatch"
      BY Statuses
    <3>2. QED
      BY <1>5, <2>1, <2>2, <2>3, <3>1
  <2>4. CASE status = "Success"
    <3>1. Key(c) # NoKey /\ Key(c) = creds[request[c].tag] /\ Ciphers(c, signing[c])
      BY <2>2, <2>4, Statuses DEF Key
    <3>2. signing[c] = expects[c] /\ signing[c] \in Data
      BY <1>1, <1>2, <2>1, SignsWith DEF Ordered, SignsExpected, InWindows
    <3>3. expects[c] # Empty
      BY <3>2, HelloConstants DEF Promise!KeyStoreAssumption
    <3>4. PICK aes : aes = [key |-> creds[request[c].tag], data |-> expects[c]]
      OBVIOUS
    <3>5. AesKey(c, signing[c]) = aes
      BY <3>1, <3>2, <3>4 DEF AesKey
    <3>6. CASE /\ request[c].op = "encrypt"
               /\ Replies(c, [NoAnswer EXCEPT !.cipher = AesKey(c, signing[c])], "Success")
      <4>1. PICK a : a = [NoAnswer EXCEPT !.cipher = aes]
        OBVIOUS
      <4>2. a.code = "none" /\ a.cipher = aes
        BY <4>1 DEF NoAnswer
      <4>3. Replies(c, a, "Success")
        BY <3>5, <3>6, <4>1 DEF Replies
      <4>4. /\ Promise!Answers(c, [result |-> "done", cipher |-> aes])
            /\ Promise!Asks(c, "encrypt")
        BY <1>3, <3>6, <4>2, <4>3, DoneMaps
      <4>5. Promise!Encrypt(c)
        BY <2>1, <3>1, <3>3, <3>4, <4>4
           DEF Promise!Encrypt, Promise!Tag, Promise!Encrypted, Promise!Answers
      <4>6. QED
        BY <4>5 DEF Promise!Next
    <3>7. CASE /\ request[c].op = "decrypt" /\ request[c].cipher = AesKey(c, signing[c])
               /\ Replies(c, NoAnswer, "Success")
      <4>1. Promise!Answers(c, Promise!Done) /\ Promise!Asks(c, "decrypt")
        BY <1>6, <3>7
      <4>2. request[c].cipher = [key |-> creds[request[c].tag], data |-> expects[c]]
        BY <3>4, <3>5, <3>7
      <4>3. Promise!Decrypt(c)
        BY <2>1, <3>1, <3>3, <4>1, <4>2
           DEF Promise!Decrypt, Promise!Tag, Promise!Answers
      <4>4. QED
        BY <4>3 DEF Promise!Next
    <3>8. CASE /\ request[c].op = "decrypt" /\ request[c].cipher # AesKey(c, signing[c])
               /\ Fails(c, "other", "Mismatch")
      <4>1. PICK a : a = Error("other")
        OBVIOUS
      <4>2. Replies(c, a, "Mismatch") /\ a.cipher = Damaged
        BY <3>8, <4>1, ReplyTypes DEF Fails
      <4>3. Answer(a, "Mismatch") = Promise!Mismatch
        BY <4>2 DEF Answer, Promise!Mismatch, Damaged
      <4>4. Promise!Answers(c, Promise!Mismatch)
        BY <1>3, <4>2, <4>3, ReplyAnswers
      <4>5. Promise!Asks(c, "decrypt")
        BY <1>3, <3>8, Unanswered DEF Promise!Asks, Called
      <4>6. request[c].cipher # [key |-> creds[request[c].tag], data |-> expects[c]]
        BY <3>4, <3>5, <3>8
      <4>7. Promise!Decrypt(c)
        BY <2>1, <3>1, <3>3, <4>4, <4>5, <4>6
           DEF Promise!Decrypt, Promise!Tag, Promise!Answers
      <4>8. QED
        BY <4>7 DEF Promise!Next
    <3>9. QED
      BY <1>1, <1>2, <1>5, <2>1, <3>1, <3>6, <3>7, <3>8, CipherOutcome
  <2>5. QED
    BY <2>3, <2>4
<1>11. QED
  BY <1>7, <1>8, <1>9, <1>10 DEF Prompted

\* Spec => KeepsKeyStorePromise: the whole plugin, with its queues, its prompts and
\* its configuration that changes under calls, does what KeyStorePromise says.
THEOREM ImplementsKeyStore == Spec => KeepsKeyStorePromise
<1>1. Init => Promise!Init /\ Ordered
  <2> SUFFICES ASSUME Init PROVE Promise!Init /\ Ordered
    OBVIOUS
  <2>1. \A c \in Callers : Called(c) = Promise!NoCall
    BY SoundInit, Unanswered DEF Init
  <2>2. Promise!Init
    BY <2>1 DEF Init, Promise!Init, Called
  <2>3. Ordered
    <3>1. inbox = <<>> /\ intended = InPlugin
      BY DEF Init, InPlugin
    <3>2. 1..(Len(inbox) - 1) = {}
      BY <3>1
    <3>3. InOrder
      BY <3>1, <3>2 DEF InOrder
    <3>4. SignsExpected
      BY DEF Init, SignsExpected, InWindows
    <3>5. QED
      BY <3>3, <3>4 DEF Ordered
  <2>4. QED
    BY <2>2, <2>3
<1>2. ASSUME Ordered, UNCHANGED vars PROVE Ordered'
  BY <1>2 DEF Ordered, InOrder, SignsExpected, InPlugin, After, vars, dart, storage,
              frames, history
<1>3. Sound /\ Ordered /\ [Next]_vars => Ordered'
  BY <1>2, StepCases, SendOrdered, ReceiveOrdered, CallOrdered
<1>4. Sound /\ Ordered /\ [Next]_vars => [Promise!Next]_(Promise!vars)
  <2> SUFFICES ASSUME Sound, Ordered, [Next]_vars
               PROVE  Promise!Next \/ UNCHANGED Promise!vars
    OBVIOUS
  <2>1. ASSUME NEW c \in Callers, Send(c) PROVE Promise!Next
    BY <2>1, SendMaps DEF Promise!Next
  <2>2. ASSUME NEW c \in Callers, Receive(c) PROVE Promise!Next
    BY <2>2, ReceiveMaps DEF Promise!Next
  <2>3. ASSUME NEW c \in Callers, CallStep(c)
        PROVE  Promise!Next \/ UNCHANGED Promise!vars
    BY <2>3, UnpromptedMaps, PromptedMaps
  <2>4. CASE UNCHANGED vars
    BY <2>4 DEF vars, dart, frames, history, Promise!vars, PromisedAnswer
  <2>5. QED
    BY <2>1, <2>2, <2>3, <2>4, StepCases
<1>5. QED
  BY <1>1, <1>3, <1>4, SoundInit, SoundStep, PTL DEF Spec, KeepsKeyStorePromise, Promise!Spec

=============================================================================
