-------------------------- MODULE WindowsPluginData --------------------------
(***************************************************************************)
(* The parts of the Windows plugin that keep no state: its HRESULTs and    *)
(* what becomes of them on the way to the application, the arguments of a  *)
(* method call, the statuses it reports and the version of the TPM.        *)
(* HRESULTs, statuses and error codes are their names in the source.       *)
(***************************************************************************)
EXTENDS Integers, Sequences

-----------------------------------------------------------------------------
(* Errors *)

\* GetErrorCodeString: HRESULTs of the plugin, and any other.
PluginErrorCode ==
    [error_tpm_unsupported         |-> "TPM_UNSUPPORTED",
     error_tpm_version             |-> "TPM_VERSION_ERROR",
     error_biometry_not_supported  |-> "BIOMETRY_NOT_SUPPORTED",
     error_configure               |-> "CONFIGURE_ERROR",
     error_generate_key            |-> "GENERATE_KEY_ERROR",
     error_key_not_found           |-> "KEY_NOT_FOUND",
     error_key_already_exists      |-> "KEY_ALREADY_EXISTS",
     error_delete_key              |-> "DELETE_KEY_ERROR",
     error_encrypt                 |-> "ENCRYPT_ERROR",
     error_decrypt                 |-> "DECRYPT_ERROR",
     error_authentication_canceled |-> "AUTHENTICATION_USER_CANCELED",
     error_user_prefers_password   |-> "USER_PREFERS_PASSWORD",
     error_secure_device_locked    |-> "SECURE_DEVICE_LOCKED",
     error_converting_string       |-> "CONVERTING_STRING_ERROR"]

GetErrorCodeString(hr) ==
    IF hr \in DOMAIN PluginErrorCode THEN PluginErrorCode[hr] ELSE "UNKNOWN_ERROR"

\* HRESULTs that Windows and C++/WinRT define.  "other" is any that the plugin
\* does not know, such as the one of a GCM tag that does not verify.
WindowsError == {"NTE_NO_KEY", "error_fail", "error_invalid_argument", "other"}

HResult == DOMAIN PluginErrorCode \cup WindowsError

\* BiometricCipherExceptionCode.fromString, for the codes of this plugin.
ExceptionCode ==
    [TPM_UNSUPPORTED              |-> "tpmUnsupported",
     TPM_VERSION_ERROR            |-> "tpmUnsupported",
     BIOMETRY_NOT_SUPPORTED       |-> "biometricNotSupported",
     CONFIGURE_ERROR              |-> "configureError",
     GENERATE_KEY_ERROR           |-> "keyGenerationError",
     KEY_NOT_FOUND                |-> "keyNotFound",
     KEY_ALREADY_EXISTS           |-> "keyAlreadyExists",
     DELETE_KEY_ERROR             |-> "keyDeletionError",
     ENCRYPT_ERROR                |-> "encryptionError",
     DECRYPT_ERROR                |-> "decryptionError",
     AUTHENTICATION_USER_CANCELED |-> "authenticationUserCanceled",
     USER_PREFERS_PASSWORD        |-> "authenticationError",
     SECURE_DEVICE_LOCKED         |-> "authenticationError",
     CONVERTING_STRING_ERROR      |-> "unknown",
     UNKNOWN_ERROR                |-> "unknown"]

\* _mapExceptionToBiometricException, for encrypt and decrypt.
BiometricExceptionType(code) ==
    CASE code \in {"keyNotFound", "keyAlreadyExists"} -> code
      [] code = "authenticationUserCanceled" -> "cancel"
      [] code \in {"biometricNotSupported", "tpmUnsupported"} -> "notAvailable"
      [] code = "configureError" -> "notConfigured"
      [] OTHER -> "failure"

-----------------------------------------------------------------------------
(* Key credentials and the availability of Windows Hello *)

CredentialError ==
    [NotFound                |-> "error_key_not_found",
     UserCanceled            |-> "error_authentication_canceled",
     UnknownError            |-> "error_fail",
     UserPrefersPassword     |-> "error_user_prefers_password",
     CredentialAlreadyExists |-> "error_key_already_exists",
     SecurityDeviceLocked    |-> "error_secure_device_locked"]

\* "Unlisted" is a status that a later Windows may add.
KeyCredentialStatus == {"Success", "Unlisted"} \cup DOMAIN CredentialError

\* Mutant: the case of a cancelled prompt is missing.
CheckKeyCredentialStatus_NoCancel(status) ==
    IF status \in DOMAIN CredentialError \ {"UserCanceled"}
    THEN CredentialError[status] ELSE "error_fail"

\* CheckKeyCredentialStatus throws this for every status but Success.
CheckKeyCredentialStatus(status) ==
    IF status \in DOMAIN CredentialError THEN CredentialError[status] ELSE "error_fail"

BiometryStatus ==
    [kSupported |-> 0, kUnsupported |-> 1, kDeviceNotPresent |-> 2,
     kNotConfiguredForUser |-> 3, kDisabledByPolicy |-> 4, kDeviceBusy |-> 5,
     kAndroidBiometricErrorSecurityUpdateRequired |-> 6]

\* UserConsentVerifierAvailability; an unlisted one is an exception.
AvailabilityStatus ==
    [Available            |-> BiometryStatus.kSupported,
     DeviceNotPresent     |-> BiometryStatus.kDeviceNotPresent,
     NotConfiguredForUser |-> BiometryStatus.kNotConfiguredForUser,
     DisabledByPolicy     |-> BiometryStatus.kDisabledByPolicy,
     DeviceBusy           |-> BiometryStatus.kDeviceBusy]

-----------------------------------------------------------------------------
(* Method calls *)

\* The arguments a method reads, FetchAndValidateArgument for each.
Arguments(method) ==
    CASE method \in {"encrypt", "decrypt"} -> {"tag", "data"}
      [] method \in {"generateKey", "deleteKey"} -> {"tag"}
      [] method = "configure" -> {"windowsDataToSign"}
      [] OTHER -> {}

\* Parse throws error_invalid_argument unless each of them is there, and a string;
\* "given" are the arguments that are.
Parses(method, given) == Arguments(method) \subseteq given

-----------------------------------------------------------------------------
(* The TPM *)

TpmStatus == [kSupported |-> 0, kUnsupported |-> 1, kTPMVersionUnsupported |-> 2]

\* The platform type property is text such as "TPM-Version:2.0 -Level:0", here a
\* sequence of pieces: the key "TPM-Version:", points, blanks, other text and
\* whole numerals, of which "huge" is one that does not fit an int.
Numeral == [zero |-> 0, one |-> 1, two |-> 2]

Piece == {"key", "point", "blank", "text", "huge"} \cup DOMAIN Numeral

\* provider: the platform crypto provider opens; readable: both reads of the
\* property succeed.
Platform(types) == [provider : BOOLEAN, readable : BOOLEAN, type : types]

Places(type, piece, from) == {i \in from..Len(type) : type[i] = piece}

Leftmost(places) == CHOOSE i \in places : \A j \in places : i <= j

\* ParsePlatformType, of a type that has the key: what is between its first
\* occurrence and the next point, or the end.
ParsePlatformType(type) ==
    LET start == Leftmost(Places(type, "key", 1)) + 1
        points == Places(type, "point", start)
    IN  SubSeq(type, start, IF points = {} THEN Len(type) ELSE Leftmost(points) - 1)

\* What std::stoi looks at: what follows the leading blanks.
Unpadded(text) ==
    LET padding == {n \in 0..Len(text) : \A i \in 1..n : text[i] = "blank"}
        longest == CHOOSE n \in padding : \A m \in padding : m <= n
    IN  SubSeq(text, longest + 1, Len(text))

\* GetWindowsTpmVersion throws, or std::stoi converts the leading numeral.
VersionKnown(platform) ==
    /\ platform.provider /\ platform.readable
    /\ Places(platform.type, "key", 1) # {}
    /\ LET text == Unpadded(ParsePlatformType(platform.type))
       IN  text # <<>> /\ text[1] \in DOMAIN Numeral

WindowsTpmVersion(platform) ==
    Numeral[Unpadded(ParsePlatformType(platform.type))[1]]

\* Mutant: the comparison is off by one.
GetTPMStatus_AfterOne(platform) ==
    IF ~platform.provider THEN TpmStatus.kUnsupported
    ELSE IF VersionKnown(platform) /\ WindowsTpmVersion(platform) >= 1
         THEN TpmStatus.kSupported ELSE TpmStatus.kTPMVersionUnsupported

\* GetTPMStatusAsync turns both exceptions of GetWindowsTpmVersion into statuses.
GetTPMStatus(platform) ==
    IF ~platform.provider THEN TpmStatus.kUnsupported
    ELSE IF VersionKnown(platform) /\ WindowsTpmVersion(platform) >= 2
         THEN TpmStatus.kSupported ELSE TpmStatus.kTPMVersionUnsupported

\* What the property means, said without the parser: a numeral follows the first
\* key, with nothing but blanks between them.
HasMajorVersion(type, numeral) ==
    \E k \in 1..Len(type) : \E n \in (k + 1)..Len(type) :
        /\ type[k] = "key" /\ \A i \in 1..(k - 1) : type[i] # "key"
        /\ \A i \in (k + 1)..(n - 1) : type[i] = "blank"
        /\ type[n] = numeral

=============================================================================
