--------------------------- MODULE MCWindowsHello ---------------------------
(* Instances of WindowsHello for TLC. *)
EXTENDS WindowsHello

CONSTANTS c1, k1, d1

\* One caller makes every request, of the decrypts two: the ciphertext of k1 and
\* d1, which fits some keys and configurations and not others, and one too short.
\* The other changes what the first relies on.
Changes ==
    [op : {"configure"}, data : Data \cup {Empty, Absent}]
    \cup [op : {"generateKey", "deleteKey"}, tag : Tags]

Uses ==
    [op : {"encrypt"}, tag : Tags]
    \cup [op : {"decrypt"}, tag : Tags,
          cipher : {[key |-> k1, data |-> d1], [key |-> NoKey, data |-> Absent]}]
    \cup [op : {"getBiometryStatus", "getTPMStatus"}]

MixedRequests == [c \in Callers |-> IF c = c1 THEN Changes \cup Uses ELSE Changes]

\* One type per way to parse, fail to parse or misread the version.
Types ==
    {<<>>, <<"text">>, <<"key">>, <<"key", "two">>, <<"key", "one", "point", "two">>,
     <<"key", "two", "point", "zero", "blank", "text">>,
     <<"text", "key", "blank", "two", "point", "zero">>,
     <<"key", "point", "two">>, <<"key", "text", "two">>, <<"key", "blank", "point">>,
     <<"key", "huge", "point">>, <<"two", "point", "zero">>,
     <<"key", "zero", "point", "two">>, <<"key", "one", "key", "two">>}

=============================================================================
