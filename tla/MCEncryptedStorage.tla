------------------------- MODULE MCEncryptedStorage -------------------------
(* Instances of EncryptedStorage for TLC: small sets of requests, chosen so  *)
(* that every kind of operation, a clash of ids, a wrong credential and a    *)
(* change of salt occur.                                                     *)
EXTENDS EncryptedStorage, TLC

CONSTANTS i1, i2, t1, t2, s1, s2, a1, a2

Pwd(s, a) == [origin |-> "pwd", secret |-> s, salt |-> a]
Bio(s) == [origin |-> "bio", secret |-> s, salt |-> NoSalt]
Text(id, t) == [id |-> id, meta |-> t, value |-> t]

InitBy(f, inputs) == [op |-> "init", cred |-> f, inputs |-> inputs, lockTimeout |-> 1]
Add(f, x) == [op |-> "addEntry", cred |-> f, input |-> x]
Update(f, i, t) == [op |-> "updateEntry", cred |-> f, id |-> i, meta |-> t, value |-> NoText]
Delete(f, i) == [op |-> "deleteEntry", cred |-> f, id |-> i]
ReadMeta(f) == [op |-> "readAllMeta", cred |-> f]
ReadEntry(f, i) == [op |-> "readValue", cred |-> f, id |-> i]
Wrap(f, g) == [op |-> "addOrReplaceWrap", cred |-> f, newCred |-> g]
Unwrap(f, o) == [op |-> "deleteWrap", cred |-> f, origin |-> o]
Plain(op) == [op |-> op]

\* Entries under the right and a wrong credential, a change of password with a
\* new salt, a biometric wrap.
MixedRequests ==
    {InitBy(Pwd(s1, a1), {Text(i1, t1)}), Add(Bio(s1), Text(NoId, t2)),
     Update(Bio(s1), i1, t2), Delete(Pwd(s2, a2), i1), ReadEntry(Bio(s1), i1),
     Wrap(Pwd(s1, a1), Pwd(s2, a2)), Wrap(Pwd(s2, a2), Bio(s1)),
     Unwrap(Pwd(s2, a2), "bio"), Plain("erase")}

\* The requests that reach the properties about one save, for the liveness and
\* the violation runs.
FewRequests ==
    {InitBy(Pwd(s1, a1), {Text(i1, t1)}), Update(Pwd(s1, a1), i1, t2),
     ReadMeta(Pwd(s1, a1)), Plain("erase"), Plain("isInitialized")}

Symmetry == Permutations(Callers)

=============================================================================
