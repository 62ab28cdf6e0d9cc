---------------------------- MODULE MCMFALocker ----------------------------
(* Instances of MFALocker for TLC. *)
EXTENDS MFALocker, TLC

CONSTANTS i1, i2, t1, t2, s1, s2, a1, a2

Pwd(s, a) == [origin |-> "pwd", secret |-> s, salt |-> a]
Bio(s) == [origin |-> "bio", secret |-> s, salt |-> NoSalt]
Text(id, t) == [id |-> id, meta |-> t, value |-> t]

InitLocker == [op |-> "init", cred |-> Pwd(s1, a1), inputs |-> {Text(i1, t1)},
               lockTimeout |-> 1]
Write(f, x) == [op |-> "addEntry", cred |-> f, input |-> x]
Update(f, i, m, v) == [op |-> "updateEntry", cred |-> f, id |-> i, meta |-> m, value |-> v]
Delete(f, i) == [op |-> "deleteEntry", cred |-> f, id |-> i]
LoadAllMeta(f) == [op |-> "readAllMeta", cred |-> f]
ChangePassword(f, g) == [op |-> "addOrReplaceWrap", cred |-> f, newCred |-> g]
EraseStorage == [op |-> "erase"]

\* The operations that act on the cache, while the password changes; a delete
\* with the biometric key of a vault that has no biometric wrap.
LockerRequests ==
    {InitLocker, Write(Pwd(s1, a1), Text(NoId, t2)),
     Update(Pwd(s1, a1), i1, t2, NoText), Delete(Pwd(s1, a1), i1),
     Delete(Bio(s1), i1), LoadAllMeta(Pwd(s2, a2)), ChangePassword(Pwd(s1, a1), Pwd(s2, a2)),
     EraseStorage}

\* The requests that reach what can go wrong with one entry.
FewRequests ==
    {InitLocker, Update(Pwd(s1, a1), i1, t2, NoText), Delete(Pwd(s1, a1), i1),
     LoadAllMeta(Pwd(s1, a1))}

Symmetry == Permutations(Callers)

=============================================================================
