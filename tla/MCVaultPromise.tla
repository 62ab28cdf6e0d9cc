--------------------------- MODULE MCVaultPromise ---------------------------
(* Instances of VaultPromise for TLC. *)
EXTENDS VaultPromise, TLC

Symmetry == Permutations(Keys) \cup Permutations(Ids)

Pwd == {f \in CipherFunc : f.origin = "pwd"}
Inp(ids) == {x \in [id : ids, meta : Texts, value : Texts] : x.meta = x.value}

\* Every operation with every credential; two initial entries that may clash.
MCRequests ==
    [op : {"init"}, cred : Pwd, inputs : {{}} \cup {{x} : x \in Inp({NoId})}
        \cup {{x, y} : x, y \in Inp(Ids)},
     lockTimeout : Durations]
      \cup [op : {"addOrReplaceWrap"}, cred : CipherFunc, newCred : CipherFunc]
      \cup [op : {"deleteWrap"}, cred : CipherFunc, origin : Origin]
      \cup [op : {"addEntry"}, cred : CipherFunc, input : Inp(Ids \cup {NoId})]
      \cup [op : {"updateEntry"}, cred : CipherFunc, id : Ids,
            meta : Texts \cup {NoText}, value : {NoText}]
      \cup [op : {"deleteEntry", "readValue"}, cred : CipherFunc, id : Ids]
      \cup [op : {"readAllMeta"}, cred : CipherFunc]
      \cup [op : {"updateLockTimeout"}, cred : CipherFunc, lockTimeout : Durations]
      \cup [op : {"erase", "isInitialized", "isBiometricEnabled", "salt",
                  "lockTimeout"}]

=============================================================================
