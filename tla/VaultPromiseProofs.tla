------------------------- MODULE VaultPromiseProofs -------------------------
(* What VaultPromise keeps for any number of callers, any requests and any   *)
(* contents: types, coherence of what is sealed, and who may change or read  *)
(* the vault.                                                                *)
EXTENDS VaultPromise, StorageDataProofs

\* A caller that is not idle has asked for something.
Asked == \A c \in Callers : phase[c] # "idle" => request[c] \in Requests

TypeInv == TypeOK /\ Asked

-----------------------------------------------------------------------------
(* The step of one call *)

\* What Perform does to the vault, from the facts of the outcome it picks.
LEMMA PerformFacts ==
    ASSUME TypeInv, NEW c \in Callers, Perform(c)
    PROVE  \E o \in Outcomes(request[c], vault) :
              /\ Pending(c) /\ request[c] \in Requests /\ request[c] \in Request
              /\ Answered(c, o.answer) /\ vault' = o.next
              /\ o.answer \in Answers
              /\ request[c].op \in Saving /\ o.answer.status = "ok"
                    => /\ o.next \in Vault
                       /\ (IsSealed(vault) => Coherent(vault)) => Coherent(o.next)
              /\ ~(request[c].op \in Saving /\ o.answer.status = "ok")
                    => o.next \in {vault, Absent}
<1>1. Pending(c) /\ request[c] \in Requests /\ request[c] \in Request
  BY PromiseAssumption DEF Perform, Served, Pending, TypeInv, Asked
<1>2. vault \in Disk
  BY DEF TypeInv, TypeOK
<1>3. PICK o \in Outcomes(request[c], vault) :
          Answered(c, o.answer) /\ vault' = o.next
  BY DEF Perform
<1>4. QED
  BY <1>1, <1>2, <1>3, OutcomeFacts

\* A call that is answered keeps the types of the calls.
LEMMA AnsweredType ==
    ASSUME TypeInv, NEW c \in Callers, Pending(c), NEW a \in Answers,
           Answered(c, a)
    PROVE  /\ phase' \in [Callers -> {"idle", "pending", "performed"}]
           /\ request' \in [Callers -> Requests \cup {NoRequest}]
           /\ answer' \in [Callers -> Answers]
           /\ Asked'
BY DEF TypeInv, TypeOK, Asked, Answered, Pending

\* What a failing file system answers is an answer.
LEMMA ErrorType ==
    ASSUME NEW r, NEW error \in {"io", "invalidStorage"}
    PROVE  Failure(r, error) \in Answers /\ Failure(r, error).status # "ok"
BY FailureType, FailureNotOk DEF Status

\* NoAnswer is an answer.
LEMMA NoAnswerType == NoAnswer \in Answers
BY DEF NoAnswer, Answer, Answers, Status

-----------------------------------------------------------------------------
(* Types *)

\* The initial state is well-typed.
LEMMA TypeInit == Init => TypeInv
BY NoAnswerType DEF Init, TypeInv, TypeOK, Asked, Disk

\* Every step keeps the types.
LEMMA TypeStep == TypeInv /\ [Next]_vars => TypeInv'
<1> SUFFICES ASSUME TypeInv, [Next]_vars PROVE TypeInv'
  OBVIOUS
<1>1. ASSUME NEW c \in Callers, Invoke(c) PROVE TypeInv'
  BY <1>1 DEF Invoke, Ask, TypeInv, TypeOK, Asked
<1>2. ASSUME NEW c \in Callers, Perform(c) PROVE TypeInv'
  <2>1. PICK o \in Outcomes(request[c], vault) :
            /\ Pending(c) /\ Answered(c, o.answer) /\ vault' = o.next
            /\ o.answer \in Answers
            /\ o.next \in Vault \/ o.next \in {vault, Absent}
    BY <1>2, PerformFacts
  <2>2. vault' \in Disk
    BY <2>1 DEF TypeInv, TypeOK, Disk
  <2>3. QED
    BY <2>1, <2>2, AnsweredType DEF TypeInv, TypeOK
<1>3. ASSUME NEW c \in Callers, Fail(c) PROVE TypeInv'
  BY <1>3, AnsweredType, ErrorType DEF Fail, Served, TypeInv, TypeOK
<1>4. ASSUME NEW c \in Callers, Lose(c) PROVE TypeInv'
  BY <1>4, ErrorType DEF Lose, TypeInv, TypeOK, Asked, Disk
<1>5. ASSUME NEW c \in Callers, Return(c) PROVE TypeInv'
  BY <1>5, NoAnswerType DEF Return, TypeInv, TypeOK, Asked
<1>6. CASE Crash
  BY <1>6, NoAnswerType DEF Crash, TypeInv, TypeOK, Asked, Disk
<1>7. CASE Damage
  BY <1>7, DamagedFacts DEF Damage, TypeInv, TypeOK, Asked
<1>8. ASSUME NEW c \in Callers, Tidy(c) PROVE TypeInv'
  BY <1>8 DEF Tidy, Tidied, TypeInv, TypeOK, Asked, Disk
<1>9. CASE UNCHANGED vars
  BY <1>9 DEF vars, TypeInv, TypeOK, Asked
<1>10. QED
  BY <1>1, <1>2, <1>3, <1>4, <1>5, <1>6, <1>7, <1>8, <1>9 DEF Next

\* Type correctness of the promise.
THEOREM PromiseTypes == Spec => []TypeOK
<1>1. TypeInv => TypeOK
  BY DEF TypeInv
<1>2. QED
  BY <1>1, TypeInit, TypeStep, PTL DEF Spec

-----------------------------------------------------------------------------
(* How a step may change the vault *)

\* A step leaves the vault, takes it away or damages it, or it is a save that a
\* pending caller was granted on it.
LEMMA VaultStep ==
    ASSUME TypeInv, [Next]_vars
    PROVE  \/ vault' = vault
           \/ vault' \in Disk /\ ~IsSealed(vault')
           \/ \E c \in Callers : \E o \in Outcomes(request[c], vault) :
                 /\ Pending(c) /\ ~Pending(c)'
                 /\ request[c] \in Request /\ request[c].op \in Saving
                 /\ o.answer.status = "ok" /\ vault' = o.next
                 /\ (IsSealed(vault) => Coherent(vault)) => Coherent(vault')
<1>0. Absent \in Disk /\ ~IsSealed(Absent)
  BY DEF Disk, IsSealed, Absent
<1>1. ASSUME NEW c \in Callers, Invoke(c) PROVE vault' = vault
  BY <1>1 DEF Invoke, Ask
<1>2. ASSUME NEW c \in Callers, Perform(c)
      PROVE  \/ vault' = vault \/ vault' = Absent
             \/ \E o \in Outcomes(request[c], vault) :
                   /\ Pending(c) /\ ~Pending(c)'
                   /\ request[c] \in Request /\ request[c].op \in Saving
                   /\ o.answer.status = "ok" /\ vault' = o.next
                   /\ (IsSealed(vault) => Coherent(vault)) => Coherent(vault')
  <2>1. PICK o \in Outcomes(request[c], vault) :
            /\ Pending(c) /\ request[c] \in Request
            /\ Answered(c, o.answer) /\ vault' = o.next
            /\ request[c].op \in Saving /\ o.answer.status = "ok"
                  => ((IsSealed(vault) => Coherent(vault)) => Coherent(o.next))
            /\ ~(request[c].op \in Saving /\ o.answer.status = "ok")
                  => o.next \in {vault, Absent}
    BY <1>2, PerformFacts
  <2>2. ~Pending(c)'
    BY <2>1 DEF Answered, Pending, TypeInv, TypeOK
  <2>3. QED
    BY <2>1, <2>2
<1>3. ASSUME NEW c \in Callers, Fail(c) \/ Return(c) PROVE vault' = vault
  BY <1>3 DEF Fail, Return
<1>4. ASSUME NEW c \in Callers, Lose(c) \/ Tidy(c) PROVE vault' = Absent
  BY <1>4 DEF Lose, Tidy, Tidied
<1>5. CASE Crash
  BY <1>0, <1>5 DEF Crash
<1>6. CASE Damage
  BY <1>6, DamagedFacts DEF Damage, TypeInv, TypeOK
<1>7. CASE UNCHANGED vars
  BY <1>7 DEF vars
<1>8. QED
  BY <1>0, <1>1, <1>2, <1>3, <1>4, <1>5, <1>6, <1>7 DEF Next

-----------------------------------------------------------------------------
(* Safety *)

\* Whatever carries a valid HMAC is a whole vault, under every history of
\* calls, failures, crashes and tampering.
THEOREM SealedIsCoherent == Spec => []VaultCoherent
<1>1. Init => VaultCoherent
  BY DEF Init, VaultCoherent, IsSealed, Absent
<1>2. TypeInv /\ VaultCoherent /\ [Next]_vars => VaultCoherent'
  BY VaultStep DEF VaultCoherent
<1>3. QED
  BY <1>1, <1>2, TypeInit, TypeStep, PTL DEF Spec

\* A sealed vault becomes another sealed vault only by the granted request of a
\* caller that holds one of its credentials, and never by init.
THEOREM OnlyHoldersChange == Spec => ChangesAreAuthorised
<1> DEFINE Step ==
      IsSealed(vault) /\ IsSealed(vault') /\ vault' # vault
         => \E c \in Callers :
                /\ Pending(c) /\ ~Pending(c)'
                /\ request[c].op \in Saving \ {"init"}
                /\ MasterKeys(vault, request[c].cred) # {}
<1>1. TypeInv /\ [Next]_vars => [Step]_vars
  <2> SUFFICES ASSUME TypeInv, [Next]_vars,
                      IsSealed(vault), IsSealed(vault'), vault' # vault
               PROVE  \E c \in Callers :
                         /\ Pending(c) /\ ~Pending(c)'
                         /\ request[c].op \in Saving \ {"init"}
                         /\ MasterKeys(vault, request[c].cred) # {}
    OBVIOUS
  <2>1. PICK c \in Callers : \E o \in Outcomes(request[c], vault) :
            /\ Pending(c) /\ ~Pending(c)'
            /\ request[c] \in Request /\ request[c].op \in Saving
            /\ o.answer.status = "ok"
    BY VaultStep
  <2>2. vault \in Disk /\ vault.kind = "data"
    BY DEF TypeInv, TypeOK, IsSealed
  <2>3. QED
    BY <2>1, <2>2, SaveIsAuthorised
<1>2. QED
  BY <1>1, TypeInit, TypeStep, PTL DEF Spec, ChangesAreAuthorised

\* No operation signs contents that the HMAC did not cover when it loaded them.
THEOREM TamperingIsNeverSigned == Spec => TamperingSticks
<1> DEFINE Step == vault.kind = "data" /\ ~IsSealed(vault) => ~IsSealed(vault')
<1>1. TypeInv /\ [Next]_vars => [Step]_vars
  <2> SUFFICES ASSUME TypeInv, [Next]_vars, vault.kind = "data", ~IsSealed(vault)
               PROVE  ~IsSealed(vault')
    OBVIOUS
  <2>1. vault \in Disk
    BY DEF TypeInv, TypeOK
  <2>2. QED
    BY <2>1, VaultStep, SaveIsAuthorised
<1>2. QED
  BY <1>1, TypeInit, TypeStep, PTL DEF Spec, TamperingSticks

\* Data is answered only to a credential whose wrap gives up the key the vault
\* is sealed with.
THEOREM OnlyHoldersRead == Spec => ReadsAreAuthorised
<1> DEFINE Read(c) ==
      /\ Pending(c) /\ Performed(c)'
      /\ request[c].op \in {"readAllMeta", "readValue", "addEntry"}
      /\ answer'[c].status = "ok"
<1> DEFINE Step == \A c \in Callers :
      Read(c) => \E w \in vault.wraps : w.by = request[c].cred
                                           /\ w.mk = vault.sealedBy
<1>1. TypeInv /\ [Next]_vars => [Step]_vars
  <2> SUFFICES ASSUME TypeInv, [Next]_vars, NEW c \in Callers, Read(c)
               PROVE  \E w \in vault.wraps : w.by = request[c].cred
                                               /\ w.mk = vault.sealedBy
    OBVIOUS
  <2>1. phase[c] = "pending" /\ phase'[c] = "performed"
    BY DEF Pending, Performed
  <2>2. ASSUME NEW x \in Callers, Invoke(x) \/ Tidy(x) \/ Lose(x) \/ Return(x)
        PROVE  FALSE
    BY <2>1, <2>2 DEF Invoke, Ask, Tidy, Lose, Return, TypeInv, TypeOK
  <2>3. ~Crash /\ ~Damage /\ ~UNCHANGED vars
    BY <2>1 DEF Crash, Damage, vars
  <2>4. ASSUME NEW x \in Callers, NEW a, Answered(x, a)
        PROVE  x = c /\ a.status = "ok"
    <3>1. x = c
      BY <2>1, <2>4 DEF Answered, TypeInv, TypeOK
    <3>2. answer'[c] = a
      BY <2>4, <3>1 DEF Answered, TypeInv, TypeOK
    <3>3. QED
      BY <3>1, <3>2
  <2>5. ASSUME NEW x \in Callers, Fail(x) PROVE FALSE
    BY <2>4, <2>5, ErrorType DEF Fail
  <2>6. PICK x \in Callers : Perform(x)
    BY <2>2, <2>3, <2>5 DEF Next
  <2>7. PICK o \in Outcomes(request[x], vault) : Answered(x, o.answer)
    BY <2>6 DEF Perform
  <2>8. x = c /\ o.answer.status = "ok"
    BY <2>4, <2>7
  <2>9. vault \in Disk /\ request[c].op \in Keyed
    BY DEF TypeInv, TypeOK, Keyed, Saving
  <2>10. QED
    BY <2>7, <2>8, <2>9, OkHoldsTheKey
<1>2. QED
  BY <1>1, TypeInit, TypeStep, PTL DEF Spec, ReadsAreAuthorised

=============================================================================
