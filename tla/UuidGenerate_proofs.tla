------------------------- MODULE UuidGenerate_proofs -------------------------
(***************************************************************************)
(* What Generate returns, for every length of uuid, number of retries and  *)
(* set of bytes.                                                           *)
(***************************************************************************)
EXTENDS UuidGenerate, TLAPS

\* The fields that hold the version and the variant, whatever byte was read.
LEMMA Fields ==
  ASSUME NEW b \in 0..255
  PROVE  /\ (b % 16) + 64 \in 64..79
         /\ (b % 64) + 128 \in 128..191
<1>1. b % 16 \in 0..15 /\ b % 64 \in 0..63
      OBVIOUS
<1>. QED
  BY <1>1

\* Initially nothing was read and nothing was slept.
LEMMA InitInv == Init => UuidInv
<1>. SUFFICES ASSUME Init PROVE UuidInv
     OBVIOUS
<1>1. TypeOK /\ BackoffSum /\ Version4
      BY UuidAssumption DEF Init, TypeOK, BackoffSum, Version4
<1>2. {i \in Positions : i < 0} = {}
      BY UuidAssumption DEF Positions
<1>3. PrefixRead
      BY <1>2, UuidAssumption DEF Init, PrefixRead
<1>. QED
  BY <1>1, <1>3 DEF UuidInv

\* Every read and every sleep keeps the account of bytes and of time.
LEMMA StepInv == UuidInv /\ [Next]_vars => UuidInv'
<1>. SUFFICES ASSUME UuidInv, [Next]_vars
              PROVE  UuidInv'
     OBVIOUS
<1>. USE UuidAssumption DEF UuidInv, TypeOK, PrefixRead, BackoffSum, Version4
<1>1. CASE Sleep
      BY <1>1 DEF Sleep
<1>2. CASE ReadSucceeds
  <2>1. random' = Positions
        BY <1>2 DEF ReadSucceeds, Fill, Positions
  <2>2. version' \in 64..79 /\ variant' \in 128..191
        BY <1>2, Fields DEF ReadSucceeds
  <2>3. UNCHANGED <<count, retries, totalBackoff>> /\ pc = "read" /\ pc' = "done"
        BY <1>2 DEF ReadSucceeds
  <2>. QED
    BY <2>1, <2>2, <2>3
<1>3. CASE ReadOutOfEntropy
  <2>1. PICK n \in 0..(Size - count - 1) : Fill(n) /\ count' = count + n
        BY <1>3 DEF ReadOutOfEntropy
  <2>2. /\ pc = "read" /\ pc' = "sleep" /\ retries < MaxRetries /\ retries' = retries + 1
        /\ UNCHANGED <<totalBackoff, version, variant>>
        BY <1>3 DEF ReadOutOfEntropy
  <2>3. random' = {i \in Positions : i < count'} /\ count' \in 0..Size /\ count' < Size
        BY <2>1, <2>2 DEF Fill, Positions
  <2>4. 2 * totalBackoff' = retries' * retries' - retries'
        BY <2>2
  <2>5. random' \subseteq Positions /\ retries' \in 0..MaxRetries
        BY <2>2, <2>3
  <2>. QED
    BY <2>2, <2>3, <2>4, <2>5
<1>4. CASE ReadFails
  <2>1. random' \subseteq Positions
        BY <1>4 DEF ReadFails, Fill
  <2>. QED
    BY <1>4, <2>1 DEF ReadFails
<1>5. CASE UNCHANGED vars
      BY <1>5 DEF vars
<1>. QED
  BY <1>1, <1>2, <1>3, <1>4, <1>5 DEF Next

\* Every read resumes where the last one stopped, and the time slept is the sum
\* of the growing sleeps.
THEOREM UuidInvHolds == Spec => []UuidInv
BY InitInv, StepInv, PTL DEF Spec

\* Every byte of a uuid that Generate returns was read, after however many
\* retries, but for the bits of version and variant.
THEOREM Version4Holds == Spec => []Version4
<1>1. UuidInv => Version4
      BY DEF UuidInv
<1>. QED
  BY <1>1, UuidInvHolds, PTL

\* Whatever number of retries is allowed, Generate sleeps less than the sum of
\* the sleeps of all of them before its last retry, and exactly that with it.
THEOREM BackoffTotalHolds == Spec => []BackoffTotal
<1>1. ASSUME UuidInv
      PROVE  BackoffTotal
  <2>. USE <1>1, UuidAssumption DEF UuidInv, TypeOK
  <2>1. ASSUME retries < MaxRetries
        PROVE  2 * totalBackoff < MaxRetries * (MaxRetries + 1)
    <3>1. 2 * totalBackoff <= retries * retries + retries
          BY DEF BackoffSum
    <3>2. retries * retries <= MaxRetries * MaxRetries
          BY <2>1
    <3>3. MaxRetries * (MaxRetries + 1) = MaxRetries * MaxRetries + MaxRetries
          OBVIOUS
    <3>. QED
      BY <2>1, <3>1, <3>2, <3>3
  <2>2. ASSUME retries = MaxRetries, pc # "sleep"
        PROVE  2 * totalBackoff = MaxRetries * (MaxRetries + 1)
        BY <2>2 DEF BackoffSum
  <2>. QED
    BY <2>1, <2>2 DEF BackoffTotal
<1>. QED
  BY <1>1, UuidInvHolds, PTL

\* Each sleep and each read brings Generate nearer to its end, which is at most
\* 2 * MaxRetries + 2 steps away.
THEOREM StepsRunOutHolds == Spec => [](StepsLeft \in Nat) /\ StepsRunOut
<1>1. UuidInv => StepsLeft \in Nat
      BY UuidAssumption DEF UuidInv, TypeOK, StepsLeft
<1>2. ASSUME UuidInv, [Next]_vars
      PROVE  [StepsLeft' < StepsLeft]_vars
  <2>. USE <1>2, UuidAssumption DEF UuidInv, TypeOK, StepsLeft
  <2>1. CASE Sleep
        BY <2>1 DEF Sleep
  <2>2. CASE ReadSucceeds
        BY <2>2 DEF ReadSucceeds
  <2>3. CASE ReadOutOfEntropy
        BY <2>3 DEF ReadOutOfEntropy
  <2>4. CASE ReadFails
        BY <2>4 DEF ReadFails
  <2>. QED
    BY <2>1, <2>2, <2>3, <2>4 DEF Next
<1>. QED
  BY <1>1, <1>2, UuidInvHolds, PTL DEF Spec, StepsRunOut
=============================================================================
