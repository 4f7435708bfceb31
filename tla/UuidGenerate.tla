---------------------------- MODULE UuidGenerate ----------------------------
(***************************************************************************)
(* Generate of uuid/uuid.go: one goroutine reads the bytes of a version 4  *)
(* uuid from the random number generator of the system.  A read that fails *)
(* for want of entropy (EPERM) is repeated, each time after a longer sleep *)
(* and for the bytes still missing; any other failure is a panic.          *)
(* Durations are counted in units of backoff, which is 10ms.               *)
(***************************************************************************)
EXTENDS Naturals

CONSTANTS
  Size,        \* the bytes of a uuid, 16
  MaxRetries,  \* maxretries, 9
  RawBytes     \* values a random byte may have

ASSUME UuidAssumption ==
  /\ Size \in Nat /\ Size >= 9
  /\ MaxRetries \in Nat
  /\ RawBytes \subseteq 0..255

VARIABLES
  pc,            \* where Generate is
  count,         \* bytes read so far
  retries,
  totalBackoff,
  random,        \* the positions of u that hold random bytes
  version,       \* u[6] once the uuid is complete
  variant        \* u[8] once the uuid is complete

vars == <<pc, count, retries, totalBackoff, random, version, variant>>

Positions == 0..(Size - 1)

TypeOK ==
  /\ pc \in {"sleep", "read", "done", "panic"}
  /\ count \in 0..Size
  /\ retries \in 0..MaxRetries
  /\ totalBackoff \in Nat
  /\ random \subseteq Positions
  /\ version \in 0..255
  /\ variant \in 0..255

Init ==
  /\ pc = "sleep"
  /\ count = 0
  /\ retries = 0
  /\ totalBackoff = 0
  /\ random = {}
  /\ version = 0
  /\ variant = 0

-----------------------------------------------------------------------------
\* Mutants, plausible wrong versions of the actions below that no specification
\* uses.  First: retries is not counted.
RetryForEver ==
  /\ pc = "read" /\ retries < MaxRetries
  /\ pc' = "sleep"
  /\ UNCHANGED <<count, retries, totalBackoff, random, version, variant>>

\* The first read waits too, and every other one unit longer.
SleepOneMore ==
  /\ pc = "sleep"
  /\ totalBackoff' = totalBackoff + retries + 1
  /\ pc' = "read"
  /\ UNCHANGED <<count, retries, random, version, variant>>

\* The last read starts at the wrong place, one byte late.
ReadOneLate ==
  /\ pc = "read"
  /\ random' = random \cup {i \in Positions : count < i}
  /\ version' = 64 /\ variant' = 128
  /\ pc' = "done"
  /\ UNCHANGED <<count, retries, totalBackoff>>

\* time.Sleep of retries times backoff, not at all the first time.
Sleep ==
  /\ pc = "sleep"
  /\ totalBackoff' = totalBackoff + retries
  /\ pc' = "read"
  /\ UNCHANGED <<count, retries, random, version, variant>>

\* io.ReadFull(rand.Reader, u[count:]) that returned n bytes.
Fill(n) == random' = random \cup {i \in Positions : count <= i /\ i < count + n}

\* ReadFull reports no error only for all the bytes; then the version and the
\* variant are set into the bytes read.
ReadSucceeds ==
  /\ pc = "read"
  /\ Fill(Size - count)
  /\ \E b6, b8 \in RawBytes :
       /\ version' = (b6 % 16) + 64
       /\ variant' = (b8 % 64) + 128
  /\ pc' = "done"
  /\ UNCHANGED <<count, retries, totalBackoff>>

\* retryOnError: the entropy ran out after n bytes.
ReadOutOfEntropy ==
  /\ pc = "read"
  /\ retries < MaxRetries
  /\ \E n \in 0..(Size - count - 1) :
       /\ Fill(n)
       /\ count' = count + n
  /\ retries' = retries + 1
  /\ pc' = "sleep"
  /\ UNCHANGED <<totalBackoff, version, variant>>

\* Another error, or no retry left.
ReadFails ==
  /\ pc = "read"
  /\ \E n \in 0..(Size - count - 1) : Fill(n)
  /\ pc' = "panic"
  /\ UNCHANGED <<count, retries, totalBackoff, version, variant>>

Next == Sleep \/ ReadSucceeds \/ ReadOutOfEntropy \/ ReadFails

Spec == Init /\ [][Next]_vars

\* The goroutine runs; rand.Reader may fail, but it answers.
FairSpec == Spec /\ WF_vars(Next)

-----------------------------------------------------------------------------
(* Properties. *)

\* However often the read was interrupted, every byte of a uuid that Generate
\* returns was read, and the version and the variant are those of version 4.
Version4 ==
  pc = "done" =>
    /\ random = Positions
    /\ version \in 64..79
    /\ variant \in 128..191

\* The comment of uuid.go:42 bounds the sleeps by "less than 450ms total", which
\* is the sum of 1..maxretries in units of backoff.  Generate keeps to it until
\* its last retry; one that uses every retry sleeps for exactly that time.
BackoffTotal ==
  /\ retries < MaxRetries => 2 * totalBackoff < MaxRetries * (MaxRetries + 1)
  /\ retries = MaxRetries /\ pc # "sleep" =>
       2 * totalBackoff = MaxRetries * (MaxRetries + 1)

\* What Terminates rests on: the steps that are left at most, two for each retry.
StepsLeft ==
  IF pc \in {"sleep", "read"}
    THEN 2 * (MaxRetries - retries) + (IF pc = "sleep" THEN 2 ELSE 1)
    ELSE 0

StepsRunOut == [][StepsLeft' < StepsLeft]_vars

\* Generate returns or panics.
Terminates == <>(pc \in {"done", "panic"})

-----------------------------------------------------------------------------
(* The inductive invariant. *)

\* The next read starts where the last one stopped: a random byte is neither
\* skipped nor read over.
PrefixRead ==
  pc \in {"sleep", "read"} => random = {i \in Positions : i < count} /\ count < Size

\* Twice the time slept: after k retries it is the sum of 1..k, the sleep before
\* the next read included.
BackoffSum ==
  2 * totalBackoff = IF pc = "sleep" THEN retries * retries - retries
                                     ELSE retries * retries + retries

UuidInv ==
  /\ TypeOK
  /\ PrefixRead
  /\ BackoffSum
  /\ Version4
=============================================================================
