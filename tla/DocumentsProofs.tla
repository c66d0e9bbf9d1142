--------------------------- MODULE DocumentsProofs ---------------------------
(***************************************************************************)
(* What holds of Documents for every set of images, keys and readers and   *)
(* every size of buffer, chunk and key.  KeysInv follows a key from the    *)
(* random bytes it is made of to its one reader; StoreInv says what an     *)
(* upload under way, or cut short, leaves of blobs, keys and rows; CopyInv *)
(* says that an upload which found no copy remains right until its row is  *)
(* there, which needs that no other upload overlaps it.                    *)
(***************************************************************************)
EXTENDS Documents, FiniteSetTheorems, SequenceTheorems, WellFoundedInduction, TLAPS

-----------------------------------------------------------------------------
(* Least and greatest numbers.                                             *)

\* A nonempty set of numbers has a least one.
LEMMA LeastOf ==
  ASSUME NEW T, T \subseteq Nat, T # {}
  PROVE  /\ Min(T) \in T /\ \A y \in T : Min(T) <= y
<1> DEFINE R == {ss \in Nat \X Nat : ss[1] < ss[2]}
<1>0. IsWellFoundedOn(R, Nat)
  BY NatLessThanWellFounded, Zenon DEF OpToRel
<1>1. PICK x \in T : \A y \in T : ~(<<y, x>> \in R)
  <2> HIDE DEF R
  <2> QED BY <1>0, WFMin, Zenon
<1>2. \A y \in T : x <= y
  <2> SUFFICES ASSUME NEW y \in T PROVE ~(y < x)
    OBVIOUS
  <2>1. <<y, x>> \in R <=> y < x
    OBVIOUS
  <2> HIDE DEF R
  <2> QED BY <1>1, <2>1
<1>3. \E z \in T : \A y \in T : z <= y
  BY <1>2
<1> QED BY <1>3, Zenon DEF Min

\* A nonempty set of numbers up to n has a greatest one.
LEMMA GreatestOf ==
  ASSUME NEW n \in Nat, NEW T, T \subseteq 0..n, T # {}
  PROVE  /\ Max(T) \in T /\ \A y \in T : Max(T) >= y
<1> DEFINE U == {n - x : x \in T}
<1>1. Min(U) \in U /\ \A y \in U : Min(U) <= y
  <2>1. \A x \in T : x \in 0..n /\ n - x \in Nat
    OBVIOUS
  <2>2. U \subseteq Nat /\ U # {}
    BY <2>1
  <2> QED BY <2>2, LeastOf
<1>2. PICK x \in T : Min(U) = n - x
  BY <1>1
<1>3. \A y \in T : x >= y
  <2> SUFFICES ASSUME NEW y \in T PROVE x >= y
    OBVIOUS
  <2>1. n - x <= n - y
    BY <1>1, <1>2
  <2> QED BY <2>1
<1>4. \E z \in T : \A y \in T : z >= y
  BY <1>3
<1> QED BY <1>4, Zenon DEF Max

\* The least and the greatest of two numbers.
LEMMA TwoOf ==
  ASSUME NEW a \in Int, NEW b \in Int
  PROVE  /\ Min({a, b}) = IF a <= b THEN a ELSE b
         /\ Max({a, b}) = IF a >= b THEN a ELSE b
  BY DEF Min, Max

-----------------------------------------------------------------------------
(* The random number generator.                                            *)

\* One shot more than the quotient is enough, and more shots yield more.
LEMMA ShotsSuffice ==
  ASSUME NEW t \in Nat, NEW c \in Nat \ {0}, NEW x \in Nat, x >= t \div c + 1
  PROVE  x * c >= t
<1> DEFINE q == t \div c
<1>1. q \in Nat /\ t < q * c + c
  OBVIOUS
<1>2. PICK d \in Nat : x = q + 1 + d
  <2>1. x - (q + 1) \in Nat /\ x = q + 1 + (x - (q + 1))
    BY <1>1
  <2> QED BY <2>1
<1> HIDE DEF q
<1>3. x * c = q * c + c + d * c
  BY <1>1, <1>2
<1>4. d * c >= 0 /\ d * c \in Nat /\ q * c \in Nat
  BY <1>1, <1>2
<1> QED BY <1>1, <1>3, <1>4

\* A refill yields what it is asked for, whatever it comes from.
LEMMA YieldSuffices ==
  ASSUME NEW t \in Nat, NEW s \in Sources
  PROVE  Yield(s, t) \in Nat /\ Yield(s, t) >= t
<1>1. CASE s = "fallback"
  BY <1>1 DEF Yield
<1>2. CASE s # "fallback"
  <2> DEFINE c == Chunk[s]
             m == MinShots[s]
             q == t \div c + 1
  <2>1. c \in Nat \ {0} /\ m \in Nat
    BY <1>2, QuantumAssumption DEF Sources
  <2>2. q \in Nat
    BY <2>1
  <2>3. Shots(s, t) = IF m >= q THEN m ELSE q
    <3> HIDE DEF q, m
    <3>1. Max({m, q}) = IF m >= q THEN m ELSE q
      BY <2>1, <2>2, TwoOf
    <3> QED BY <3>1 DEF Shots, m, q
  <2>4. Shots(s, t) \in Nat /\ Shots(s, t) >= q
    <3> HIDE DEF q, m
    <3> QED BY <2>1, <2>2, <2>3
  <2>5. Shots(s, t) * c \in Nat /\ Shots(s, t) * c >= t
    <3>1. Shots(s, t) * c \in Nat
      <4> HIDE DEF c
      <4> QED BY <2>1, <2>4
    <3> QED BY <3>1, <2>1, <2>4, ShotsSuffice
  <2> QED BY <2>5, <1>2 DEF Yield
<1> QED BY <1>1, <1>2

\* What the generator keeps and answers: sources of bytes, in the number asked for.
GeneratorOK ==
  /\ buffer \in Seq(Sources)
  /\ answer \in [bytes : Seq(Sources), source : Sources, asked : 0..MaxBytes]
  /\ Len(answer.bytes) = answer.asked

\* Serving from enough bytes.
LEMMA ServeSuffices ==
  ASSUME NEW b \in Seq(Sources), NEW n \in 1..MaxBytes, NEW s \in Sources,
         Len(b) >= n, Serve(b, n, s)
  PROVE  GeneratorOK'
<1> n \in Nat /\ MaxBytes \in Nat
  BY QuantumAssumption
<1> Len(b) \in Nat
  OBVIOUS
<1>1. Min({n, Len(b)}) = n
  BY TwoOf
<1>2. SubSeq(b, 1, n) \in Seq(Sources) /\ Len(SubSeq(b, 1, n)) = n
  OBVIOUS
<1>3. SubSeq(b, n + 1, Len(b)) \in Seq(Sources)
  OBVIOUS
<1>4. answer' = [bytes |-> SubSeq(b, 1, n), source |-> s, asked |-> n]
      /\ buffer' = SubSeq(b, n + 1, Len(b))
  BY <1>1 DEF Serve
<1> QED BY <1>2, <1>3, <1>4 DEF GeneratorOK

\* Every call keeps the generator so; only a refill costs faults.
LEMMA RandomStep ==
  ASSUME TypeOK, GeneratorOK, NEW n \in 1..MaxBytes, Random(n)
  PROVE  GeneratorOK' /\ faults' \in 0..MaxFaults
<1> n \in Nat /\ MaxFaults \in Nat /\ BufferBytes \in Nat /\ MaxBytes \in Nat
  BY QuantumAssumption
<1> /\ Primary \in Sources /\ DOMAIN Attempts \subseteq 1..3
    /\ \A i \in DOMAIN Attempts : Attempts[i] \in Sources
  BY DEF Primary, Attempts, Sources
<1> buffer \in Seq(Sources) /\ Len(buffer) \in Nat /\ faults \in 0..MaxFaults
  BY DEF TypeOK
<1>1. CASE Len(buffer) < n
  <2> DEFINE t == Max({n, BufferBytes})
  <2>1. t \in Nat /\ t >= n
    <3>1. n \in Int /\ BufferBytes \in Int
      OBVIOUS
    <3>2. t = IF n >= BufferBytes THEN n ELSE BufferBytes
      BY <3>1, TwoOf
    <3> HIDE DEF t
    <3> QED BY <3>2
  <2>2. PICK i \in DOMAIN Attempts : /\ faults + i - 1 <= MaxFaults
                                     /\ faults' = faults + i - 1
                                     /\ Serve(Refill(Attempts[i], t), n, Attempts[i])
    BY <1>1 DEF Random
  <2> DEFINE s == Attempts[i]
  <2>3. i \in 1..3 /\ s \in Sources
    OBVIOUS
  <2>4. Refill(s, t) \in Seq(Sources) /\ Len(Refill(s, t)) >= n
    <3> HIDE DEF t
    <3> DEFINE y == Yield(s, t)
               new == [j \in 1..y |-> s]
    <3>1. y \in Nat /\ y >= t
      BY <2>1, YieldSuffices
    <3> HIDE DEF y
    <3>2. new \in Seq(Sources) /\ Len(new) = y
      BY <3>1
    <3> HIDE DEF new
    <3>3. buffer \o new \in Seq(Sources) /\ Len(buffer \o new) = Len(buffer) + y
      BY <3>2
    <3> QED BY <3>1, <3>3, <2>1 DEF Refill, y, new
  <2>5. GeneratorOK'
    BY <2>2, <2>4, ServeSuffices
  <2> QED BY <2>2, <2>3, <2>5
<1>2. CASE ~(Len(buffer) < n)
  <2>1. Serve(buffer, n, Primary) /\ UNCHANGED faults
    BY <1>2 DEF Random
  <2> QED BY <1>2, <2>1, ServeSuffices
<1> QED BY <1>1, <1>2

-----------------------------------------------------------------------------
(* Keys.                                                                   *)

\* The rounds behind every key were clean and left enough bits.
CleanKeys ==
  \A k \in DOMAIN minted : \A i \in 1..Rounds :
    AcceptedRound(minted[k][i]) /\ Keep(minted[k][i]) >= KeyBits

\* The readers that are between GET and DEL of key k, by the tasks they have.
Reading(tasks, k) == {r \in Readers : tasks[r] = k}

\* The readers that have a task.
Busy(tasks) == {r \in Readers : tasks[r] # NoTask}

\* Why a key is read once: while it is stored and nobody is reading it, every
\* answer that carried it is excused.
ReadsOK ==
  /\ IsFiniteSet(Busy(task))
  /\ \A k \in Keys : delivered[k] + Cardinality(Reading(task, k)) <= 1 + excused[k]
  /\ \A k \in stored : Reading(task, k) = {} => delivered[k] <= excused[k]
  /\ \A k \in Keys : k > Len(minted) => delivered[k] = 0

\* What holds of the generator and the keys, also between the steps of an upload.
KeysInv == TypeOK /\ GeneratorOK /\ CleanKeys /\ ReadsOK

\* Minted keys are keys.
LEMMA MintedAreKeys ==
  ASSUME TypeOK
  PROVE  DOMAIN minted \subseteq Keys /\ stored \subseteq Keys /\ MaxKeys \in Nat
<1>1. minted \in Seq([1..Rounds -> Measured]) /\ Len(minted) <= MaxKeys /\ stored \subseteq DOMAIN minted
  BY DEF TypeOK
<1>2. DOMAIN minted = 1..Len(minted) /\ Len(minted) \in Nat /\ MaxKeys \in Nat
  BY <1>1, QuantumAssumption
<1> QED BY <1>1, <1>2 DEF Keys

\* The sets of readers that the bounds are about are finite.
LEMMA ReadingFinite ==
  ASSUME TypeOK, ReadsOK, NEW k \in Keys
  PROVE  /\ IsFiniteSet(Reading(task, k)) /\ Cardinality(Reading(task, k)) \in Nat
         /\ (Reading(task, k) # {} => Cardinality(Reading(task, k)) >= 1)
<1>1. Reading(task, k) \subseteq Busy(task)
  BY QuantumAssumption DEF Reading, Busy, Keys
<1>2. IsFiniteSet(Reading(task, k))
  BY <1>1, FS_Subset DEF ReadsOK
<1>3. Cardinality(Reading(task, k)) \in Nat
  BY <1>2, FS_CardinalityType
<1>4. Cardinality(Reading(task, k)) = 0 <=> Reading(task, k) = {}
  BY <1>2, FS_EmptySet
<1> QED BY <1>2, <1>3, <1>4

\* What the sample leaves of a round, and the shortest round.
LEMMA KeepIsNat ==
  ASSUME NEW m \in Measured
  PROVE  Keep(m) \in Nat
<1>1. m.sifted \in Nat /\ m.sifted \div 4 \in Nat /\ MinSample \in Nat
  BY QuantumAssumption DEF Measured
<1> DEFINE q == m.sifted \div 4
           M == Max({MinSample, q})
<1>2. M \in Nat
  <2>1. q \in Int /\ q >= 0 /\ MinSample \in Int
    BY <1>1
  <2> HIDE DEF q
  <2>2. M = IF MinSample >= q THEN MinSample ELSE q
    BY <2>1, TwoOf
  <2> HIDE DEF M
  <2> QED BY <1>1, <2>1, <2>2
<1>3. Sampled(m.sifted) = IF m.sifted <= M THEN m.sifted ELSE M
  <2> HIDE DEF M
  <2> Min({m.sifted, M}) = IF m.sifted <= M THEN m.sifted ELSE M
    BY <1>1, <1>2, TwoOf
  <2> QED BY DEF Sampled, M
<1> HIDE DEF M
<1> QED BY <1>1, <1>2, <1>3 DEF Keep

LEMMA ShortestRound ==
  ASSUME NEW rounds \in [1..Rounds -> Measured], KeyLength(rounds) >= KeyBits
  PROVE  \A i \in 1..Rounds : Keep(rounds[i]) >= KeyBits
<1> DEFINE T == {Keep(rounds[i]) : i \in DOMAIN rounds}
<1>1. T \subseteq Nat /\ T # {}
  <2>1. DOMAIN rounds = 1..Rounds /\ 1 \in 1..Rounds
    BY QuantumAssumption
  <2> QED BY <2>1, KeepIsNat
<1>2. Min(T) \in Nat /\ \A y \in T : Min(T) <= y
  BY <1>1, LeastOf
<1>3. Min(T) >= KeyBits
  BY DEF KeyLength
<1> SUFFICES ASSUME NEW i \in 1..Rounds PROVE Keep(rounds[i]) >= KeyBits
  OBVIOUS
<1>4. Keep(rounds[i]) \in T /\ Keep(rounds[i]) \in Nat
  BY KeepIsNat
<1> HIDE DEF T
<1> QED BY <1>2, <1>3, <1>4, QuantumAssumption

\* A new key: clean rounds, nobody has read it.
LEMMA MintStep ==
  ASSUME KeysInv, NEW rounds \in [1..Rounds -> Measured], Mint(rounds)
  PROVE  KeysInv'
<1> USE DEF KeysInv
<1> DEFINE k == Len(minted) + 1
<1> MaxKeys \in Nat /\ MaxFaults \in Nat
  BY QuantumAssumption
<1>1. /\ minted \in Seq([1..Rounds -> Measured]) /\ Len(minted) \in Nat /\ DOMAIN minted = 1..Len(minted)
      /\ minted' = Append(minted, rounds) /\ minted' \in Seq([1..Rounds -> Measured])
      /\ Len(minted') = k /\ DOMAIN minted' = 1..k /\ minted'[k] = rounds
      /\ \A j \in DOMAIN minted : minted'[j] = minted[j]
      /\ k <= MaxKeys /\ k \in Keys
  BY DEF Mint, TypeOK, Keys
<1>2. /\ UNCHANGED <<buffer, answer, task, delivered, excused>>
      /\ stored' \subseteq stored \cup {k} /\ lost' \subseteq lost \cup {k} /\ faults' \in 0..MaxFaults
  BY DEF Mint, TypeOK, generatorVars, Entry
<1>3. DOMAIN minted \subseteq DOMAIN minted'
  BY <1>1
<1>4. TypeOK'
  <2>1. stored' \subseteq DOMAIN minted' /\ lost' \subseteq DOMAIN minted'
    BY <1>1, <1>2 DEF TypeOK
  <2>2. task' \in [Readers -> DOMAIN minted' \cup {NoTask}]
    BY <1>2, <1>3 DEF TypeOK
  <2> QED BY <1>1, <1>2, <2>1, <2>2 DEF TypeOK
<1>5. GeneratorOK'
  BY <1>2 DEF GeneratorOK
<1>6. CleanKeys'
  <2>1. \A i \in 1..Rounds : AcceptedRound(rounds[i]) /\ Keep(rounds[i]) >= KeyBits
    BY ShortestRound DEF Mint, Accepted
  <2> SUFFICES ASSUME NEW j \in DOMAIN minted', NEW i \in 1..Rounds
               PROVE  AcceptedRound(minted'[j][i]) /\ Keep(minted'[j][i]) >= KeyBits
    BY DEF CleanKeys
  <2>2. j = k \/ j \in DOMAIN minted
    BY <1>1
  <2> QED BY <1>1, <2>1, <2>2 DEF CleanKeys
<1>7. ReadsOK'
  <2>1. \A j : Reading(task', j) = Reading(task, j)
    BY <1>2 DEF Reading
  <2>2. delivered[k] = 0 /\ excused[k] \in Nat
    BY <1>1 DEF ReadsOK, TypeOK
  <2>3. \A j \in Keys : j > Len(minted') => delivered'[j] = 0
    BY <1>1, <1>2 DEF ReadsOK, Keys
  <2>4. \A j \in stored' : Reading(task', j) = {} => delivered'[j] <= excused'[j]
    BY <1>2, <2>1, <2>2 DEF ReadsOK
  <2> QED BY <1>2, <2>1, <2>3, <2>4 DEF ReadsOK
<1> QED BY <1>4, <1>5, <1>6, <1>7

\* A GET: alone, it uses up the answer the key has left; next to another read, it
\* is excused.
LEMMA GetStep ==
  ASSUME KeysInv, NEW r \in Readers, NEW k \in Keys, Get(r, k)
  PROVE  KeysInv'
<1> USE DEF KeysInv
<1> NoTask \notin Keys /\ k # NoTask /\ MaxKeys \in Nat
  BY QuantumAssumption DEF Keys
<1>1. /\ UNCHANGED <<buffer, answer, minted, stored, delivered, lost, faults>>
      /\ k \in stored /\ task[r] = NoTask /\ task' = [task EXCEPT ![r] = k]
      /\ k \in DOMAIN minted
  BY DEF Get, generatorVars, TypeOK
<1>2. /\ Reading(task', k) = Reading(task, k) \cup {r} /\ r \notin Reading(task, k)
      /\ \A j \in Keys \ {k} : Reading(task', j) = Reading(task, j)
  BY <1>1 DEF Reading, TypeOK
<1>3. excused' = IF Reading(task, k) # {} THEN [excused EXCEPT ![k] = @ + 1] ELSE excused
  BY DEF Get, Reading
<1>4. TypeOK'
  <2>1. task' \in [Readers -> DOMAIN minted \cup {NoTask}] /\ excused' \in [Keys -> Nat]
    BY <1>1, <1>3 DEF TypeOK
  <2> QED BY <1>1, <2>1 DEF TypeOK
<1>5. GeneratorOK' /\ CleanKeys'
  BY <1>1 DEF GeneratorOK, CleanKeys
<1>6. ReadsOK'
  <2>1. IsFiniteSet(Busy(task'))
    <3>1. Busy(task') = Busy(task) \cup {r}
      BY <1>1 DEF Busy, TypeOK
    <3> QED BY <3>1, FS_AddElement DEF ReadsOK
  <2>2. Cardinality(Reading(task', k)) = Cardinality(Reading(task, k)) + 1
    BY <1>2, ReadingFinite, FS_AddElement
  <2>3. \A j \in Keys : /\ delivered[j] \in Nat /\ excused[j] \in Nat
                        /\ Cardinality(Reading(task, j)) \in Nat
    BY ReadingFinite DEF TypeOK
  <2>4. ASSUME NEW j \in Keys
        PROVE  delivered'[j] + Cardinality(Reading(task', j)) <= 1 + excused'[j]
    <3>1. CASE j # k
      BY <3>1, <1>1, <1>2, <1>3, <2>3 DEF ReadsOK, TypeOK
    <3>2. CASE j = k /\ Reading(task, k) # {}
      <4>1. excused'[k] = excused[k] + 1
        BY <3>2, <1>3 DEF TypeOK
      <4> QED BY <3>2, <4>1, <1>1, <2>2, <2>3 DEF ReadsOK
    <3>3. CASE j = k /\ Reading(task, k) = {}
      <4>1. Cardinality(Reading(task, k)) = 0
        BY <3>3, FS_EmptySet
      <4> QED BY <3>3, <4>1, <1>1, <1>3, <2>2, <2>3 DEF ReadsOK
    <3> QED BY <3>1, <3>2, <3>3
  <2>5. \A j \in stored' : Reading(task', j) = {} => delivered'[j] <= excused'[j]
    <3> SUFFICES ASSUME NEW j \in stored, Reading(task', j) = {}
                 PROVE  delivered[j] <= excused'[j]
      BY <1>1
    <3>1. j # k /\ j \in Keys
      BY <1>2, MintedAreKeys
    <3> QED BY <3>1, <1>1, <1>2, <1>3 DEF ReadsOK, TypeOK
  <2>6. \A j \in Keys : j > Len(minted') => delivered'[j] = 0
    BY <1>1 DEF ReadsOK
  <2> QED BY <2>1, <2>4, <2>5, <2>6 DEF ReadsOK
<1> QED BY <1>4, <1>5, <1>6

\* One task less leaves finitely many.
LEMMA BusyShrinks ==
  ASSUME TypeOK, ReadsOK, NEW r \in Readers, task' = [task EXCEPT ![r] = NoTask]
  PROVE  IsFiniteSet(Busy(task'))
<1>1. Busy(task') \subseteq Busy(task)
  BY DEF Busy, TypeOK
<1> QED BY <1>1, FS_Subset DEF ReadsOK

\* A reader that stops reading leaves one reader less.
LEMMA LeavingReader ==
  ASSUME TypeOK, ReadsOK, NEW r, NEW k, r \in Readers, task[r] = k, k # NoTask,
         task' = [task EXCEPT ![r] = NoTask]
  PROVE  /\ k \in Keys /\ k \in DOMAIN minted
         /\ \A j \in Keys \ {k} : Reading(task', j) = Reading(task, j)
         /\ Cardinality(Reading(task', k)) = Cardinality(Reading(task, k)) - 1
<1> NoTask \notin Keys /\ MaxKeys \in Nat
  BY QuantumAssumption DEF Keys
<1>1. k \in DOMAIN minted /\ k \in Keys /\ task' \in [Readers -> DOMAIN minted \cup {NoTask}]
  BY DEF TypeOK, Keys
<1>2. /\ \A j \in Keys \ {k} : Reading(task', j) = Reading(task, j)
      /\ Reading(task', k) = Reading(task, k) \ {r} /\ r \in Reading(task, k)
  BY <1>1 DEF Reading, TypeOK
<1>3. Cardinality(Reading(task', k)) = Cardinality(Reading(task, k)) - 1
  BY <1>1, <1>2, ReadingFinite, FS_RemoveElement
<1> QED BY <1>1, <1>2, <1>3

\* A DEL and its answer: either the key is gone, or the answer is excused.
LEMMA ConsumeStep ==
  ASSUME KeysInv, NEW r \in Readers, Consume(r)
  PROVE  KeysInv'
<1> USE DEF KeysInv
<1> MaxFaults \in Nat
  BY QuantumAssumption
<1> TypeOK /\ ReadsOK
  OBVIOUS
<1>1. PICK k : k = task[r]
  OBVIOUS
<1>2. /\ UNCHANGED <<buffer, answer, minted, lost>>
      /\ k # NoTask /\ task' = [task EXCEPT ![r] = NoTask]
      /\ delivered' = [delivered EXCEPT ![k] = @ + 1]
      /\ \/ stored' = stored \ {k} /\ excused' = excused /\ faults' = faults
         \/ /\ stored' = stored /\ excused' = [excused EXCEPT ![k] = @ + 1]
            /\ faults < MaxFaults /\ faults' = faults + 1
  BY <1>1 DEF Consume, Deleted, generatorVars
<1>3. /\ k \in Keys /\ k \in DOMAIN minted
      /\ \A j \in Keys \ {k} : Reading(task', j) = Reading(task, j)
      /\ Cardinality(Reading(task', k)) = Cardinality(Reading(task, k)) - 1
  <2>1. task[r] = k /\ k # NoTask /\ task' = [task EXCEPT ![r] = NoTask] /\ TypeOK /\ ReadsOK
    BY <1>1, <1>2
  <2> QED BY <2>1, LeavingReader
<1>4. IsFiniteSet(Busy(task'))
  BY <1>2, BusyShrinks
<1>5. task' \in [Readers -> DOMAIN minted \cup {NoTask}]
  BY <1>2 DEF TypeOK
<1>6. TypeOK'
  <2>1. delivered' \in [Keys -> Nat] /\ excused' \in [Keys -> Nat]
    <3>1. delivered \in [Keys -> Nat] /\ excused \in [Keys -> Nat]
      BY DEF TypeOK
    <3>2. delivered[k] + 1 \in Nat /\ excused[k] + 1 \in Nat
      BY <3>1, <1>3
    <3> QED BY <3>1, <3>2, <1>2
  <2>2. stored' \subseteq DOMAIN minted /\ faults' \in 0..MaxFaults
    BY <1>2 DEF TypeOK
  <2> QED BY <1>2, <1>5, <2>1, <2>2 DEF TypeOK
<1>7. GeneratorOK' /\ CleanKeys'
  BY <1>2 DEF GeneratorOK, CleanKeys
<1>8. ReadsOK'
  <2>1. /\ delivered[k] \in Nat /\ excused[k] \in Nat /\ Cardinality(Reading(task, k)) \in Nat
        /\ delivered'[k] = delivered[k] + 1
    BY <1>2, <1>3, ReadingFinite DEF TypeOK
  <2>2. \A j \in Keys \ {k} : delivered'[j] = delivered[j] /\ excused'[j] = excused[j]
    BY <1>2 DEF TypeOK
  <2>3. excused'[k] >= excused[k] /\ excused'[k] \in Nat
    BY <1>2, <1>3 DEF TypeOK
  <2>4. ASSUME NEW j \in Keys
        PROVE  delivered'[j] + Cardinality(Reading(task', j)) <= 1 + excused'[j]
    <3>1. CASE j # k
      BY <3>1, <1>3, <2>2 DEF ReadsOK
    <3>2. CASE j = k
      BY <3>2, <1>3, <2>1, <2>3 DEF ReadsOK
    <3> QED BY <3>1, <3>2
  <2>5. ASSUME NEW j \in stored', Reading(task', j) = {}
        PROVE  delivered'[j] <= excused'[j]
    <3>1. j \in stored /\ j \in Keys
      BY <1>2, MintedAreKeys
    <3>2. CASE j # k
      BY <3>1, <3>2, <1>3, <2>2, <2>5 DEF ReadsOK
    <3>3. CASE j = k
      <4>1. Cardinality(Reading(task, k)) = 1
        BY <3>3, <1>3, <2>1, <2>5, FS_EmptySet
      <4>2. excused'[k] = excused[k] + 1
        BY <3>1, <3>3, <1>2, <1>3 DEF TypeOK
      <4> QED BY <3>3, <4>1, <4>2, <1>3, <2>1 DEF ReadsOK
    <3> QED BY <3>2, <3>3
  <2>6. ASSUME NEW j \in Keys, j > Len(minted')
        PROVE  delivered'[j] = 0
    <3>1. j # k
      BY <1>2, <1>3, <2>6 DEF TypeOK
    <3> QED BY <3>1, <1>2, <2>2, <2>6 DEF ReadsOK
  <2> QED BY <1>4, <2>4, <2>5, <2>6 DEF ReadsOK
<1> QED BY <1>6, <1>7, <1>8

\* A reader that dies leaves the key unread, if it leaves it.
LEMMA DieStep ==
  ASSUME KeysInv, NEW r \in Readers, Die(r)
  PROVE  KeysInv'
<1> USE DEF KeysInv
<1> MaxFaults \in Nat
  BY QuantumAssumption
<1> TypeOK /\ ReadsOK
  OBVIOUS
<1>1. PICK k : k = task[r]
  OBVIOUS
<1>2. /\ UNCHANGED <<buffer, answer, minted, delivered, excused>>
      /\ k # NoTask /\ task' = [task EXCEPT ![r] = NoTask]
      /\ stored' \subseteq stored /\ lost' \subseteq lost \cup {k} /\ faults' \in 0..MaxFaults
  BY <1>1 DEF Die, generatorVars, TypeOK
<1>3. /\ k \in Keys /\ k \in DOMAIN minted
      /\ \A j \in Keys \ {k} : Reading(task', j) = Reading(task, j)
      /\ Cardinality(Reading(task', k)) = Cardinality(Reading(task, k)) - 1
  <2>1. task[r] = k /\ k # NoTask /\ task' = [task EXCEPT ![r] = NoTask] /\ TypeOK /\ ReadsOK
    BY <1>1, <1>2
  <2> QED BY <2>1, LeavingReader
<1>4. IsFiniteSet(Busy(task'))
  BY <1>2, BusyShrinks
<1>5. task' \in [Readers -> DOMAIN minted \cup {NoTask}]
  BY <1>2 DEF TypeOK
<1>6. TypeOK'
  <2>1. stored' \subseteq DOMAIN minted /\ lost' \subseteq DOMAIN minted
    BY <1>2, <1>3 DEF TypeOK
  <2> QED BY <1>2, <1>5, <2>1 DEF TypeOK
<1>7. GeneratorOK' /\ CleanKeys'
  BY <1>2 DEF GeneratorOK, CleanKeys
<1>8. ReadsOK'
  <2>1. /\ delivered[k] \in Nat /\ excused[k] \in Nat /\ Cardinality(Reading(task, k)) \in Nat
    BY <1>3, ReadingFinite DEF TypeOK
  <2>2. ASSUME NEW j \in Keys
        PROVE  delivered[j] + Cardinality(Reading(task', j)) <= 1 + excused[j]
    <3>1. CASE j # k
      BY <3>1, <1>3 DEF ReadsOK
    <3>2. CASE j = k
      BY <3>2, <1>3, <2>1 DEF ReadsOK
    <3> QED BY <3>1, <3>2
  <2>3. ASSUME NEW j \in stored', Reading(task', j) = {}
        PROVE  delivered[j] <= excused[j]
    <3>1. j \in stored /\ j \in Keys
      BY <1>2, MintedAreKeys
    <3>2. CASE j # k
      BY <3>1, <3>2, <1>3, <2>3 DEF ReadsOK
    <3>3. CASE j = k
      <4>1. Cardinality(Reading(task, k)) = 1
        BY <3>3, <1>3, <2>1, <2>3, FS_EmptySet
      <4> QED BY <3>3, <4>1, <1>3, <2>1 DEF ReadsOK
    <3> QED BY <3>2, <3>3
  <2>4. \A j \in Keys : j > Len(minted') => delivered[j] = 0
    BY <1>2 DEF ReadsOK
  <2> QED BY <1>2, <1>4, <2>2, <2>3, <2>4 DEF ReadsOK
<1> QED BY <1>6, <1>7, <1>8

\* An expiry only takes keys away.
LEMMA ExpireStep ==
  ASSUME KeysInv, NEW k \in Keys, Expire(k)
  PROVE  KeysInv'
<1> USE DEF KeysInv
<1> MaxFaults \in Nat
  BY QuantumAssumption
<1>1. /\ UNCHANGED <<buffer, answer, minted, task, delivered, excused>>
      /\ stored' \subseteq stored /\ lost' \subseteq lost \cup {k} /\ k \in stored
      /\ faults' \in 0..MaxFaults
  BY DEF Expire, generatorVars, TypeOK
<1>2. TypeOK'
  <2>1. stored' \subseteq DOMAIN minted /\ lost' \subseteq DOMAIN minted
    BY <1>1 DEF TypeOK
  <2> QED BY <1>1, <2>1 DEF TypeOK
<1>3. GeneratorOK' /\ CleanKeys'
  BY <1>1 DEF GeneratorOK, CleanKeys
<1>4. ReadsOK'
  <2>1. \A j : Reading(task', j) = Reading(task, j)
    BY <1>1
  <2> QED BY <1>1, <2>1 DEF ReadsOK
<1> QED BY <1>2, <1>3, <1>4

\* A step of something else.
LEMMA ElsewhereStep ==
  ASSUME KeysInv, UNCHANGED <<generatorVars, keyVars>>, faults' \in 0..MaxFaults
  PROVE  KeysInv'
<1> USE DEF KeysInv, generatorVars, keyVars
<1>1. TypeOK' /\ GeneratorOK' /\ CleanKeys'
  BY DEF TypeOK, GeneratorOK, CleanKeys
<1>2. \A j : Reading(task', j) = Reading(task, j)
  BY DEF Reading
<1>3. ReadsOK'
  BY <1>2 DEF ReadsOK
<1> QED BY <1>1, <1>3

LEMMA GeneratorStep ==
  ASSUME KeysInv, NEW n \in 1..MaxBytes, Random(n)
  PROVE  KeysInv'
<1> USE DEF KeysInv
<1>1. GeneratorOK' /\ faults' \in 0..MaxFaults
  BY RandomStep
<1>2. UNCHANGED keyVars
  BY DEF Random
<1> USE DEF keyVars
<1>3. TypeOK' /\ CleanKeys'
  BY <1>1, <1>2 DEF TypeOK, GeneratorOK, CleanKeys
<1>4. \A j : Reading(task', j) = Reading(task, j)
  BY <1>2 DEF Reading
<1>5. ReadsOK'
  BY <1>2, <1>4 DEF ReadsOK
<1> QED BY <1>1, <1>3, <1>5

LEMMA KeysInitially ==
  ASSUME Init
  PROVE  KeysInv
<1> MaxFaults \in Nat /\ MaxKeys \in Nat /\ MaxBytes \in Nat
  BY QuantumAssumption
<1>1. Primary \in Sources /\ <<>> \in Seq(Sources) /\ Len(<<>>) = 0
  BY DEF Primary, Attempts, Sources
<1>2. TypeOK
  <2>1. minted \in Seq([1..Rounds -> Measured]) /\ Len(minted) = 0
    BY DEF Init
  <2> QED BY <1>1, <2>1 DEF Init, TypeOK
<1>3. GeneratorOK /\ CleanKeys
  BY <1>1 DEF Init, GeneratorOK, CleanKeys
<1>4. ReadsOK
  <2>1. Busy(task) = {}
    BY DEF Init, Busy
  <2>2. \A k \in Keys : Reading(task, k) = {} /\ delivered[k] = 0 /\ excused[k] = 0
    BY QuantumAssumption DEF Init, Reading, Keys
  <2>3. \A k \in Keys : Cardinality(Reading(task, k)) = 0
    BY <2>2, FS_EmptySet
  <2>4. stored = {}
    BY DEF Init
  <2>5. IsFiniteSet(Busy(task))
    BY <2>1, FS_EmptySet
  <2> QED BY <2>2, <2>3, <2>4, <2>5 DEF ReadsOK
<1> QED BY <1>2, <1>3, <1>4 DEF KeysInv

\* What the run checks of them.
LEMMA KeysProperties ==
  ASSUME KeysInv
  PROVE  NothingIsShort /\ KeyIsReadOnce
  BY DEF KeysInv, GeneratorOK, CleanKeys, ReadsOK, Reading, NothingIsShort, KeyIsReadOnce

-----------------------------------------------------------------------------
(* Documents and their blobs.                                              *)

\* Uploads have numbers of their own, which rows keep; before its row is written an
\* upload's blob is, under the upload's key.
UploadsFit ==
  /\ \A r \in Readers : upload[r] # NoUpload => upload[r].id \in 1..uploads
  /\ \A r, q \in Readers : upload[r] # NoUpload /\ upload[q] # NoUpload /\ r # q
                             => upload[r].id # upload[q].id
  /\ \A d \in DOMAIN documents : documents[d].id \in 1..uploads
  /\ \A d \in DOMAIN documents : \A r \in Readers :
       upload[r] # NoUpload => documents[d].id # upload[r].id
  /\ \A r \in Readers : Open(r, "insert") => blobs[upload[r].id] = {upload[r].kid}

StoreInv == StoreTypeOK /\ UploadsFit /\ RowHasBlob

\* The verdict on an analysis is one of three, for reasons among three; the nearest
\* document is a feature of it.
LEMMA Verdict ==
  ASSUME NEW f
  PROVE  Status(f) \in {"CLEAN", "REVIEW", "SUSPICIOUS"} /\ Reasons(f) \in SUBSET Findings
  BY DEF Status, StatusFor, Reasons

LEMMA JudgedFeatures ==
  ASSUME NEW f \in Features, NEW near
  PROVE  /\ WithDuplicate(f, near) \in Judged
         /\ WithDuplicate(f, near).duplicate = IF near = 0 THEN 0 ELSE 2
<1> DEFINE g == WithDuplicate(f, near)
<1>1. DOMAIN f = {"tampering", "amount", "date", "layout", "quality", "signature", "readable"}
  BY DEF Features
<1>2. g = [x \in {"tampering", "amount", "date", "layout", "quality", "signature", "readable",
                  "duplicate"} |->
             IF x # "duplicate" THEN f[x] ELSE IF near = 0 THEN 0 ELSE 2]
  BY <1>1, Zenon DEF WithDuplicate
<1> HIDE DEF g
<1>3. /\ g.tampering = f.tampering /\ g.amount = f.amount /\ g.date = f.date /\ g.layout = f.layout
      /\ g.quality = f.quality /\ g.signature = f.signature /\ g.readable = f.readable
      /\ g.duplicate = IF near = 0 THEN 0 ELSE 2
  BY <1>2
<1>4. g \in Judged
  BY <1>2, <1>3 DEF Judged, Features
<1> QED BY <1>3, <1>4 DEF g

LEMMA RowsAreRows ==
  ASSUME StoreTypeOK
  PROVE  \A d \in DOMAIN documents : documents[d] \in Row
<1>1. documents \in Seq(Row)
  BY DEF StoreTypeOK
<1> QED BY <1>1

\* A new upload has a number of its own.
LEMMA AnalyseStep ==
  ASSUME StoreInv, NEW r \in Readers, NEW image \in Images, NEW f \in Analyses,
         Analyse(r, image, f)
  PROVE  StoreInv'
<1> USE DEF StoreInv
<1> MaxDocuments \in Nat /\ UploadFaults \in Nat /\ MaxKeys \in Nat /\ uploads \in Nat
  BY DocumentsAssumption, QuantumAssumption DEF StoreTypeOK
<1> DEFINE n == uploads + 1
           v == WithDuplicate(f, Nearest(Candidates(image), image))
           w == [step |-> IF r \in Staff THEN "mint" ELSE "store", id |-> n, image |-> image,
                 features |-> v, kid |-> 0]
<1>1. /\ UNCHANGED <<documents, blobs, payment, held>>
      /\ n \in Uploads /\ uploads' = n /\ upload[r] = NoUpload /\ upload' = [upload EXCEPT ![r] = w]
  BY DEF Analyse, paymentVars, Uploads, StoreTypeOK
<1>2. w \in Work /\ w.id = n /\ w.step # "insert"
  <2>1. v \in Judged
    BY DocumentsAssumption, JudgedFeatures
  <2> HIDE DEF v
  <2> QED BY <1>1, <2>1 DEF Work
<1> HIDE DEF w
<1>3. StoreTypeOK'
  <2>1. upload' \in [Readers -> Work \cup {NoUpload}]
    BY <1>1, <1>2 DEF StoreTypeOK
  <2>2. uploads' \in 0..(MaxDocuments + UploadFaults)
    BY <1>1 DEF Uploads
  <2> QED BY <1>1, <2>1, <2>2 DEF StoreTypeOK
<1>4. \A q \in Readers : upload'[q] = IF q = r THEN w ELSE upload[q]
  BY <1>1 DEF StoreTypeOK
<1>5. UploadsFit'
  <2>1. \A q \in Readers : upload'[q] # NoUpload => upload'[q].id \in 1..uploads'
    BY <1>1, <1>2, <1>4 DEF UploadsFit
  <2>2. \A q, p \in Readers : upload'[q] # NoUpload /\ upload'[p] # NoUpload /\ q # p
                                => upload'[q].id # upload'[p].id
    <3>1. \A q \in Readers : upload[q] # NoUpload => upload[q].id # n
      BY DEF UploadsFit
    <3> QED BY <3>1, <1>2, <1>4 DEF UploadsFit
  <2>3. \A d \in DOMAIN documents : documents[d].id \in 1..uploads' /\ documents[d].id # n
    BY <1>1 DEF UploadsFit
  <2>4. \A d \in DOMAIN documents : \A q \in Readers :
          upload'[q] # NoUpload => documents[d].id # upload'[q].id
    BY <2>3, <1>2, <1>4 DEF UploadsFit
  <2>5. \A q \in Readers : Open(q, "insert")' => blobs[upload'[q].id] = {upload'[q].kid}
    BY <1>2, <1>4 DEF UploadsFit, Open
  <2> QED BY <1>1, <2>1, <2>2, <2>3, <2>4, <2>5 DEF UploadsFit
<1>6. RowHasBlob'
  BY <1>1 DEF RowHasBlob
<1> QED BY <1>3, <1>5, <1>6

\* Getting a key changes the key of an upload whose blob is not written.
Moves(r) ==
  /\ upload[r] # NoUpload /\ upload[r].step # "insert"
  /\ upload' = [upload EXCEPT ![r] = upload'[r]]
  /\ upload'[r] \in Work /\ upload'[r].step # "insert"
  /\ upload'[r].id = upload[r].id /\ upload'[r].image = upload[r].image
  /\ upload'[r].features = upload[r].features
  /\ UNCHANGED <<documents, blobs, uploads, paymentVars>>

\* It moves no blob.
LEMMA MovesStep ==
  ASSUME StoreInv, NEW r \in Readers, Moves(r)
  PROVE  StoreInv'
<1> USE DEF StoreInv
<1>1. UNCHANGED <<documents, blobs, uploads, payment, held>>
  BY DEF Moves, paymentVars
<1>2. PICK w \in Work : /\ w.step # "insert" /\ w.id = upload[r].id
                        /\ upload' = [upload EXCEPT ![r] = w]
  BY DEF Moves
<1>3. StoreTypeOK'
  BY <1>1, <1>2 DEF StoreTypeOK
<1>4. \A q \in Readers : upload'[q] = IF q = r THEN w ELSE upload[q]
  BY <1>2 DEF StoreTypeOK
<1>5. UploadsFit'
  BY <1>1, <1>2, <1>4 DEF UploadsFit, Open, Moves
<1>6. RowHasBlob'
  BY <1>1 DEF RowHasBlob
<1> QED BY <1>3, <1>5, <1>6

\* Minting, reading, deleting and falling back are such moves.
LEMMA KeyMoves ==
  ASSUME TypeOK, StoreTypeOK, NEW r \in Readers,
         \/ \E rounds \in [1..Rounds -> Measured] : MintForUpload(r, rounds)
         \/ ReadForUpload(r) \/ ConsumeForUpload(r) \/ FallBack(r)
  PROVE  Moves(r)
<1> MaxKeys \in Nat /\ Len(minted) \in Nat
  BY QuantumAssumption DEF TypeOK
<1>1. upload[r] # NoUpload => upload[r] \in Work
  BY DEF StoreTypeOK
<1>2. CASE \E rounds \in [1..Rounds -> Measured] : MintForUpload(r, rounds)
  <2>1. /\ Open(r, "mint") /\ Len(minted) < MaxKeys
        /\ upload' = [upload EXCEPT ![r].kid = Len(minted) + 1, ![r].step = "get"]
        /\ UNCHANGED <<documents, blobs, uploads, paymentVars>>
    BY <1>2 DEF MintForUpload, Mint
  <2>2. Len(minted) + 1 \in 0..MaxKeys
    BY <2>1
  <2> QED BY <1>1, <2>1, <2>2 DEF Open, Moves, StoreTypeOK, Work
<1>3. CASE ReadForUpload(r)
  BY <1>1, <1>3 DEF ReadForUpload, Goto, Open, Moves, StoreTypeOK, Work
<1>4. CASE ConsumeForUpload(r)
  BY <1>1, <1>4 DEF ConsumeForUpload, Goto, Open, Moves, StoreTypeOK, Work
<1>5. CASE FallBack(r)
  BY <1>1, <1>5 DEF FallBack, NoKid, Open, Moves, StoreTypeOK, Work
<1> QED BY <1>2, <1>3, <1>4, <1>5

\* No row has the number of the blob that is written.
LEMMA WriteBlobStep ==
  ASSUME StoreInv, NEW r \in Readers, WriteBlob(r)
  PROVE  StoreInv'
<1> USE DEF StoreInv
<1>1. PICK w : w = upload[r]
  OBVIOUS
<1>2. /\ UNCHANGED <<documents, uploads, payment, held>>
      /\ w # NoUpload /\ w \in Work
      /\ blobs' = [blobs EXCEPT ![w.id] = {w.kid}]
      /\ upload' = [upload EXCEPT ![r].step = "insert"]
  BY <1>1 DEF WriteBlob, Open, Goto, paymentVars, StoreTypeOK
<1>3. PICK x \in Work : /\ upload' = [upload EXCEPT ![r] = x]
                        /\ x.id = w.id /\ x.kid = w.kid
  <2>1. [w EXCEPT !.step = "insert"] \in Work
    BY <1>2 DEF Work
  <2>2. upload' = [upload EXCEPT ![r] = [w EXCEPT !.step = "insert"]]
    BY <1>1, <1>2
  <2> QED BY <1>2, <2>1, <2>2 DEF Work
<1>4. w.id \in Uploads /\ w.kid \in 0..MaxKeys
  BY <1>2 DEF Work
<1>5. StoreTypeOK'
  BY <1>2, <1>3, <1>4 DEF StoreTypeOK
<1>6. \A q \in Readers : upload'[q] = IF q = r THEN x ELSE upload[q]
  BY <1>3 DEF StoreTypeOK
<1>7. \A u \in Uploads : blobs'[u] = IF u = w.id THEN {w.kid} ELSE blobs[u]
  BY <1>2 DEF StoreTypeOK
<1>8. UploadsFit'
  <2>1. \A q \in Readers : /\ upload'[q] # NoUpload => upload[q] # NoUpload
                           /\ upload'[q] # NoUpload => upload'[q].id = upload[q].id
    BY <1>1, <1>2, <1>3, <1>6
  <2>2. ASSUME NEW q \in Readers, Open(q, "insert")'
        PROVE  blobs'[upload'[q].id] = {upload'[q].kid}
    <3>1. CASE q = r
      BY <3>1, <1>3, <1>4, <1>6, <1>7
    <3>2. CASE q # r
      <4>1. Open(q, "insert") /\ upload'[q] = upload[q] /\ upload[q].id # w.id
        BY <3>2, <2>2, <1>1, <1>2, <1>6 DEF Open, UploadsFit
      <4>2. upload[q].id \in Uploads
        BY <4>1 DEF Open, StoreTypeOK, Work
      <4> QED BY <4>1, <4>2, <1>7 DEF UploadsFit
    <3> QED BY <3>1, <3>2
  <2> QED BY <1>2, <2>1, <2>2 DEF UploadsFit
<1>9. RowHasBlob'
  <2> SUFFICES ASSUME NEW d \in DOMAIN documents PROVE blobs'[documents[d].id] = {documents[d].kid}
    BY <1>2 DEF RowHasBlob
  <2>1. documents[d].id \in Uploads
    BY RowsAreRows DEF Row
  <2>2. documents[d].id # w.id
    BY <1>1, <1>2 DEF UploadsFit
  <2> QED BY <2>1, <2>2, <1>7 DEF RowHasBlob
<1> QED BY <1>5, <1>8, <1>9

\* The row takes the number and the key of a blob that is there.
LEMMA InsertStep ==
  ASSUME StoreInv, NEW r \in Readers, InsertDocument(r)
  PROVE  StoreInv'
<1> USE DEF StoreInv
<1> MaxDocuments \in Nat
  BY DocumentsAssumption
<1>1. PICK w : w = upload[r]
  OBVIOUS
<1> DEFINE row == [id |-> w.id, image |-> w.image, kid |-> w.kid,
                   status |-> Status(w.features), reasons |-> Reasons(w.features)]
<1>2. /\ UNCHANGED <<blobs, uploads, payment, held>>
      /\ Open(r, "insert") /\ w # NoUpload /\ w \in Work /\ blobs[w.id] = {w.kid}
      /\ Len(documents) < MaxDocuments
      /\ documents' = Append(documents, row) /\ upload' = [upload EXCEPT ![r] = NoUpload]
  BY <1>1 DEF InsertDocument, BlobStored, Open, paymentVars, StoreTypeOK, UploadsFit
<1>3. row \in Row /\ row.id = w.id /\ row.kid = w.kid
  BY <1>2, Verdict DEF Work, Row
<1> HIDE DEF row
<1>4. /\ documents \in Seq(Row) /\ Len(documents) \in Nat /\ DOMAIN documents = 1..Len(documents)
      /\ documents' \in Seq(Row) /\ Len(documents') = Len(documents) + 1
      /\ DOMAIN documents' = 1..(Len(documents) + 1)
      /\ documents'[Len(documents) + 1] = row
      /\ \A d \in DOMAIN documents : documents'[d] = documents[d]
  BY <1>2, <1>3 DEF StoreTypeOK
<1>5. StoreTypeOK'
  <2>1. held' \subseteq DOMAIN documents'
    BY <1>2, <1>4 DEF StoreTypeOK
  <2>2. upload' \in [Readers -> Work \cup {NoUpload}]
    BY <1>2 DEF StoreTypeOK
  <2> QED BY <1>2, <1>4, <2>1, <2>2 DEF StoreTypeOK
<1>6. \A q \in Readers : upload'[q] = IF q = r THEN NoUpload ELSE upload[q]
  BY <1>2 DEF StoreTypeOK
<1>7. ASSUME NEW d \in DOMAIN documents'
      PROVE  \/ d \in DOMAIN documents /\ documents'[d] = documents[d]
             \/ documents'[d] = row
  BY <1>4
<1>8. UploadsFit'
  <2>1. w.id \in 1..uploads
    BY <1>1, <1>2 DEF UploadsFit
  <2>2. \A d \in DOMAIN documents' : documents'[d].id \in 1..uploads
    BY <1>3, <1>7, <2>1 DEF UploadsFit
  <2>3. \A d \in DOMAIN documents' : \A q \in Readers :
          upload'[q] # NoUpload => documents'[d].id # upload'[q].id
    <3> SUFFICES ASSUME NEW d \in DOMAIN documents', NEW q \in Readers, upload'[q] # NoUpload
                 PROVE  documents'[d].id # upload'[q].id
      OBVIOUS
    <3>1. q # r /\ upload'[q] = upload[q] /\ upload[q].id # w.id
      BY <1>1, <1>2, <1>6 DEF UploadsFit
    <3> QED BY <3>1, <1>3, <1>7 DEF UploadsFit
  <2>4. \A q \in Readers : Open(q, "insert")' => blobs[upload'[q].id] = {upload'[q].kid}
    BY <1>6 DEF UploadsFit, Open
  <2>5. /\ \A q \in Readers : upload'[q] # NoUpload => upload'[q].id \in 1..uploads
        /\ \A q, p \in Readers : upload'[q] # NoUpload /\ upload'[p] # NoUpload /\ q # p
                                   => upload'[q].id # upload'[p].id
    BY <1>6 DEF UploadsFit
  <2> QED BY <1>2, <2>2, <2>3, <2>4, <2>5 DEF UploadsFit
<1>9. RowHasBlob'
  <2> SUFFICES ASSUME NEW d \in DOMAIN documents'
               PROVE  blobs[documents'[d].id] = {documents'[d].kid}
    BY <1>2 DEF RowHasBlob
  <2> QED BY <1>2, <1>3, <1>7 DEF RowHasBlob
<1> QED BY <1>5, <1>8, <1>9

\* What is aborted leaves at most a blob without a row.
LEMMA AbortStep ==
  ASSUME StoreInv, NEW r \in Readers, upload' = [upload EXCEPT ![r] = NoUpload],
         UNCHANGED <<documents, blobs, uploads, paymentVars>>
  PROVE  StoreInv'
<1> USE DEF StoreInv
<1>1. UNCHANGED <<documents, blobs, uploads, payment, held>>
  BY DEF paymentVars
<1>2. StoreTypeOK'
  BY <1>1 DEF StoreTypeOK
<1>3. \A q \in Readers : upload'[q] = IF q = r THEN NoUpload ELSE upload[q]
  BY DEF StoreTypeOK
<1>4. UploadsFit'
  BY <1>1, <1>3 DEF UploadsFit, Open
<1>5. RowHasBlob'
  BY <1>1 DEF RowHasBlob
<1> QED BY <1>2, <1>4, <1>5

\* Payments leave the store alone.
LEMMA PaymentStep ==
  ASSUME StoreInv, NEW d \in DOMAIN documents, CreateTransaction(d) \/ DecideHold(d)
  PROVE  StoreInv'
<1> USE DEF StoreInv
<1>1. UNCHANGED <<documents, blobs, upload, uploads>>
  BY DEF CreateTransaction, DecideHold, storeVars
<1>2. /\ held' \subseteq held \cup {d}
      /\ payment' \in [1..MaxDocuments -> {"none", "executed", "released"}]
  BY DEF CreateTransaction, DecideHold, StoreTypeOK
<1>3. StoreTypeOK'
  BY <1>1, <1>2 DEF StoreTypeOK
<1>4. UploadsFit' /\ RowHasBlob'
  BY <1>1 DEF UploadsFit, Open, RowHasBlob
<1> QED BY <1>3, <1>4

LEMMA StoreElsewhere ==
  ASSUME StoreInv, UNCHANGED <<storeVars, paymentVars>>
  PROVE  StoreInv'
  BY DEF StoreInv, StoreTypeOK, UploadsFit, Open, RowHasBlob, storeVars, paymentVars

LEMMA StoreInitially ==
  ASSUME DocumentsInit
  PROVE  StoreInv
<1> MaxDocuments \in Nat /\ UploadFaults \in Nat /\ MaxKeys \in Nat
  BY DocumentsAssumption, QuantumAssumption
<1>1. documents \in Seq(Row) /\ Len(documents) = 0 /\ DOMAIN documents = {}
  BY DEF DocumentsInit
<1>2. StoreTypeOK
  BY <1>1 DEF DocumentsInit, StoreTypeOK
<1>3. UploadsFit /\ RowHasBlob
  BY <1>1 DEF DocumentsInit, UploadsFit, Open, RowHasBlob
<1> QED BY <1>2, <1>3 DEF StoreInv

-----------------------------------------------------------------------------
(* The whole.                                                              *)

\* What a step is to the store.
StoreCases ==
  \/ \E r \in Readers, image \in Images, f \in Analyses : Analyse(r, image, f)
  \/ \E r \in Readers : Moves(r)
  \/ \E r \in Readers : WriteBlob(r)
  \/ \E r \in Readers : InsertDocument(r)
  \/ \E r \in Readers : /\ upload' = [upload EXCEPT ![r] = NoUpload]
                        /\ UNCHANGED <<documents, blobs, uploads, paymentVars>>
  \/ \E d \in DOMAIN documents : CreateTransaction(d) \/ DecideHold(d)
  \/ UNCHANGED <<storeVars, paymentVars>>

LEMMA EveryStoreStep ==
  ASSUME TypeOK, StoreTypeOK, [DocumentsNext]_allVars
  PROVE  StoreCases
<1>1. CASE UNCHANGED allVars
  BY <1>1 DEF allVars, StoreCases
<1>2. CASE Next /\ UNCHANGED <<storeVars, paymentVars>>
  BY <1>2 DEF StoreCases
<1>3. CASE KeyServiceNext /\ UNCHANGED <<storeVars, paymentVars>>
  BY <1>3 DEF StoreCases
<1>4. CASE \E d \in DOMAIN documents : CreateTransaction(d) \/ DecideHold(d)
  BY <1>4 DEF StoreCases
<1>5. ASSUME NEW r \in Readers, UploadNext(r) PROVE StoreCases
  <2>1. CASE \/ \E rounds \in [1..Rounds -> Measured] : MintForUpload(r, rounds)
             \/ ReadForUpload(r) \/ ConsumeForUpload(r) \/ FallBack(r)
    <3>1. Moves(r)
      BY <2>1, KeyMoves
    <3> QED BY <3>1 DEF StoreCases
  <2>2. CASE \E image \in Images, f \in Analyses : Analyse(r, image, f)
    BY <2>2 DEF StoreCases
  <2>3. CASE WriteBlob(r)
    BY <2>3 DEF StoreCases
  <2>4. CASE InsertDocument(r)
    BY <2>4 DEF StoreCases
  <2>5. CASE Abort(r)
    BY <2>5 DEF Abort, StoreCases
  <2> QED BY <1>5, <2>1, <2>2, <2>3, <2>4, <2>5 DEF UploadNext
<1> QED BY <1>1, <1>2, <1>3, <1>4, <1>5 DEF DocumentsNext

LEMMA KeyServiceStep ==
  ASSUME KeysInv, Next \/ KeyServiceNext
  PROVE  KeysInv'
<1>1. CASE GeneratorNext
  BY <1>1, GeneratorStep DEF GeneratorNext
<1>2. CASE KeyNext
  BY <1>2, MintStep, GetStep, ConsumeStep, DieStep, ExpireStep DEF KeyNext
<1>3. CASE KeyServiceNext
  BY <1>3, ConsumeStep, DieStep, ExpireStep DEF KeyServiceNext
<1> QED BY <1>1, <1>2, <1>3 DEF Next

LEMMA EveryKeyStep ==
  ASSUME KeysInv, StoreInv, [DocumentsNext]_allVars
  PROVE  KeysInv'
<1> MaxFaults \in Nat /\ faults \in 0..MaxFaults
  BY QuantumAssumption DEF KeysInv, TypeOK
<1>1. CASE UNCHANGED vars
  BY <1>1, ElsewhereStep DEF vars
<1>2. CASE Next \/ KeyServiceNext
  BY <1>2, KeyServiceStep
<1>3. CASE \E d \in DOMAIN documents : CreateTransaction(d) \/ DecideHold(d)
  <2>1. UNCHANGED vars
    BY <1>3 DEF CreateTransaction, DecideHold
  <2> QED BY <1>1, <2>1
<1>4. ASSUME NEW r \in Readers, UploadNext(r) PROVE KeysInv'
  <2>1. CASE \E rounds \in [1..Rounds -> Measured] : MintForUpload(r, rounds)
    BY <2>1, MintStep DEF MintForUpload
  <2>2. CASE ReadForUpload(r)
    <3>1. PICK k : k = upload[r].kid
      OBVIOUS
    <3>2. Get(r, k)
      BY <2>2, <3>1 DEF ReadForUpload
    <3>3. k \in Keys
      BY <3>2, MintedAreKeys DEF Get, KeysInv
    <3> QED BY <3>2, <3>3, GetStep
  <2>3. CASE ConsumeForUpload(r)
    BY <2>3, ConsumeStep DEF ConsumeForUpload
  <2>4. CASE Abort(r)
    <3>1. UNCHANGED <<generatorVars, keyVars>> /\ faults' \in 0..MaxFaults
      BY <2>4 DEF Abort
    <3> QED BY <3>1, ElsewhereStep
  <2>5. CASE \/ \E image \in Images, f \in Analyses : Analyse(r, image, f)
             \/ FallBack(r) \/ WriteBlob(r) \/ InsertDocument(r)
    <3>1. UNCHANGED vars
      BY <2>5 DEF Analyse, FallBack, WriteBlob, InsertDocument
    <3> QED BY <1>1, <3>1
  <2> QED BY <1>4, <2>1, <2>2, <2>3, <2>4, <2>5 DEF UploadNext
<1> QED BY <1>1, <1>2, <1>3, <1>4 DEF DocumentsNext, allVars

LEMMA EveryStep ==
  ASSUME KeysInv, StoreInv, [DocumentsNext]_allVars
  PROVE  KeysInv' /\ StoreInv'
<1>1. StoreCases
  BY EveryStoreStep DEF KeysInv, StoreInv
<1>2. StoreInv'
  BY <1>1, AnalyseStep, MovesStep, WriteBlobStep, InsertStep, AbortStep, PaymentStep,
     StoreElsewhere DEF StoreCases
<1> QED BY <1>2, EveryKeyStep

LEMMA DocumentsInvariant == DocumentsSpec => [](KeysInv /\ StoreInv)
<1>1. DocumentsInit => KeysInv /\ StoreInv
  BY KeysInitially, StoreInitially DEF DocumentsInit
<1>2. (KeysInv /\ StoreInv) /\ [DocumentsNext]_allVars => (KeysInv /\ StoreInv)'
  BY EveryStep
<1> QED BY <1>1, <1>2, PTL DEF DocumentsSpec

\* However uploads, readers of keys, expiries, crashes and payments interleave, every
\* variable of store and key service keeps its type.
THEOREM DocumentsTypes == DocumentsSpec => []DocumentsTypeOK
<1>1. KeysInv /\ StoreInv => DocumentsTypeOK
  BY DEF KeysInv, StoreInv, DocumentsTypeOK
<1> QED BY <1>1, DocumentsInvariant, PTL

\* The row of a document names the key its blob is under: the blob is written first,
\* under a number no other upload has, and an upload that fails leaves no row.
THEOREM RowsCanBeShown == DocumentsSpec => []RowHasBlob
<1>1. StoreInv => RowHasBlob
  BY DEF StoreInv
<1> QED BY <1>1, DocumentsInvariant, PTL

\* The shots of a refill suffice on every backend, and every key stands on clean
\* rounds with enough bits left.
THEOREM NothingComesShort == DocumentsSpec => []NothingIsShort
<1>1. KeysInv => NothingIsShort
  BY KeysProperties
<1> QED BY <1>1, DocumentsInvariant, PTL

\* For any number of readers and keys, answers with a key beyond the first are owed
\* to overlapping reads and failed deletes.
THEOREM KeysAreReadOnce == DocumentsSpec => []KeyIsReadOnce
<1>1. KeysInv => KeyIsReadOnce
  BY KeysProperties
<1> QED BY <1>1, DocumentsInvariant, PTL

-----------------------------------------------------------------------------
(* Copies.                                                                 *)

\* One process works on one upload.
OneAtATime ==
  \A r, q \in Readers : upload[r] # NoUpload /\ upload[q] # NoUpload => r = q

\* So no row comes between the search for copies and the row of the upload.
SearchIsFresh ==
  \A r \in Readers : upload[r] # NoUpload =>
    \A e \in DOMAIN documents :
      e > Len(documents) - SearchLimit /\ Copies(documents[e].image, upload[r].image)
        => upload[r].features.duplicate = 2

CopiesAreMarked ==
  \A d \in DOMAIN documents : \A e \in 1..(d - 1) :
    e >= d - SearchLimit /\ Copies(documents[e].image, documents[d].image)
      => "duplicate_document" \in documents[d].reasons

MarkedWait ==
  /\ \A d \in DOMAIN documents :
       "duplicate_document" \in documents[d].reasons => payment[d] # "executed"
  /\ \A d \in 1..MaxDocuments : d > Len(documents) => payment[d] = "none"

CopyInv == OneAtATime /\ SearchIsFresh /\ CopiesAreMarked /\ MarkedWait

\* The search finds a document if there is one to find.
LEMMA NearestFinds ==
  ASSUME StoreTypeOK, NEW image \in Images, NEW near, near \subseteq DOMAIN documents, near # {}
  PROVE  Nearest(near, image) # 0
<1> DEFINE dist(d) == Distance[<<documents[d].image, image>>]
           T == {dist(d) : d \in near}
           best == {d \in near : \A e \in near : dist(d) <= dist(e)}
           n == Len(documents)
<1>1. \A d \in DOMAIN documents : dist(d) \in Nat
  BY DocumentsAssumption, RowsAreRows DEF Row
<1>2. n \in Nat /\ DOMAIN documents = 1..n
  BY DEF StoreTypeOK
<1>3. T \subseteq Nat /\ T # {}
  BY <1>1
<1>4. Min(T) \in T /\ \A y \in T : Min(T) <= y
  BY <1>3, LeastOf
<1>5. PICK d \in near : Min(T) = dist(d)
  BY <1>4
<1>6. d \in best /\ d \in 1..n
  BY <1>2, <1>4, <1>5
<1>7. best \subseteq 1..n
  BY <1>2
<1> HIDE DEF best
<1>8. {0} \cup best \subseteq 0..n
  BY <1>2, <1>7
<1> DEFINE B == {0} \cup best
<1>9. d \in B /\ B # {}
  BY <1>6
<1>10. Max(B) \in B /\ \A y \in B : Max(B) >= y
  <2> HIDE DEF B
  <2> QED BY <1>2, <1>8, <1>9, GreatestOf DEF B
<1>11. Max(B) # 0
  <2> HIDE DEF B
  <2> QED BY <1>6, <1>9, <1>10
<1> QED BY <1>11 DEF Nearest, best

LEMMA CopyAnalyse ==
  ASSUME Processes = 1, StoreInv, CopyInv,
         NEW r \in Readers, NEW image \in Images, NEW f \in Analyses, Analyse(r, image, f)
  PROVE  CopyInv'
<1> USE DEF StoreInv, CopyInv
<1> DEFINE near == Nearest(Candidates(image), image)
           v == WithDuplicate(f, near)
           w == upload'[r]
           open == {q \in Readers : upload[q] # NoUpload}
<1>1. UNCHANGED <<documents, payment>>
  BY DEF Analyse, paymentVars
<1>2. w.image = image /\ w.features = v
  BY DEF Analyse, StoreTypeOK
<1>3. open = {}
  <2>1. Cardinality(open) < 1
    BY DEF Analyse
  <2> SUFFICES ASSUME NEW q \in open PROVE FALSE
    OBVIOUS
  <2>2. open = {q}
    BY DEF OneAtATime
  <2>3. Cardinality(open) = 1
    BY <2>2, FS_Singleton
  <2> QED BY <2>1, <2>3
<1>4. \A q \in Readers : q # r => upload'[q] = NoUpload
  BY <1>3 DEF Analyse, StoreTypeOK
<1>5. OneAtATime'
  BY <1>4 DEF OneAtATime
<1>6. SearchIsFresh'
  <2> SUFFICES ASSUME NEW e \in DOMAIN documents, e > Len(documents) - SearchLimit,
                      Copies(documents[e].image, image)
               PROVE  v.duplicate = 2
    BY <1>1, <1>2, <1>4 DEF SearchIsFresh
  <2>1. Candidates(image) \subseteq DOMAIN documents /\ e \in Candidates(image)
    BY DEF Candidates
  <2>2. near # 0
    BY <2>1, NearestFinds
  <2> HIDE DEF near
  <2>3. v.duplicate = IF near = 0 THEN 0 ELSE 2
    BY DocumentsAssumption, JudgedFeatures
  <2> QED BY <2>2, <2>3
<1>7. CopiesAreMarked' /\ MarkedWait'
  BY <1>1 DEF CopiesAreMarked, MarkedWait
<1> QED BY <1>5, <1>6, <1>7

LEMMA CopyInsert ==
  ASSUME StoreInv, CopyInv, NEW r \in Readers, InsertDocument(r)
  PROVE  CopyInv'
<1> USE DEF StoreInv, CopyInv
<1> MaxDocuments \in Nat /\ SearchLimit \in Nat
  BY DocumentsAssumption
<1>1. PICK w : w = upload[r]
  OBVIOUS
<1>2. PICK n : n = Len(documents) + 1
  OBVIOUS
<1> DEFINE row == [id |-> w.id, image |-> w.image, kid |-> w.kid,
                   status |-> Status(w.features), reasons |-> Reasons(w.features)]
<1>3. /\ UNCHANGED payment /\ w # NoUpload /\ w \in Work /\ n <= MaxDocuments
      /\ documents' = Append(documents, row) /\ upload' = [upload EXCEPT ![r] = NoUpload]
  BY <1>1, <1>2 DEF InsertDocument, Open, BlobStored, paymentVars, StoreTypeOK
<1>4. row.image = w.image /\ row.reasons = Reasons(w.features) /\ row \in Row
  BY <1>3, Verdict DEF Work, Row
<1> HIDE DEF row
<1>5. /\ Len(documents) \in Nat /\ DOMAIN documents = 1..(n - 1) /\ n \in Nat \ {0}
      /\ Len(documents') = n /\ DOMAIN documents' = 1..n /\ documents'[n] = row
      /\ \A d \in 1..(n - 1) : documents'[d] = documents[d]
  BY <1>2, <1>3, <1>4 DEF StoreTypeOK
<1>6. \A q \in Readers : upload'[q] = NoUpload
  BY <1>1, <1>3 DEF OneAtATime, StoreTypeOK
<1>7. OneAtATime' /\ SearchIsFresh'
  BY <1>6 DEF OneAtATime, SearchIsFresh
<1>8. ASSUME NEW e \in 1..(n - 1), e >= n - SearchLimit, Copies(documents[e].image, w.image)
      PROVE  "duplicate_document" \in row.reasons
  <2>1. e > Len(documents) - SearchLimit
    BY <1>2, <1>5, <1>8
  <2>2. w.features.duplicate = 2
    BY <2>1, <1>1, <1>3, <1>5, <1>8 DEF SearchIsFresh
  <2> QED BY <2>2, <1>4 DEF Reasons, Findings
<1>9. CopiesAreMarked'
  <2> SUFFICES ASSUME NEW d \in 1..n, NEW e \in 1..(d - 1), e >= d - SearchLimit,
                      Copies(documents'[e].image, documents'[d].image)
               PROVE  "duplicate_document" \in documents'[d].reasons
    BY <1>5 DEF CopiesAreMarked
  <2>1. e \in 1..(n - 1) /\ documents'[e] = documents[e]
    BY <1>5
  <2>2. CASE d = n
    BY <2>1, <2>2, <1>4, <1>5, <1>8
  <2>3. CASE d # n
    <3>1. d \in 1..(n - 1) /\ documents'[d] = documents[d]
      BY <2>3, <1>5
    <3> QED BY <2>1, <3>1, <1>5 DEF CopiesAreMarked
  <2> QED BY <2>2, <2>3
<1>10. MarkedWait'
  <2>1. payment[n] = "none"
    BY <1>2, <1>3, <1>5 DEF MarkedWait
  <2>2. \A d \in 1..n : "duplicate_document" \in documents'[d].reasons => payment[d] # "executed"
    <3> SUFFICES ASSUME NEW d \in 1..n, "duplicate_document" \in documents'[d].reasons
                 PROVE  payment[d] # "executed"
      OBVIOUS
    <3>1. d = n \/ (d \in 1..(n - 1) /\ documents'[d] = documents[d])
      BY <1>5
    <3> QED BY <3>1, <2>1, <1>5 DEF MarkedWait
  <2>3. \A d \in 1..MaxDocuments : d > n => payment[d] = "none"
    BY <1>2, <1>5 DEF MarkedWait
  <2> QED BY <2>2, <2>3, <1>3, <1>5 DEF MarkedWait
<1> QED BY <1>7, <1>9, <1>10

\* The hold decision, in the other service, goes by the reason the verdict gave.
LEMMA CopyPayment ==
  ASSUME StoreInv, CopyInv, NEW d \in DOMAIN documents, CreateTransaction(d) \/ DecideHold(d)
  PROVE  CopyInv'
<1> USE DEF StoreInv, CopyInv
<1>1. UNCHANGED <<documents, upload>>
  BY DEF CreateTransaction, DecideHold, storeVars
<1>2. OneAtATime' /\ SearchIsFresh' /\ CopiesAreMarked'
  BY <1>1 DEF OneAtATime, SearchIsFresh, CopiesAreMarked
<1>3. \/ payment' = payment
      \/ payment' = [payment EXCEPT ![d] = "released"]
      \/ /\ payment' = [payment EXCEPT ![d] = "executed"]
         /\ "duplicate_document" \notin documents[d].reasons
  BY DEF CreateTransaction, DecideHold, HoldDecision
<1>4. Len(documents) \in Nat /\ DOMAIN documents = 1..Len(documents) /\ d <= Len(documents)
  <2>1. documents \in Seq(Row)
    BY DEF StoreTypeOK
  <2> QED BY <2>1
<1>5. /\ \A x \in 1..MaxDocuments : x # d => payment'[x] = payment[x]
      /\ \/ payment'[d] \in {payment[d], "released"}
         \/ "duplicate_document" \notin documents[d].reasons
      /\ DOMAIN documents \subseteq 1..MaxDocuments /\ MaxDocuments \in Nat
  BY <1>3, <1>4, DocumentsAssumption DEF StoreTypeOK
<1>6. MarkedWait'
  BY <1>1, <1>4, <1>5 DEF MarkedWait
<1> QED BY <1>2, <1>6

LEMMA CopyMoves ==
  ASSUME StoreInv, CopyInv, NEW r \in Readers,
         \/ Moves(r)
         \/ WriteBlob(r)
         \/ /\ upload' = [upload EXCEPT ![r] = NoUpload]
            /\ UNCHANGED <<documents, blobs, uploads, paymentVars>>
  PROVE  CopyInv'
<1> USE DEF StoreInv, CopyInv
<1>1. UNCHANGED <<documents, payment>>
  BY DEF Moves, WriteBlob, paymentVars
<1>2. \A q \in Readers :
        upload'[q] # NoUpload => /\ upload[q] # NoUpload
                                 /\ upload'[q].image = upload[q].image
                                 /\ upload'[q].features = upload[q].features
  <2>1. CASE Moves(r)
    BY <2>1 DEF Moves, StoreTypeOK
  <2>2. CASE WriteBlob(r)
    BY <2>2 DEF WriteBlob, Goto, Open, StoreTypeOK, Work
  <2>3. CASE upload' = [upload EXCEPT ![r] = NoUpload]
    BY <2>3 DEF StoreTypeOK
  <2> QED BY <2>1, <2>2, <2>3
<1>3. OneAtATime' /\ SearchIsFresh'
  BY <1>1, <1>2 DEF OneAtATime, SearchIsFresh
<1>4. CopiesAreMarked' /\ MarkedWait'
  BY <1>1 DEF CopiesAreMarked, MarkedWait
<1> QED BY <1>3, <1>4

LEMMA CopyStep ==
  ASSUME Processes = 1, StoreInv, CopyInv, StoreCases
  PROVE  CopyInv'
<1>1. CASE UNCHANGED <<storeVars, paymentVars>>
  BY <1>1 DEF CopyInv, OneAtATime, SearchIsFresh, CopiesAreMarked, MarkedWait, storeVars, paymentVars
<1> QED BY <1>1, CopyAnalyse, CopyInsert, CopyPayment, CopyMoves DEF StoreCases

\* With the one process the image of the service starts, a copy of one of the latest
\* documents is never paid unless staff release it.  With more, two copies analysed at
\* once would not see each other.
THEOREM CopiesNeedRelease == ASSUME Processes = 1 PROVE DocumentsSpec => []CopyNeedsRelease
<1> DEFINE I == KeysInv /\ StoreInv /\ CopyInv
<1>1. DocumentsInit => I
  <2> SUFFICES ASSUME DocumentsInit PROVE CopyInv
    BY KeysInitially, StoreInitially DEF DocumentsInit
  <2>1. documents = <<>> /\ DOMAIN documents = {} /\ Len(documents) = 0
    BY DEF DocumentsInit
  <2>2. \A r \in Readers : upload[r] = NoUpload
    BY DEF DocumentsInit
  <2>3. \A d \in 1..MaxDocuments : payment[d] = "none"
    BY DEF DocumentsInit
  <2> QED BY <2>1, <2>2, <2>3
          DEF CopyInv, OneAtATime, SearchIsFresh, CopiesAreMarked, MarkedWait
<1>2. I /\ [DocumentsNext]_allVars => I'
  <2> SUFFICES ASSUME I, [DocumentsNext]_allVars PROVE I'
    OBVIOUS
  <2>1. StoreCases
    BY EveryStoreStep DEF KeysInv, StoreInv
  <2>2. CopyInv'
    BY <2>1, CopyStep
  <2> QED BY <2>2, EveryStep
<1>3. I => CopyNeedsRelease
  <2> SUFFICES ASSUME I, NEW d \in DOMAIN documents, NEW e \in 1..(d - 1),
                      e >= d - SearchLimit, Copies(documents[e].image, documents[d].image)
               PROVE  payment[d] # "executed"
    BY DEF CopyNeedsRelease
  <2> QED BY DEF CopyInv, CopiesAreMarked, MarkedWait
<1> QED BY <1>1, <1>2, <1>3, PTL DEF DocumentsSpec

=============================================================================
