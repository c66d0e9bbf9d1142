---------------------------- MODULE QuantumKeys ----------------------------
(***************************************************************************)
(* services/quantum-service and services/kms-service: the buffer of the    *)
(* random number generator, BB84 sessions, and the keys made from them,    *)
(* which Redis holds until they are read or expire.                        *)
(*                                                                         *)
(* Bits are left out: a BB84 round is known by how many bits were sifted   *)
(* and how many sampled ones were wrong, a byte of the generator by where  *)
(* it came from.  The generator works under a lock, so one of its calls is *)
(* one step; a read of a key is two, GET and DEL.                          *)
(*                                                                         *)
(* An operator marked "Mutant" is the definition below it with a plausible *)
(* bug; no specification uses it.                                          *)
(***************************************************************************)
EXTENDS Integers, Sequences, SequencesExt, FiniteSetsExt

CONSTANTS
  Backend,      \* QUANTUM_BACKEND: "simulator" or "ibm"
  BufferBytes,  \* QRNG_BUFFER_BYTES
  Chunk,        \* bytes one shot yields, for each quantum source
  MinShots,     \* least number of shots in a refill, for each quantum source
  MaxBytes,     \* largest request for random bytes
  Qubits, Rounds, MinSample, Threshold, \* BB84; the threshold in percent
  KeyBits,      \* length of a minted key
  Readers,      \* slots for reads of keys in flight
  NoTask,
  MaxKeys,      \* bound: keys ever minted
  MaxFaults     \* bound: errors of a backend or of Redis, crashes, expiries

Sources == {"quantum", "quantum-ibm", "fallback"}

ASSUME QuantumAssumption ==
  /\ Backend \in {"simulator", "ibm"}
  /\ BufferBytes \in Nat \ {0} /\ MaxBytes \in Nat \ {0}
  /\ Chunk \in [Sources \ {"fallback"} -> Nat \ {0}]
  /\ MinShots \in [Sources \ {"fallback"} -> Nat \ {0}]
  /\ Qubits \in Nat /\ Rounds \in Nat \ {0} /\ MinSample \in Nat /\ KeyBits \in Nat \ {0}
  /\ Threshold \in 0..100
  /\ MaxKeys \in Nat /\ MaxFaults \in Nat
  /\ NoTask \notin 1..MaxKeys

VARIABLES
  buffer,    \* the generator's bytes, each as its source
  answer,    \* its last answer
  minted,    \* the BB84 rounds behind each minted key
  stored,    \* keys that are in Redis
  task,      \* the key each reader has got and not deleted yet
  delivered, \* [key -> answers that carried it]
  excused,   \* history: [key -> further answers owed to overlapping reads and failed DELs]
  lost,      \* history: keys never stored, expired, or deleted by a read that died
  faults     \* counter behind the bound

generatorVars == <<buffer, answer>>
keyVars == <<minted, stored, task, delivered, excused, lost>>
vars == <<generatorVars, keyVars, faults>>

Keys == 1..MaxKeys

-----------------------------------------------------------------------------
(* The random number generator.                                            *)

\* Where a refill turns to, one after the other: hardware, if configured, the
\* simulator, secrets.
Attempts == IF Backend = "ibm" THEN <<"quantum-ibm", "quantum", "fallback">>
                               ELSE <<"quantum", "fallback">>

Primary == Attempts[1]

\* Mutant.
ShotsRoundedDown(s, target) == Max({MinShots[s], target \div Chunk[s]})

Shots(s, target) == Max({MinShots[s], target \div Chunk[s] + 1})

Yield(s, target) == IF s = "fallback" THEN target ELSE Shots(s, target) * Chunk[s]

\* _refill, answered by source s.
Refill(s, target) == buffer \o [i \in 1..Yield(s, target) |-> s]

Serve(bytes, n, source) ==
  LET taken == Min({n, Len(bytes)})
  IN  /\ answer' = [bytes |-> SubSeq(bytes, 1, taken), source |-> source, asked |-> n]
      /\ buffer' = SubSeq(bytes, taken + 1, Len(bytes))

\* QRNG.bytes: a call that finds enough in the buffer names the primary source.
Random(n) ==
  /\ IF Len(buffer) < n
     THEN \E i \in DOMAIN Attempts :
            /\ faults + i - 1 <= MaxFaults  \* the attempts before i failed
            /\ faults' = faults + i - 1
            /\ Serve(Refill(Attempts[i], Max({n, BufferBytes})), n, Attempts[i])
     ELSE Serve(buffer, n, Primary) /\ UNCHANGED faults
  /\ UNCHANGED keyVars

-----------------------------------------------------------------------------
(* BB84.                                                                   *)

Sampled(sifted) == Min({sifted, Max({MinSample, sifted \div 4})})

\* What a round can measure on the simulator, without an eavesdropper as the
\* key service asks for it: no error.
Measured == [sifted : 0..Qubits, errors : {0}]

Keep(m) == m.sifted - Sampled(m.sifted)

AcceptedRound(m) == m.sifted > 0 /\ m.errors * 100 <= Threshold * Sampled(m.sifted)

Accepted(rounds) == \A i \in DOMAIN rounds : AcceptedRound(rounds[i])

\* The rounds vote bit by bit, up to the shortest.
KeyLength(rounds) == Min({Keep(rounds[i]) : i \in DOMAIN rounds})

-----------------------------------------------------------------------------
(* The key management service.                                             *)

\* The entries GET looks at that setEx writes for key k.
Entry(k) == {k}

\* POST /kms/keys, when BB84 gave enough; otherwise nothing changes.  An error of
\* Redis is swallowed and the key is answered all the same.
Mint(rounds) ==
  /\ Len(minted) < MaxKeys
  /\ Accepted(rounds) /\ KeyLength(rounds) >= KeyBits
  /\ minted' = Append(minted, rounds)
  /\ LET k == Len(minted) + 1
     IN  \/ /\ stored' = stored \cup Entry(k)
            /\ UNCHANGED <<lost, faults>>
         \/ /\ faults < MaxFaults
            /\ faults' = faults + 1
            /\ lost' = lost \cup {k}
            /\ UNCHANGED stored
  /\ UNCHANGED <<generatorVars, task, delivered, excused>>

\* cache.get finds the key; readers between GET and DEL see it too.
Get(r, k) ==
  /\ task[r] = NoTask
  /\ k \in stored
  /\ task' = [task EXCEPT ![r] = k]
  /\ excused' = IF \E q \in Readers : task[q] = k THEN [excused EXCEPT ![k] = @ + 1] ELSE excused
  /\ UNCHANGED <<generatorVars, minted, stored, delivered, lost, faults>>

\* Mutant.
NothingDeleted(r) == {}

Deleted(r) == {task[r]}

\* cache.del, whose error is swallowed, and the answer.
Consume(r) ==
  /\ task[r] # NoTask
  /\ \/ /\ stored' = stored \ Deleted(r)
        /\ UNCHANGED <<excused, faults>>
     \/ /\ faults < MaxFaults
        /\ faults' = faults + 1
        /\ excused' = [excused EXCEPT ![task[r]] = @ + 1]
        /\ UNCHANGED stored
  /\ delivered' = [delivered EXCEPT ![task[r]] = @ + 1]
  /\ task' = [task EXCEPT ![r] = NoTask]
  /\ UNCHANGED <<generatorVars, minted, lost>>

\* The service dies before or after the DEL, without an answer.
Die(r) ==
  /\ task[r] # NoTask
  /\ faults < MaxFaults
  /\ faults' = faults + 1
  /\ \/ UNCHANGED <<stored, lost>>
     \/ stored' = stored \ {task[r]} /\ lost' = lost \cup {task[r]}
  /\ task' = [task EXCEPT ![r] = NoTask]
  /\ UNCHANGED <<generatorVars, minted, delivered, excused>>

\* KEY_TTL_SEC is over.
Expire(k) ==
  /\ k \in stored
  /\ faults < MaxFaults
  /\ faults' = faults + 1
  /\ stored' = stored \ {k}
  /\ lost' = lost \cup {k}
  /\ UNCHANGED <<generatorVars, minted, task, delivered, excused>>

-----------------------------------------------------------------------------

Init ==
  /\ buffer = <<>>
  /\ answer = [bytes |-> <<>>, source |-> Primary, asked |-> 0]
  /\ minted = <<>>
  /\ stored = {}
  /\ task = [r \in Readers |-> NoTask]
  /\ delivered = [k \in Keys |-> 0]
  /\ excused = [k \in Keys |-> 0]
  /\ lost = {}
  /\ faults = 0

GeneratorNext == \E n \in 1..MaxBytes : Random(n)

KeyNext ==
  \/ \E rounds \in [1..Rounds -> Measured] : Mint(rounds)
  \/ \E r \in Readers, k \in Keys : Get(r, k)
  \/ \E r \in Readers : Consume(r) \/ Die(r)
  \/ \E k \in Keys : Expire(k)

Next == GeneratorNext \/ KeyNext

Spec == Init /\ [][Next]_vars

-----------------------------------------------------------------------------
(* Properties.                                                             *)

\* Every variable keeps its type; only keys that were minted are stored or read.
TypeOK ==
  /\ buffer \in Seq(Sources)
  /\ answer \in [bytes : Seq(Sources), source : Sources, asked : 0..MaxBytes]
  /\ minted \in Seq([1..Rounds -> Measured]) /\ Len(minted) <= MaxKeys
  /\ stored \subseteq DOMAIN minted /\ lost \subseteq DOMAIN minted
  /\ task \in [Readers -> DOMAIN minted \cup {NoTask}]
  /\ delivered \in [Keys -> Nat] /\ excused \in [Keys -> Nat]
  /\ faults \in 0..MaxFaults

\* Random bytes come in the number asked for, since the sizes of the refill suffice
\* whatever the backend; every round behind a key was clean and left enough bits for
\* it after the sample was thrown away.
NothingIsShort ==
  /\ Len(answer.bytes) = answer.asked
  /\ \A k \in DOMAIN minted : \A i \in 1..Rounds :
       AcceptedRound(minted[k][i]) /\ Keep(minted[k][i]) >= KeyBits

\* A key is read once; a further answer with it is owed to a read that was
\* between GET and DEL at the same time, or to a DEL that failed.
KeyIsReadOnce ==
  \A k \in Keys :
    delivered[k] + Cardinality({r \in Readers : task[r] = k}) <= 1 + excused[k]

=============================================================================
