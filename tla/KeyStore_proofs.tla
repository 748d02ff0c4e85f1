---------------------------- MODULE KeyStore_proofs ----------------------------
(***************************************************************************)
(* Key files for every number of programs, ids, generations and seconds:   *)
(* which faults leave the keys of a device whole, and which leave them its *)
(* own.                                                                    *)
(***************************************************************************)
EXTENDS KeyStore, SequenceTheorems, TLAPS

Stages == {"off", "opening", "reading", "generated", "saving", "running"}

\* Keys that were generated and not read from anywhere.
Whole == { AllOf(k) : k \in 1..generated }

\* What a file may hold when its writes are cut short.
TypeInv ==
    /\ KeyTypeOK
    /\ \A id \in Ids : keyfile[id] \in Seq(0..generated) \cup {NoKeyFile}
    /\ \A p \in Programs :
          /\ stage[p] \in {"generated", "saving"} => held[p] \in Whole
          /\ stage[p] \in {"reading", "saving"} => keyfile[device_id[p]] # NoKeyFile

\* What the proofs use of numbers and of the constants.
LEMMA Numbers ==
    ASSUME NEW n \in Nat
    PROVE  /\ 0..n \subseteq Nat /\ 1..n \subseteq 0..n /\ 0 \in 0..n /\ n + 1 \in 1..(n + 1)
           /\ 0..n \subseteq 0..(n + 1) /\ 1..n \subseteq 1..(n + 1) /\ n + 1 \in Nat
OBVIOUS

LEMMA StoreFacts ==
    /\ NoKeyFile \notin Seq(Nat)
    /\ \A j \in Junk : j \notin Nat
    /\ \A t \in Nat : t % IdModulus \in 0..(IdModulus - 1)
<1>1. IdModulus \in Nat /\ IdModulus > 0
  BY StoreAssumption
<1>2. \A t \in Nat : t % IdModulus \in 0..(IdModulus - 1)
  BY <1>1
<1>. QED BY <1>2, StoreAssumption

\* A function on 1..m is a sequence of m elements.
LEMMA Tuples ==
    ASSUME NEW S, NEW m \in Nat, NEW s \in [1..m -> S]
    PROVE  s \in Seq(S) /\ Len(s) = m
<1>1. s \in Seq(S)
  BY SeqDef
<1>2. Len(s) \in Nat /\ DOMAIN s = 1..Len(s) /\ DOMAIN s = 1..m
  BY <1>1, LenProperties
<1>3. ASSUME NEW a \in Nat, NEW b \in Nat, 1..a = 1..b PROVE ~(a < b)
  <2>1. a < b => b \in 1..b /\ b \notin 1..a
    OBVIOUS
  <2>. QED BY <1>3, <2>1
<1>4. ~(Len(s) < m) /\ ~(m < Len(s))
  BY <1>2, <1>3
<1>. QED BY <1>1, <1>2, <1>4

\* The places of such keys.
LEMMA WholeKeys ==
    ASSUME NEW n \in Nat, NEW k \in 0..n
    PROVE  /\ AllOf(k) \in [Fields -> 0..n] /\ AllOf(k) \in Seq(0..n)
           /\ Len(AllOf(k)) = 5 /\ AllOf(k) # <<>>
           /\ \A f \in Fields : AllOf(k)[f] = k
<1>1. AllOf(k) \in [1..5 -> 0..n] /\ \A f \in 1..5 : AllOf(k)[f] = k
  BY DEF AllOf, Fields
<1>2. AllOf(k) \in Seq(0..n) /\ Len(AllOf(k)) = 5
  <2>1. 5 \in Nat
    OBVIOUS
  <2>. QED BY ONLY <1>1, <2>1, Tuples
<1>3. AllOf(k) # <<>>
  <2>1. Len(<<>>) = 0 /\ 0 # 5
    BY EmptySeq
  <2>. QED BY ONLY <1>2, <2>1
<1>. QED BY <1>1, <1>2, <1>3 DEF Fields

\* Reading takes no number that was not generated.
LEMMA ReadType ==
    ASSUME NEW n \in Nat, NEW file \in Seq(0..n), NEW junk \in [Fields -> Junk]
    PROVE  Read(file, junk) \in [Fields -> 0..n \cup Junk]
<1>1. \A f \in Fields : f <= Len(file) => file[f] \in 0..n
  BY ElementOfSeq DEF Fields
<1>. QED BY <1>1 DEF Read

\* Writing the first m fields over a file leaves a file.
LEMMA OverwrittenType ==
    ASSUME NEW n \in Nat, NEW file \in Seq(0..n), NEW k \in 0..n, NEW m \in 0..5
    PROVE  Overwritten(file, AllOf(k), m) \in Seq(0..n)
<1> DEFINE size == IF m > Len(file) THEN m ELSE Len(file)
<1>1. Len(file) \in Nat /\ size \in Nat
  BY LenProperties
<1>2. ASSUME NEW i \in 1..size PROVE (IF i <= m THEN AllOf(k)[i] ELSE file[i]) \in 0..n
  <2>1. CASE i <= m
    <3>1. i \in Fields
      BY <1>1, <2>1 DEF Fields
    <3>. QED BY <2>1, <3>1, WholeKeys
  <2>2. CASE ~(i <= m)
    BY <1>1, <2>2, ElementOfSeq
  <2>. QED BY <2>1, <2>2
<1>3. Overwritten(file, AllOf(k), m) \in [1..size -> 0..n]
  BY <1>2 DEF Overwritten
<1>. QED BY ONLY <1>1, <1>3, Tuples

LEMMA TypeInvInit == KeyInit => TypeInv
<1>. SUFFICES ASSUME KeyInit PROVE TypeInv
  OBVIOUS
<1>1. AllOf(0) \in [Fields -> 0..0]
  BY DEF AllOf
<1>. QED BY <1>1 DEF KeyInit, TypeInv, KeyTypeOK

\* One more generation invalidates nothing.
LEMMA MoreKeys ==
    ASSUME generated \in Nat, generated' \in {generated, generated + 1}
    PROVE  /\ 0..generated \subseteq 0..generated' /\ Whole \subseteq Whole'
           /\ Seq(0..generated) \subseteq Seq(0..generated')
<1>1. 0..generated \subseteq 0..generated' /\ 1..generated \subseteq 1..generated'
  OBVIOUS
<1>. QED BY <1>1 DEF Whole

LEMMA TypeInvNext == TypeInv /\ [KeyNext]_storeVars => TypeInv'
<1>. SUFFICES ASSUME TypeInv, [KeyNext]_storeVars PROVE TypeInv'
  OBVIOUS
<1>. USE DEF KeyTypeOK, TypeInv, Moves
<1>0. generated \in Nat /\ seconds \in Nat
  OBVIOUS
<1>1. CASE KeyTick
  <2>1. seconds' = seconds + 1 /\ UNCHANGED <<keyfile, stage, device_id, held, said, generated, keeper, contended>>
    BY <1>1 DEF KeyTick
  <2>2. seconds' \in Nat
    BY ONLY <1>0, <2>1
  <2>. QED BY <2>1, <2>2 DEF Whole
<1>2. ASSUME NEW p \in Programs, Begin(p) PROVE TypeInv'
  <2>1. PICK id \in ChosenIds : device_id' = [device_id EXCEPT ![p] = id]
    BY <1>2 DEF Begin
  <2>2. id \in Ids
    BY ONLY <1>0, id \in ChosenIds, StoreFacts DEF ChosenIds, Ids
  <2>3. contended' \subseteq Ids
    <3>1. contended \subseteq Ids /\ ChosenIds \subseteq Ids
      BY <1>0, StoreFacts DEF ChosenIds, Ids
    <3>2. PICK i \in ChosenIds : contended' \in {contended, contended \cup {i}}
      BY <1>2 DEF Begin
    <3>. QED BY ONLY <3>1, <3>2
  <2>. QED BY <1>2, <2>1, <2>2, <2>3 DEF Begin, Whole
<1>3. ASSUME NEW p \in Programs, FindsFile(p) PROVE TypeInv'
  BY <1>3 DEF FindsFile, Whole
<1>4. ASSUME NEW p \in Programs, Loads(p) PROVE TypeInv'
  <2>1. PICK junk \in [Fields -> Junk] :
            held' = [held EXCEPT ![p] = Read(keyfile[device_id[p]], junk)]
    BY <1>4 DEF Loads
  <2>2. keyfile[device_id[p]] \in Seq(0..generated)
    BY <1>4 DEF Loads
  <2>3. Read(keyfile[device_id[p]], junk) \in [Fields -> 0..generated \cup Junk]
    BY <1>0, <2>2, ReadType
  <2>. QED BY <1>4, <2>1, <2>3 DEF Loads, Whole
<1>5. ASSUME NEW p \in Programs, Generates(p) PROVE TypeInv'
  <2>1. /\ generated' = generated + 1 /\ held' = [held EXCEPT ![p] = AllOf(generated')]
        /\ stage' = [stage EXCEPT ![p] = "generated"]
        /\ UNCHANGED <<keyfile, device_id, said, seconds, keeper, contended>>
    BY <1>5 DEF Generates
  <2>2. generated' \in Nat /\ generated' \in 1..generated' /\ generated' \in 0..generated'
    BY ONLY <1>0, <2>1, Numbers
  <2>3. AllOf(generated') \in Whole' /\ AllOf(generated') \in [Fields -> 0..generated']
    BY ONLY <2>2, WholeKeys DEF Whole
  <2>4. /\ 0..generated \subseteq 0..generated' /\ Whole \subseteq Whole'
        /\ Seq(0..generated) \subseteq Seq(0..generated')
    BY ONLY <1>0, <2>1, MoreKeys
  <2>5. held' \in [Programs -> [Fields -> 0..generated' \cup Junk]]
    <3>1. \A f : f \in [Fields -> 0..generated \cup Junk] \/ f \in [Fields -> 0..generated']
                    => f \in [Fields -> 0..generated' \cup Junk]
      BY ONLY <2>4
    <3>2. \A q \in Programs : held[q] \in [Fields -> 0..generated \cup Junk]
      OBVIOUS
    <3>. QED BY ONLY held \in [Programs -> [Fields -> 0..generated \cup Junk]], <2>1, <2>3, <3>1, <3>2
  <2>6. keeper' \in [Ids -> 0..generated']
    BY <2>1, <2>4
  <2>7. \A id \in Ids : keyfile'[id] \in Seq(0..generated') \cup {NoKeyFile}
    BY <2>1, <2>4
  <2>8. \A q \in Programs :
          /\ stage'[q] \in {"generated", "saving"} => held'[q] \in Whole'
          /\ stage'[q] \in {"reading", "saving"} => keyfile'[device_id'[q]] # NoKeyFile
    BY <2>1, <2>3, <2>4
  <2>. QED BY <2>1, <2>2, <2>5, <2>6, <2>7, <2>8
<1>6. ASSUME NEW p \in Programs, Truncates(p) PROVE TypeInv'
  <2>1. <<>> \in Seq(0..generated) /\ <<>> \in Seq(Nat)
    BY ONLY EmptySeq
  <2>2. <<>> # NoKeyFile
    BY ONLY <2>1, StoreFacts
  <2>. QED BY <1>6, <2>1, <2>2 DEF Truncates, Whole
<1>7. ASSUME NEW p \in Programs, CannotCreate(p) PROVE TypeInv'
  BY <1>7 DEF CannotCreate, Whole
<1>8. ASSUME NEW p \in Programs, Saves(p) PROVE TypeInv'
  <2>1. PICK m \in 0..5 :
            keyfile' = [keyfile EXCEPT ![device_id[p]] = Overwritten(@, held[p], m)]
    <3>1. PICK m \in IF "short" \in StoreFaults THEN 0..5 ELSE {5} :
             keyfile' = [keyfile EXCEPT ![device_id[p]] = Overwritten(@, held[p], m)]
      BY <1>8 DEF Saves
    <3>2. m \in 0..5
      BY ONLY m \in IF "short" \in StoreFaults THEN 0..5 ELSE {5}
    <3>. QED BY <3>1, <3>2
  <2>2. PICK k \in 1..generated : held[p] = AllOf(k)
    BY <1>8 DEF Saves, Whole
  <2>3. keyfile[device_id[p]] \in Seq(0..generated)
    BY <1>8 DEF Saves
  <2>4. k \in 0..generated /\ 1 \in Fields
    BY ONLY <1>0, k \in 1..generated, Numbers DEF Fields
  <2>5. Overwritten(keyfile[device_id[p]], held[p], m) \in Seq(0..generated)
    BY ONLY m \in 0..5, <1>0, <2>2, <2>3, <2>4, OverwrittenType
  <2>6. Overwritten(keyfile[device_id[p]], held[p], m) \in Seq(Nat)
    BY ONLY <1>0, <2>5, Numbers, SeqMonotonic
  <2>7. held[p][1] \in 0..generated
    BY ONLY <1>0, <2>2, <2>4, WholeKeys
  <2>8. Overwritten(keyfile[device_id[p]], held[p], m) # NoKeyFile
    BY ONLY <2>6, StoreFacts
  <2>. QED BY <1>8, <2>1, <2>5, <2>6, <2>7, <2>8 DEF Saves, Whole
<1>9. ASSUME NEW p \in Programs, Exit(p) PROVE TypeInv'
  <2>1. AllOf(0) \in [Fields -> 0..generated \cup Junk]
    BY ONLY <1>0, Numbers DEF AllOf
  <2>. QED BY <1>9, <2>1 DEF Exit, Whole
<1>10. CASE UNCHANGED storeVars
  BY <1>10 DEF storeVars, Whole
<1>. QED
  BY <1>1, <1>2, <1>3, <1>4, <1>5, <1>6, <1>7, <1>8, <1>9, <1>10 DEF KeyNext, Construct

\* Every variable keeps its type, whatever fails and whoever overlaps: what a
\* program works with is a generated number or what its memory held, field by
\* field.
THEOREM KeyTypeCorrect == KeySpec => []KeyTypeOK
<1>1. TypeInv => KeyTypeOK
  BY DEF TypeInv
<1>. QED BY <1>1, TypeInvInit, TypeInvNext, PTL DEF KeySpec

-----------------------------------------------------------------------------
\* While no write is cut short, a file is missing, empty or whole,
FilesWhole == \A id \in Ids : keyfile[id] \in {NoKeyFile, <<>>} \cup Whole

\* and so are the keys of each program.
WholeInv == TypeInv /\ FilesWhole /\ NeverMixed

\* An empty file leaves every field as it was, a whole one none.
LEMMA ReadWhole ==
    ASSUME NEW n \in Nat, NEW junk \in [Fields -> Junk]
    PROVE  /\ Read(<<>>, junk) = junk
           /\ \A k \in 0..n : Read(AllOf(k), junk) = AllOf(k)
<1>1. \A f \in Fields : f \in 1..5 /\ ~(f <= 0) /\ f <= 5
  BY DEF Fields
<1>2. Read(<<>>, junk) = junk
  <2>1. Len(<<>>) = 0
    BY EmptySeq
  <2>. QED BY ONLY junk \in [Fields -> Junk], <1>1, <2>1 DEF Read
<1>3. ASSUME NEW k \in 0..n PROVE Read(AllOf(k), junk) = AllOf(k)
  <2>1. Len(AllOf(k)) = 5 /\ AllOf(k) \in [Fields -> 0..n]
    BY WholeKeys
  <2>. QED BY ONLY <1>1, <2>1 DEF Read
<1>. QED BY <1>2, <1>3

\* A complete write leaves nothing of what an empty or whole file held.
LEMMA OverwrittenWhole ==
    ASSUME NEW n \in Nat, NEW k \in 0..n, NEW file \in {<<>>} \cup {AllOf(j) : j \in 0..n}
    PROVE  Overwritten(file, AllOf(k), 5) = AllOf(k)
<1>1. Len(file) \in {0, 5}
  BY WholeKeys, EmptySeq
<1>2. (IF 5 > Len(file) THEN 5 ELSE Len(file)) = 5
  BY ONLY <1>1
<1>3. \A i \in 1..5 : i <= 5
  OBVIOUS
<1>4. AllOf(k) = [i \in 1..5 |-> AllOf(k)[i]]
  BY WholeKeys DEF Fields
<1>. QED BY ONLY <1>2, <1>3, <1>4 DEF Overwritten

\* What a step may do to the files and to the keys of the programs that run.
LEMMA FilesWholeStep ==
    ASSUME "short" \notin StoreFaults, TypeInv, FilesWhole, [KeyNext]_storeVars
    PROVE  FilesWhole'
<1>0. generated \in Nat /\ keyfile \in [Ids -> Seq(Nat) \cup {NoKeyFile}]
  BY DEF TypeInv, KeyTypeOK
<1>1. CASE keyfile' = keyfile /\ generated' \in {generated, generated + 1}
  <2>1. Whole \subseteq Whole'
    BY <1>0, <1>1, MoreKeys
  <2>. QED BY <1>1, <2>1 DEF FilesWhole
<1>2. ASSUME NEW p \in Programs, Truncates(p) PROVE FilesWhole'
  BY <1>0, <1>2 DEF Truncates, FilesWhole, Whole
<1>3. ASSUME NEW p \in Programs, Saves(p) PROVE FilesWhole'
  <2>1. /\ keyfile' = [keyfile EXCEPT ![device_id[p]] = Overwritten(@, held[p], 5)]
        /\ generated' = generated /\ device_id[p] \in Ids
        /\ keyfile[device_id[p]] # NoKeyFile
    BY <1>3 DEF Saves, TypeInv, KeyTypeOK
  <2>2. PICK k \in 1..generated : held[p] = AllOf(k)
    BY <1>3 DEF Saves, TypeInv, Whole
  <2>3. keyfile[device_id[p]] \in {<<>>} \cup {AllOf(j) : j \in 0..generated}
    BY <1>0, <2>1, Numbers DEF FilesWhole, Whole
  <2>4. k \in 0..generated
    BY ONLY <1>0, k \in 1..generated, Numbers
  <2>5. Overwritten(keyfile[device_id[p]], held[p], 5) = AllOf(k)
    BY ONLY <1>0, <2>2, <2>3, <2>4, OverwrittenWhole
  <2>. QED BY <1>0, <2>1, <2>5 DEF FilesWhole, Whole
<1>4. \/ keyfile' = keyfile /\ generated' \in {generated, generated + 1}
      \/ \E p \in Programs : Truncates(p) \/ Saves(p)
  BY DEF KeyNext, Construct, KeyTick, Begin, FindsFile, Loads, Generates, CannotCreate, Exit,
         storeVars
<1>. QED BY <1>1, <1>2, <1>3, <1>4

LEMMA NeverMixedStep ==
    ASSUME TypeInv, FilesWhole, NeverMixed, [KeyNext]_storeVars
    PROVE  NeverMixed'
<1> DEFINE Fine(h) == h \in Whole \/ \A f \in Fields : h[f] \in Junk
<1>0. /\ generated \in Nat /\ stage \in [Programs -> Stages]
      /\ held \in [Programs -> [Fields -> 0..generated \cup Junk]]
  BY DEF TypeInv, KeyTypeOK, Stages
<1>1. generated' \in {generated, generated + 1} /\ Whole \subseteq Whole'
  <2>1. generated' \in {generated, generated + 1}
    BY DEF KeyNext, Construct, KeyTick, Begin, FindsFile, Loads, Generates, Truncates,
           CannotCreate, Saves, Exit, storeVars
  <2>. QED BY <1>0, <2>1, MoreKeys
<1>2. SUFFICES ASSUME NEW q \in Programs, stage'[q] = "running"
               PROVE  Fine(held'[q])
  BY <1>1 DEF NeverMixed, Running, Whole
<1>3. CASE stage[q] = "running" /\ held'[q] = held[q]
  BY <1>3 DEF NeverMixed, Running, Whole
<1>4. CASE held'[q] = held[q] /\ stage[q] \in {"generated", "saving"}
  BY <1>4 DEF TypeInv
<1>5. CASE Loads(q)
  <2>1. PICK junk \in [Fields -> Junk] : held' = [held EXCEPT ![q] = Read(keyfile[device_id[q]], junk)]
    BY <1>5 DEF Loads
  <2>2. device_id[q] \in Ids /\ keyfile[device_id[q]] # NoKeyFile
    BY <1>5 DEF Loads, TypeInv, KeyTypeOK
  <2>3. keyfile[device_id[q]] = <<>> \/ \E k \in 1..generated : keyfile[device_id[q]] = AllOf(k)
    BY <2>2 DEF FilesWhole, Whole
  <2>4. Fine(Read(keyfile[device_id[q]], junk))
    <3>1. CASE keyfile[device_id[q]] = <<>>
      <4>1. Read(keyfile[device_id[q]], junk) = junk
        BY <1>0, <3>1, ReadWhole
      <4>. QED BY <4>1
    <3>2. ASSUME NEW k \in 1..generated, keyfile[device_id[q]] = AllOf(k)
          PROVE  Fine(Read(keyfile[device_id[q]], junk))
      <4>1. k \in 0..generated
        BY ONLY <1>0, k \in 1..generated, Numbers
      <4>2. Read(AllOf(k), junk) = AllOf(k)
        BY ONLY <1>0, <4>1, junk \in [Fields -> Junk], ReadWhole
      <4>. QED BY <3>2, <4>2 DEF Whole
    <3>. QED BY <2>3, <3>1, <3>2
  <2>. QED BY <1>0, <2>1, <2>4
<1>6. \/ stage[q] = "running" /\ held'[q] = held[q]
      \/ held'[q] = held[q] /\ stage[q] \in {"generated", "saving"}
      \/ Loads(q)
  BY <1>0, <1>2
  DEF KeyNext, Construct, KeyTick, Begin, FindsFile, Loads, Generates, Truncates, CannotCreate,
      Saves, Exit, Moves, storeVars
<1>7. Fine(held'[q])
  BY <1>3, <1>4, <1>5, <1>6
<1>. QED BY <1>1, <1>7

\* While no write is cut short, the keys of a program are never put together
\* from two generations, nor from a file and its memory, whatever crashes,
\* failing opens and programs of the same id come between the system calls.
THEOREM NeverMixedHolds ==
    ASSUME "short" \notin StoreFaults
    PROVE  KeySpec => []NeverMixed
<1>1. KeyInit => WholeInv
  BY TypeInvInit DEF KeyInit, WholeInv, FilesWhole, NeverMixed, Running
<1>2. WholeInv /\ [KeyNext]_storeVars => WholeInv'
  BY TypeInvNext, FilesWholeStep, NeverMixedStep DEF WholeInv
<1>3. WholeInv => NeverMixed
  BY DEF WholeInv
<1>. QED BY <1>1, <1>2, <1>3, PTL DEF KeySpec

-----------------------------------------------------------------------------
\* With no failing open and no short write, keys that were saved are there for
\* good, but under the ids whose first keys were contended for.
Safe == StoreFaults \subseteq {"create", "crash"}

\* Two programs construct the keys of one id when there are some,
OneConstructs ==
    \A p, q \in Programs :
        /\ Constructing(p) /\ Constructing(q) /\ p # q
        /\ device_id[p] = device_id[q] /\ device_id[p] \notin contended
        => keeper[device_id[p]] # 0

\* they are generated only where there are none, and a file once saved is whole;
KeptWhole ==
    \A id \in Ids : keeper[id] # 0 /\ id \notin contended => keyfile[id] = AllOf(keeper[id])

ReplacesNothing ==
    \A p \in Programs : device_id[p] \notin contended =>
        /\ stage[p] = "generated" => keyfile[device_id[p]] = NoKeyFile
        /\ stage[p] = "saving" => keyfile[device_id[p]] = <<>>

\* whoever has keys that are in a file has had one,
HasFile(q) == stage[q] = "running" /\ said[q] # "not saved"
FilesOfOthers ==
    \A p, q \in Programs :
        HasFile(q) /\ device_id[q] = device_id[p] /\ device_id[q] \notin contended =>
            stage[p] \notin {"generated", "saving"} /\ keyfile[device_id[q]] # NoKeyFile

\* so that they are the ones in it.
OutliveInv ==
    /\ TypeInv /\ FilesWhole /\ OneConstructs /\ KeptWhole /\ ReplacesNothing
    /\ FilesOfOthers /\ KeysOutliveTheProgram

\* A save leaves the saved keys in the file, as its keeper.
LEMMA SavesKeeps ==
    ASSUME Safe, TypeInv, FilesWhole, NEW p \in Programs, Saves(p)
    PROVE  \E k \in 1..generated :
              /\ held[p] = AllOf(k) /\ held' = held
              /\ keyfile' = [keyfile EXCEPT ![device_id[p]] = AllOf(k)]
              /\ keeper' = [keeper EXCEPT ![device_id[p]] = k]
<1>0. generated \in Nat
  BY DEF TypeInv, KeyTypeOK
<1>1. /\ keyfile' = [keyfile EXCEPT ![device_id[p]] = Overwritten(@, held[p], 5)]
      /\ keeper' = [keeper EXCEPT ![device_id[p]] = held[p][1]] /\ held' = held
      /\ device_id[p] \in Ids /\ keyfile[device_id[p]] # NoKeyFile
  BY DEF Saves, TypeInv, KeyTypeOK, Safe
<1>2. PICK k \in 1..generated : held[p] = AllOf(k)
  BY DEF Saves, TypeInv, Whole
<1>3. keyfile[device_id[p]] \in {<<>>} \cup {AllOf(j) : j \in 0..generated}
  BY <1>0, <1>1, Numbers DEF FilesWhole, Whole
<1>4. k \in 0..generated /\ 1 \in Fields
  BY ONLY <1>0, k \in 1..generated, Numbers DEF Fields
<1>5. Overwritten(keyfile[device_id[p]], held[p], 5) = AllOf(k)
  BY ONLY <1>0, <1>2, <1>3, <1>4, OverwrittenWhole
<1>6. held[p][1] = k
  BY ONLY <1>0, <1>2, <1>4, WholeKeys
<1>. QED BY <1>1, <1>2, <1>5, <1>6

\* The steps, by what they may do to an id's file and program.
LEMMA OneConstructsStep ==
    ASSUME Safe, TypeInv, FilesWhole, OneConstructs, [KeyNext]_storeVars
    PROVE  OneConstructs'
<1>0. /\ stage \in [Programs -> Stages] /\ device_id \in [Programs -> Ids]
      /\ keeper \in [Ids -> 0..generated]
  BY DEF TypeInv, KeyTypeOK, Stages
<1>1. ASSUME NEW p \in Programs, Begin(p) PROVE OneConstructs'
  <2>1. PICK id \in ChosenIds :
          /\ device_id' = [device_id EXCEPT ![p] = id]
          /\ contended' = IF keeper[id] = 0 /\ \E q \in Programs : Constructing(q) /\ device_id[q] = id
                          THEN contended \cup {id} ELSE contended
    BY <1>1 DEF Begin
  <2>2. /\ keeper' = keeper /\ contended \subseteq contended'
        /\ \A q \in Programs : q # p => /\ device_id'[q] = device_id[q]
                                       /\ Constructing(q)' = Constructing(q)
    BY <1>0, <1>1, <2>1 DEF Begin, Moves, Constructing
  <2>3. device_id'[p] = id
    BY <1>0, <2>1
  <2>4. ASSUME NEW q \in Programs, q # p, Constructing(q), device_id[q] = id, id \notin contended'
        PROVE  keeper[id] # 0
    BY <2>1, <2>4
  <2>. QED BY <2>2, <2>3, <2>4 DEF OneConstructs
<1>2. ASSUME UNCHANGED <<device_id, contended>>,
             \A id \in Ids : keeper[id] # 0 => keeper'[id] # 0,
             \A p \in Programs : Constructing(p)' => Constructing(p)
      PROVE  OneConstructs'
  BY <1>0, <1>2 DEF OneConstructs
<1>3. ASSUME NEW p \in Programs, Saves(p) PROVE \A id \in Ids : keeper[id] # 0 => keeper'[id] # 0
  <2>1. PICK k \in 1..generated : keeper' = [keeper EXCEPT ![device_id[p]] = k]
    BY <1>3, SavesKeeps
  <2>2. k # 0
    OBVIOUS
  <2>. QED BY <1>0, <2>1, <2>2
<1>4. \/ \E p \in Programs : Begin(p)
      \/ /\ UNCHANGED <<device_id, contended>>
         /\ \A p \in Programs : Constructing(p)' => Constructing(p)
         /\ keeper' = keeper \/ \E p \in Programs : Saves(p)
  BY <1>0
  DEF KeyNext, Construct, KeyTick, FindsFile, Loads, Generates, Truncates, CannotCreate,
      Saves, Exit, Moves, Constructing, storeVars
<1>. QED BY <1>1, <1>2, <1>3, <1>4

\* A file that is missing or empty is no one's keys.
LEMMA Kept ==
    ASSUME TypeInv, KeptWhole, NEW id \in Ids, keyfile[id] \in {NoKeyFile, <<>>},
           id \notin contended
    PROVE  keeper[id] = 0
<1>0. generated \in Nat /\ keeper[id] \in 0..generated
  BY DEF TypeInv, KeyTypeOK
<1>1. AllOf(keeper[id]) # <<>> /\ AllOf(keeper[id]) \in Seq(0..generated)
  BY ONLY <1>0, WholeKeys
<1>2. AllOf(keeper[id]) \in Seq(Nat)
  BY ONLY <1>0, <1>1, Numbers, SeqMonotonic
<1>. QED BY <1>1, <1>2, StoreFacts DEF KeptWhole

\* Who is about to replace a file is alone with its id.
LEMMA Alone ==
    ASSUME TypeInv, OneConstructs, KeptWhole, ReplacesNothing,
           NEW p \in Programs, NEW q \in Programs, p # q, device_id[p] = device_id[q],
           stage[p] \in {"generated", "saving"}, Constructing(q)
    PROVE  device_id[p] \in contended
<1> SUFFICES ASSUME device_id[p] \notin contended PROVE FALSE
  OBVIOUS
<1>1. Constructing(p) /\ device_id[p] \in Ids
  BY DEF Constructing, TypeInv, KeyTypeOK
<1>2. keeper[device_id[p]] # 0
  BY <1>1 DEF OneConstructs
<1>3. keyfile[device_id[p]] \in {NoKeyFile, <<>>}
  BY DEF ReplacesNothing
<1>. QED BY <1>1, <1>2, <1>3, Kept

LEMMA KeptWholeStep ==
    ASSUME Safe, TypeInv, FilesWhole, KeptWhole, ReplacesNothing, [KeyNext]_storeVars
    PROVE  KeptWhole'
<1>0. /\ keyfile \in [Ids -> Seq(Nat) \cup {NoKeyFile}] /\ keeper \in [Ids -> 0..generated]
      /\ device_id \in [Programs -> Ids] /\ generated \in Nat
  BY DEF TypeInv, KeyTypeOK
<1>1. CASE UNCHANGED <<keyfile, keeper>> /\ contended \subseteq contended'
  BY <1>1 DEF KeptWhole
<1>2. ASSUME NEW p \in Programs, Truncates(p) PROVE KeptWhole'
  <2>1. (keeper[device_id[p]] = 0 \/ device_id[p] \in contended) /\ UNCHANGED <<keeper, contended>>
    BY <1>0, <1>2, Kept DEF Truncates, ReplacesNothing
  <2>. QED BY <1>0, <1>2, <2>1 DEF Truncates, KeptWhole
<1>3. ASSUME NEW p \in Programs, Saves(p) PROVE KeptWhole'
  <2>1. PICK k \in 1..generated :
              /\ keyfile' = [keyfile EXCEPT ![device_id[p]] = AllOf(k)]
              /\ keeper' = [keeper EXCEPT ![device_id[p]] = k]
    BY <1>3, SavesKeeps
  <2>2. contended' = contended
    BY <1>3 DEF Saves
  <2>. QED BY <1>0, <2>1, <2>2 DEF KeptWhole
<1>4. \/ UNCHANGED <<keyfile, keeper>> /\ contended \subseteq contended'
      \/ \E p \in Programs : Truncates(p) \/ Saves(p)
  BY DEF KeyNext, Construct, KeyTick, Begin, FindsFile, Loads, Generates, CannotCreate, Exit,
         storeVars
<1>. QED BY <1>1, <1>2, <1>3, <1>4

LEMMA ReplacesNothingStep ==
    ASSUME Safe, TypeInv, OneConstructs, KeptWhole, ReplacesNothing, [KeyNext]_storeVars
    PROVE  ReplacesNothing'
<1>0. /\ keyfile \in [Ids -> Seq(Nat) \cup {NoKeyFile}] /\ stage \in [Programs -> Stages]
      /\ device_id \in [Programs -> Ids]
  BY DEF TypeInv, KeyTypeOK, Stages
<1>1. ASSUME NEW p \in Programs, Truncates(p) PROVE ReplacesNothing'
  <2>1. \A q \in Programs :
            q # p /\ stage[q] \in {"generated", "saving"} /\ device_id[q] = device_id[p]
                => device_id[p] \in contended
    BY <1>1, Alone DEF Truncates, Constructing
  <2>. QED BY <1>0, <1>1, <2>1 DEF Truncates, Moves, ReplacesNothing
<1>2. ASSUME NEW p \in Programs, Saves(p) PROVE ReplacesNothing'
  <2>1. \A q \in Programs :
            q # p /\ stage[q] \in {"generated", "saving"} /\ device_id[q] = device_id[p]
                => device_id[p] \in contended
    BY <1>2, Alone DEF Saves, Constructing
  <2>2. /\ stage' = [stage EXCEPT ![p] = "running"] /\ UNCHANGED <<device_id, contended>>
        /\ \A id \in Ids : id # device_id[p] => keyfile'[id] = keyfile[id]
    BY <1>0, <1>2 DEF Saves, Moves
  <2>. QED BY <1>0, <2>1, <2>2 DEF ReplacesNothing
<1>3. ASSUME NEW p \in Programs, Generates(p) PROVE ReplacesNothing'
  BY <1>0, <1>3 DEF Generates, Missing, Moves, ReplacesNothing, Safe
<1>4. ASSUME NEW p \in Programs, Begin(p) PROVE ReplacesNothing'
  BY <1>0, <1>4 DEF Begin, Moves, ReplacesNothing
<1>5. ASSUME UNCHANGED <<keyfile, device_id, contended>>,
             \A p \in Programs : stage'[p] \in {"generated", "saving"} => stage'[p] = stage[p]
      PROVE  ReplacesNothing'
  BY <1>5 DEF ReplacesNothing
<1>6. \/ \E p \in Programs : Truncates(p) \/ Saves(p) \/ Generates(p) \/ Begin(p)
      \/ /\ UNCHANGED <<keyfile, device_id, contended>>
         /\ \A p \in Programs : stage'[p] \in {"generated", "saving"} => stage'[p] = stage[p]
  BY <1>0 DEF KeyNext, Construct, KeyTick, FindsFile, Loads, CannotCreate, Exit, Moves, storeVars
<1>. QED BY <1>1, <1>2, <1>3, <1>4, <1>5, <1>6

LEMMA FilesOfOthersStep ==
    ASSUME Safe, TypeInv, FilesWhole, OneConstructs, KeptWhole, ReplacesNothing, FilesOfOthers,
           [KeyNext]_storeVars
    PROVE  FilesOfOthers'
<1>0. /\ keyfile \in [Ids -> Seq(Nat) \cup {NoKeyFile}] /\ stage \in [Programs -> Stages]
      /\ device_id \in [Programs -> Ids] /\ generated \in Nat
      /\ said \in [Programs -> {"nothing", "loaded", "saved", "not saved"}]
  BY DEF TypeInv, KeyTypeOK, Stages
<1>1. ASSUME NEW p \in Programs, Truncates(p) PROVE FilesOfOthers'
  <2>1. \A q \in Programs : HasFile(q) /\ device_id[q] = device_id[p] => device_id[p] \in contended
    BY <1>1 DEF Truncates, FilesOfOthers
  <2>. QED BY <1>0, <1>1, <2>1 DEF Truncates, Moves, FilesOfOthers, HasFile
<1>2. ASSUME NEW p \in Programs, Saves(p) PROVE FilesOfOthers'
  <2>1. PICK k \in 1..generated : keyfile' = [keyfile EXCEPT ![device_id[p]] = AllOf(k)]
    BY <1>2, SavesKeeps
  <2>2. AllOf(k) # NoKeyFile
    <3>1. AllOf(k) \in Seq(0..generated)
      BY ONLY <1>0, k \in 1..generated, Numbers, WholeKeys
    <3>2. AllOf(k) \in Seq(Nat)
      BY ONLY <1>0, <3>1, Numbers, SeqMonotonic
    <3>. QED BY ONLY <3>2, StoreFacts
  <2>3. \A q \in Programs :
            q # p /\ stage[q] \in {"generated", "saving"} /\ device_id[q] = device_id[p]
                => device_id[p] \in contended
    BY <1>2, Alone DEF Saves, Constructing
  <2>4. /\ stage' = [stage EXCEPT ![p] = "running"] /\ said' = [said EXCEPT ![p] = "saved"]
        /\ UNCHANGED <<device_id, contended>>
    BY <1>2 DEF Saves, Moves
  <2>. QED BY <1>0, <2>1, <2>2, <2>3, <2>4 DEF FilesOfOthers, HasFile
<1>3. ASSUME NEW p \in Programs, Generates(p) PROVE FilesOfOthers'
  <2>1. keyfile[device_id[p]] = NoKeyFile
    BY <1>3 DEF Generates, Missing, Safe
  <2>2. \A q \in Programs : HasFile(q) /\ device_id[q] = device_id[p] => device_id[p] \in contended
    BY <2>1 DEF FilesOfOthers
  <2>. QED BY <1>0, <1>3, <2>2 DEF Generates, Moves, FilesOfOthers, HasFile
<1>4. ASSUME NEW p \in Programs, Loads(p) PROVE FilesOfOthers'
  <2>1. keyfile[device_id[p]] # NoKeyFile
    BY <1>4 DEF Loads, TypeInv
  <2>2. \A q \in Programs :
            q # p /\ stage[q] \in {"generated", "saving"} /\ device_id[q] = device_id[p]
                => device_id[p] \in contended
    BY <1>4, Alone DEF Loads, Constructing
  <2>3. /\ stage' = [stage EXCEPT ![p] = "running"] /\ said' = [said EXCEPT ![p] = "loaded"]
        /\ UNCHANGED <<keyfile, device_id, contended>>
    BY <1>4 DEF Loads, Moves
  <2>. QED BY <1>0, <2>1, <2>2, <2>3 DEF FilesOfOthers, HasFile
<1>5. ASSUME NEW p \in Programs, Begin(p) PROVE FilesOfOthers'
  BY <1>0, <1>5 DEF Begin, Moves, FilesOfOthers, HasFile
<1>6. ASSUME UNCHANGED <<keyfile, device_id, contended>>,
             \A p \in Programs :
                /\ stage'[p] \in {"generated", "saving"} => stage'[p] = stage[p]
                /\ HasFile(p)' => HasFile(p)
      PROVE  FilesOfOthers'
  BY <1>6 DEF FilesOfOthers
<1>7. \/ \E p \in Programs : Truncates(p) \/ Saves(p) \/ Generates(p) \/ Loads(p) \/ Begin(p)
      \/ /\ UNCHANGED <<keyfile, device_id, contended>>
         /\ \A p \in Programs :
                /\ stage'[p] \in {"generated", "saving"} => stage'[p] = stage[p]
                /\ HasFile(p)' => HasFile(p)
  BY <1>0 DEF KeyNext, Construct, KeyTick, FindsFile, CannotCreate, Exit, Moves, HasFile, storeVars
<1>. QED BY <1>1, <1>2, <1>3, <1>4, <1>5, <1>6, <1>7

LEMMA KeysOutliveStep ==
    ASSUME Safe, OutliveInv, [KeyNext]_storeVars
    PROVE  KeysOutliveTheProgram'
<1>0. /\ keeper \in [Ids -> 0..generated] /\ stage \in [Programs -> Stages]
      /\ device_id \in [Programs -> Ids] /\ generated \in Nat
      /\ held \in [Programs -> [Fields -> 0..generated \cup Junk]]
      /\ said \in [Programs -> {"nothing", "loaded", "saved", "not saved"}]
  BY DEF OutliveInv, TypeInv, KeyTypeOK, Stages
<1>1. ASSUME NEW p \in Programs, Saves(p) PROVE KeysOutliveTheProgram'
  <2>1. PICK k \in 1..generated : /\ held[p] = AllOf(k) /\ held' = held
                                  /\ keeper' = [keeper EXCEPT ![device_id[p]] = k]
    BY <1>1, SavesKeeps DEF OutliveInv
  <2>2. \A q \in Programs : HasFile(q) /\ device_id[q] = device_id[p] => device_id[p] \in contended
    BY <1>1 DEF Saves, OutliveInv, FilesOfOthers
  <2>3. /\ stage' = [stage EXCEPT ![p] = "running"] /\ said' = [said EXCEPT ![p] = "saved"]
        /\ UNCHANGED <<device_id, contended>>
    BY <1>1 DEF Saves, Moves
  <2>. QED BY <1>0, <2>1, <2>2, <2>3 DEF OutliveInv, KeysOutliveTheProgram, Running, HasFile
<1>2. ASSUME NEW p \in Programs, Loads(p) PROVE KeysOutliveTheProgram'
  <2>1. PICK junk \in [Fields -> Junk] : held' = [held EXCEPT ![p] = Read(keyfile[device_id[p]], junk)]
    BY <1>2 DEF Loads
  <2>2. /\ stage' = [stage EXCEPT ![p] = "running"] /\ said' = [said EXCEPT ![p] = "loaded"]
        /\ UNCHANGED <<device_id, keeper, contended>>
    BY <1>2 DEF Loads, Moves
  <2>3. device_id[p] \in Ids /\ keeper[device_id[p]] \in 0..generated
    BY <1>0
  <2>4. keeper[device_id[p]] # 0 /\ device_id[p] \notin contended =>
            keyfile[device_id[p]] = AllOf(keeper[device_id[p]])
    BY <2>3 DEF OutliveInv, KeptWhole
  <2>5. Read(AllOf(keeper[device_id[p]]), junk) = AllOf(keeper[device_id[p]])
    BY ONLY <1>0, <2>3, junk \in [Fields -> Junk], ReadWhole
  <2>6. keeper[device_id[p]] # 0 /\ device_id[p] \notin contended =>
            held'[p] = AllOf(keeper[device_id[p]])
    BY <1>0, <2>1, <2>4, <2>5
  <2>7. \A q \in Programs : q # p => held'[q] = held[q] /\ stage'[q] = stage[q] /\ said'[q] = said[q]
    BY <1>0, <2>1, <2>2
  <2>. QED BY <2>2, <2>6, <2>7 DEF OutliveInv, KeysOutliveTheProgram, Running
<1>3. ASSUME keeper' = keeper, contended \subseteq contended',
             \A p \in Programs : HasFile(p)' =>
                HasFile(p) /\ held'[p] = held[p] /\ device_id'[p] = device_id[p]
      PROVE  KeysOutliveTheProgram'
  BY <1>3 DEF OutliveInv, KeysOutliveTheProgram, Running, HasFile
<1>4. \/ \E p \in Programs : Saves(p) \/ Loads(p)
      \/ /\ keeper' = keeper /\ contended \subseteq contended'
         /\ \A p \in Programs : HasFile(p)' =>
                HasFile(p) /\ held'[p] = held[p] /\ device_id'[p] = device_id[p]
  BY <1>0 DEF KeyNext, Construct, KeyTick, Begin, FindsFile, Generates, Truncates, CannotCreate,
              Exit, Moves, HasFile, storeVars
<1>. QED BY <1>1, <1>2, <1>3, <1>4

LEMMA OutliveInvInit == KeyInit => OutliveInv
BY TypeInvInit
DEF KeyInit, OutliveInv, FilesWhole, OneConstructs, Constructing, KeptWhole, ReplacesNothing,
    FilesOfOthers, HasFile, KeysOutliveTheProgram, Running

LEMMA OutliveInvNext == Safe /\ OutliveInv /\ [KeyNext]_storeVars => OutliveInv'
<1>. SUFFICES ASSUME Safe, OutliveInv, [KeyNext]_storeVars PROVE OutliveInv'
  OBVIOUS
<1>1. TypeInv' /\ FilesWhole'
  BY TypeInvNext, FilesWholeStep DEF OutliveInv, Safe
<1>2. OneConstructs' /\ KeptWhole' /\ ReplacesNothing' /\ FilesOfOthers'
  BY OneConstructsStep, KeptWholeStep, ReplacesNothingStep, FilesOfOthersStep DEF OutliveInv
<1>. QED BY <1>1, <1>2, KeysOutliveStep DEF OutliveInv

\* Keys once reported as saved are those of every later program of the id, when
\* files that exist can be opened and writes are complete, but for ids of which
\* two programs constructed the first keys at once (nothing in the code keeps
\* them from it, and then it fails).  Programs of one id
\* that construct at once when there are keys, crashes at any point and files that
\* cannot be created change nothing.
THEOREM KeysOutliveTheProgramHolds ==
    ASSUME StoreFaults \subseteq {"create", "crash"}
    PROVE  KeySpec => []KeysOutliveTheProgram
<1>1. Safe
  BY DEF Safe
<1>2. OutliveInv /\ [KeyNext]_storeVars => OutliveInv'
  BY <1>1, OutliveInvNext
<1>3. OutliveInv => KeysOutliveTheProgram
  BY DEF OutliveInv
<1>. QED BY <1>2, <1>3, OutliveInvInit, PTL DEF KeySpec

=============================================================================
