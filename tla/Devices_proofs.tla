---------------------------- MODULE Devices_proofs ----------------------------
(***************************************************************************)
(* A device that kept its keys is never locked out, for every number of    *)
(* programs, ids, generations and keys, while the key files suffer no      *)
(* failing open of a file that exists and no cut write, no two programs    *)
(* construct the first keys of its id at once, and the list of trusted     *)
(* devices suffers no lost or cut line and no failing read; and ids are    *)
(* such that they are read back as written.                                *)
(*                                                                         *)
(* The two files are tied together by the history variables: the keys an   *)
(* id was accepted with are its keeper's (HeldKept, FileKept), these never *)
(* change once there are any (OutliveInv of KeyStore_proofs), and the list *)
(* only grows (Clean and Grows of TrustFile_proofs).                       *)
(*                                                                         *)
(* And whatever becomes of the key files, a program that is accepted is in *)
(* the list under its own id: each generation of keys has an owner, the id *)
(* it was made under (Owned), and none of it leaves the owner.             *)
(***************************************************************************)
EXTENDS Devices, KeyStore_proofs, TrustFile_proofs

SafeDevices ==
    /\ Safe
    /\ Faults \subseteq {"open"}
    /\ PlainTexts

\* Who works with keys from a file, and not with what was in memory, and a file
\* with anything in it, has a keeper.
HeldKept == \A p \in Programs : HasFile(p) /\ held[p][1] \in Nat => keeper[device_id[p]] # 0

FileKept == \A id \in Ids : keyfile[id] \in {NoKeyFile, <<>>} \/ keeper[id] # 0

\* The id is bound to its keeper's keys.
AcceptedListed ==
    \A id \in accepted \ contended :
        /\ id \in Ids /\ keeper[id] # 0
        /\ is_client_registered(trusted, <<keeper[id], keeper[id]>>)

KeysInv == OutliveInv /\ generated <= MaxKeys /\ HeldKept /\ FileKept

DevicesInv ==
    /\ KeysInv /\ AcceptedListed
    /\ trusted \in File /\ Clean(trusted.lines)
    /\ answer \in [Programs -> {"none", "accepted", "refused"}]

-----------------------------------------------------------------------------
\* The key files.

\* Keepers come and do not change.
LEMMA KeepersStay ==
    ASSUME Safe, OutliveInv, [KeyNext]_storeVars, NEW id \in Ids, keeper[id] # 0, id \notin contended
    PROVE  keeper'[id] = keeper[id]
<1>0. keeper \in [Ids -> 0..generated]
  BY DEF OutliveInv, TypeInv, KeyTypeOK
<1>1. ASSUME NEW p \in Programs, Saves(p) PROVE keeper'[id] = keeper[id]
  <2>. SUFFICES ASSUME device_id[p] = id PROVE FALSE
    BY <1>0, <1>1 DEF Saves
  <2>1. keyfile[id] = <<>>
    BY <1>1 DEF Saves, OutliveInv, ReplacesNothing
  <2>2. keeper[id] = 0
    BY <2>1, Kept DEF OutliveInv
  <2>. QED BY <1>0, <1>1, <2>2 DEF Saves
<1>2. (\E p \in Programs : Saves(p)) \/ keeper' = keeper
  BY DEF KeyNext, Construct, KeyTick, Begin, FindsFile, Loads, Generates, Truncates,
         CannotCreate, Exit, storeVars
<1>. QED BY <1>1, <1>2

LEMMA FileKeptStep ==
    ASSUME Safe, OutliveInv, FileKept, [KeyNext]_storeVars
    PROVE  FileKept'
<1>0. /\ keeper \in [Ids -> 0..generated] /\ keyfile \in [Ids -> Seq(Nat) \cup {NoKeyFile}]
      /\ device_id \in [Programs -> Ids]
  BY DEF OutliveInv, TypeInv, KeyTypeOK
<1>1. ASSUME NEW p \in Programs, Saves(p) PROVE FileKept'
  <2>1. PICK k \in 1..generated :
          /\ keyfile' = [keyfile EXCEPT ![device_id[p]] = AllOf(k)]
          /\ keeper' = [keeper EXCEPT ![device_id[p]] = k]
    BY <1>1, SavesKeeps DEF OutliveInv
  <2>2. k # 0
    OBVIOUS
  <2>. QED BY <1>0, <2>1, <2>2 DEF FileKept
<1>2. ASSUME keeper' = keeper,
             \A id \in Ids : keyfile'[id] = keyfile[id] \/ keyfile'[id] = <<>>
      PROVE  FileKept'
  BY <1>2 DEF FileKept
<1>3. \/ \E p \in Programs : Saves(p)
      \/ /\ keeper' = keeper
         /\ \A id \in Ids : keyfile'[id] = keyfile[id] \/ keyfile'[id] = <<>>
  BY <1>0 DEF KeyNext, Construct, KeyTick, Begin, FindsFile, Loads, Generates, Truncates,
              CannotCreate, Exit, storeVars
<1>. QED BY <1>1, <1>2, <1>3

LEMMA HeldKeptStep ==
    ASSUME Safe, OutliveInv, FileKept, HeldKept, [KeyNext]_storeVars
    PROVE  HeldKept'
<1>0. /\ keeper \in [Ids -> 0..generated] /\ stage \in [Programs -> Stages]
      /\ device_id \in [Programs -> Ids] /\ generated \in Nat
      /\ held \in [Programs -> [Fields -> 0..generated \cup Junk]]
      /\ said \in [Programs -> {"nothing", "loaded", "saved", "not saved"}]
  BY DEF OutliveInv, TypeInv, KeyTypeOK, Stages
<1>1. ASSUME NEW p \in Programs, Saves(p) PROVE HeldKept'
  <2>1. PICK k \in 1..generated : /\ held' = held
                                  /\ keeper' = [keeper EXCEPT ![device_id[p]] = k]
    BY <1>1, SavesKeeps DEF OutliveInv
  <2>2. k # 0
    OBVIOUS
  <2>3. /\ stage' = [stage EXCEPT ![p] = "running"] /\ said' = [said EXCEPT ![p] = "saved"]
        /\ device_id' = device_id
    BY <1>1 DEF Saves, Moves
  <2>. QED BY <1>0, <2>1, <2>2, <2>3 DEF HeldKept, HasFile
<1>2. ASSUME NEW p \in Programs, Loads(p) PROVE HeldKept'
  <2>1. PICK junk \in [Fields -> Junk] : held' = [held EXCEPT ![p] = Read(keyfile[device_id[p]], junk)]
    BY <1>2 DEF Loads
  <2>2. /\ stage' = [stage EXCEPT ![p] = "running"] /\ said' = [said EXCEPT ![p] = "loaded"]
        /\ UNCHANGED <<device_id, keeper>>
    BY <1>2 DEF Loads, Moves
  <2>3. device_id[p] \in Ids /\ keyfile[device_id[p]] # NoKeyFile
    BY <1>0, <1>2 DEF Loads, OutliveInv, TypeInv
  <2>4. keeper[device_id[p]] = 0 => keyfile[device_id[p]] = <<>>
    BY <2>3 DEF FileKept
  <2>5. Read(<<>>, junk) = junk
    BY ONLY <1>0, junk \in [Fields -> Junk], ReadWhole
  <2>6. junk[1] \notin Nat
    BY StoreFacts DEF Fields
  <2>7. held'[p] = Read(keyfile[device_id[p]], junk)
    BY <1>0, <2>1
  <2>8. held'[p][1] \in Nat => keeper[device_id[p]] # 0
    BY <2>4, <2>5, <2>6, <2>7
  <2>9. \A q \in Programs : q # p => held'[q] = held[q] /\ stage'[q] = stage[q] /\ said'[q] = said[q]
    BY <1>0, <2>1, <2>2
  <2>. QED BY <2>2, <2>8, <2>9 DEF HeldKept, HasFile
<1>3. ASSUME keeper' = keeper,
             \A p \in Programs : HasFile(p)' =>
                HasFile(p) /\ held'[p] = held[p] /\ device_id'[p] = device_id[p]
      PROVE  HeldKept'
  BY <1>3 DEF HeldKept, HasFile
<1>4. \/ \E p \in Programs : Saves(p) \/ Loads(p)
      \/ /\ keeper' = keeper
         /\ \A p \in Programs : HasFile(p)' =>
                HasFile(p) /\ held'[p] = held[p] /\ device_id'[p] = device_id[p]
  BY <1>0 DEF KeyNext, Construct, KeyTick, Begin, FindsFile, Generates, Truncates, CannotCreate,
              Exit, Moves, HasFile, storeVars
<1>. QED BY <1>1, <1>2, <1>3, <1>4

LEMMA KeysInvInit == KeyInit => KeysInv
BY OutliveInvInit, StoreAssumption DEF KeyInit, KeysInv, HeldKept, FileKept, HasFile

LEMMA KeysInvNext == Safe /\ KeysInv /\ [KeyNext]_storeVars => KeysInv'
<1> SUFFICES ASSUME Safe, KeysInv, [KeyNext]_storeVars PROVE KeysInv'
  OBVIOUS
<1>1. OutliveInv' /\ HeldKept' /\ FileKept'
  BY OutliveInvNext, HeldKeptStep, FileKeptStep DEF KeysInv
<1>2. generated' <= MaxKeys
  <2>1. generated' = generated \/ (generated < MaxKeys /\ generated' = generated + 1)
    BY DEF KeyNext, Construct, KeyTick, Begin, FindsFile, Loads, Generates, Truncates,
           CannotCreate, Saves, Exit, storeVars
  <2>2. generated \in Nat /\ MaxKeys \in Nat /\ generated <= MaxKeys
    BY StoreAssumption DEF KeysInv, OutliveInv, TypeInv, KeyTypeOK
  <2>. QED BY ONLY <2>1, <2>2
<1>. QED BY <1>1, <1>2 DEF KeysInv

\* What a program presents is a pair of keys of the list; if it has them from a
\* file and they are in order, they are the keeper's.
LEMMA PresentedFacts ==
    ASSUME KeysInv, NEW p \in Programs, Running(p)
    PROVE  /\ Presented(held[p]) \in Keys /\ device_id[p] \in Ids
           /\ said[p] # "not saved" /\ ValidSignature(held[p]) => keeper[device_id[p]] # 0
           /\ said[p] # "not saved" /\ keeper[device_id[p]] # 0 /\ device_id[p] \notin contended =>
                 /\ ValidSignature(held[p])
                 /\ Presented(held[p]) = <<keeper[device_id[p]], keeper[device_id[p]]>>
<1>1. /\ generated \in Nat /\ MaxKeys \in Nat /\ generated <= MaxKeys
      /\ held[p] \in [Fields -> 0..generated \cup Junk] /\ device_id[p] \in Ids
      /\ keeper[device_id[p]] \in 0..generated
  BY StoreAssumption DEF KeysInv, OutliveInv, TypeInv, KeyTypeOK
<1>2. 0..generated \subseteq 0..MaxKeys
  BY <1>1
<1>3. held[p][1] \in 0..MaxKeys \cup Junk /\ held[p][4] \in 0..MaxKeys \cup Junk
  BY <1>1, <1>2 DEF Fields
<1>4. Presented(held[p]) \in Keys
  BY <1>3, DeviceAssumption DEF Presented
<1>5. said[p] # "not saved" /\ ValidSignature(held[p]) => keeper[device_id[p]] # 0
  BY DEF KeysInv, HeldKept, HasFile, Running, ValidSignature
<1>6. said[p] # "not saved" /\ keeper[device_id[p]] # 0 /\ device_id[p] \notin contended =>
        held[p] = AllOf(keeper[device_id[p]])
  BY DEF KeysInv, OutliveInv, KeysOutliveTheProgram
<1>7. \A k \in 0..generated : ValidSignature(AllOf(k)) /\ Presented(AllOf(k)) = <<k, k>>
  <2>1. \A k \in 0..generated : k \in Nat /\ \A f \in Fields : AllOf(k)[f] = k
    BY <1>1 DEF AllOf
  <2>. QED BY <2>1 DEF ValidSignature, Presented, Fields
<1>. QED BY <1>1, <1>4, <1>5, <1>6, <1>7

-----------------------------------------------------------------------------
\* The list.

LEMMA ListedStays ==
    ASSUME NEW f, NEW g, NEW k, Grows(f.lines, g.lines), is_client_registered(f, k)
    PROVE  is_client_registered(g, k)
BY DEF Grows, is_client_registered

LEMMA PresentOutcome ==
    ASSUME SafeDevices, DevicesInv, NEW p \in Programs, Running(p),
           NEW o \in authenticate_and_register_device(trusted, device_id[p], Presented(held[p]), "")
    PROVE  /\ o.file \in File /\ Clean(o.file.lines) /\ Grows(trusted.lines, o.file.lines)
           /\ o.ok = TRUE => is_client_registered(o.file, Presented(held[p]))
<1>1. /\ trusted \in File /\ Clean(trusted.lines) /\ "short" \notin Faults /\ "lost" \notin Faults
      /\ device_id[p] \in DeviceIds /\ Presented(held[p]) \in Keys
      /\ Written(device_id[p], Presented(held[p])) = <<PlainLine(device_id[p], Presented(held[p]))>>
  BY PresentedFacts, DeviceAssumption DEF DevicesInv, SafeDevices, PlainTexts
<1>. QED BY ONLY <1>1, o \in authenticate_and_register_device(trusted, device_id[p], Presented(held[p]), ""),
            AuthenticateClean

LEMMA DevicesInvInit == SafeDevices /\ Init => DevicesInv
<1> SUFFICES ASSUME SafeDevices, Init PROVE DevicesInv
  OBVIOUS
<1>1. KeysInv
  BY KeysInvInit DEF Init
<1>2. trusted \in Startup(NoFile) /\ "short" \notin Faults
  BY DEF Init, SafeDevices
<1>3. NoFile \in File /\ Clean(NoFile.lines)
  BY DEF NoFile, File, Clean
<1>4. trusted \in File /\ Clean(trusted.lines)
  BY ONLY <1>2, <1>3, StartupClean
<1>5. AcceptedListed /\ answer \in [Programs -> {"none", "accepted", "refused"}]
  BY DEF Init, AcceptedListed
<1>. QED BY <1>1, <1>4, <1>5 DEF DevicesInv

LEMMA PresentKeepsInv ==
    ASSUME SafeDevices, DevicesInv, NEW p \in Programs, Present(p)
    PROVE  DevicesInv'
<1>1. PICK o \in authenticate_and_register_device(trusted, device_id[p], Presented(held[p]), "") :
        /\ trusted' = o.file
        /\ answer' = [answer EXCEPT ![p] = IF Accepts(p, o.ok) THEN "accepted" ELSE "refused"]
        /\ accepted' = IF Accepts(p, o.ok) /\ said[p] # "not saved"
                       THEN accepted \cup {device_id[p]} ELSE accepted
  BY DEF Present
<1>2. /\ o.file \in File /\ Clean(o.file.lines) /\ Grows(trusted.lines, o.file.lines)
      /\ o.ok = TRUE => is_client_registered(o.file, Presented(held[p]))
  BY PresentOutcome DEF Present
<1>3. UNCHANGED storeVars /\ Running(p)
  BY DEF Present
<1>4. KeysInv'
  BY <1>3, KeysInvNext DEF DevicesInv, SafeDevices
<1>5. answer' \in [Programs -> {"none", "accepted", "refused"}]
  BY <1>1 DEF DevicesInv
<1>6. ASSUME NEW id \in accepted' \ contended
      PROVE  /\ id \in Ids /\ keeper[id] # 0
             /\ is_client_registered(o.file, <<keeper[id], keeper[id]>>)
  <2>1. CASE id \in accepted
    BY <1>2, <2>1, ListedStays DEF DevicesInv, AcceptedListed
  <2>2. CASE id \notin accepted
    <3>1. id = device_id[p] /\ Accepts(p, o.ok) /\ said[p] # "not saved"
      BY <1>1, <1>6, <2>2
    <3>2. o.ok = TRUE
      BY ONLY <3>1 DEF Accepts
    <3>3. ValidSignature(held[p])
      BY <3>1 DEF Accepts
    <3>4. device_id[p] \in Ids /\ keeper[device_id[p]] # 0
          /\ Presented(held[p]) = <<keeper[device_id[p]], keeper[device_id[p]]>>
      BY <1>3, <1>6, <3>1, <3>3, PresentedFacts DEF DevicesInv
    <3>. QED BY <1>2, <3>1, <3>2, <3>4
  <2>. QED BY <2>1, <2>2
<1>7. AcceptedListed'
  BY <1>1, <1>3, <1>6 DEF AcceptedListed, storeVars
<1>. QED BY <1>1, <1>2, <1>4, <1>5, <1>7 DEF DevicesInv

LEMMA ProgramKeepsInv ==
    ASSUME SafeDevices, DevicesInv, Program
    PROVE  DevicesInv'
<1>1. KeysInv'
  BY KeysInvNext DEF Program, DevicesInv, SafeDevices
<1>2. trusted' = trusted /\ accepted' = accepted
  BY DEF Program
<1>3. answer' \in [Programs -> {"none", "accepted", "refused"}]
  BY DEF Program, DevicesInv
<1>4. AcceptedListed'
  <2>1. contended \subseteq contended'
    BY DEF Program, KeyNext, Construct, KeyTick, Begin, FindsFile, Loads, Generates, Truncates,
           CannotCreate, Saves, Exit
  <2>2. \A id \in accepted' \ contended' : id \in accepted \ contended
    BY <1>2, <2>1
  <2>. QED BY <1>2, <2>2, KeepersStay DEF AcceptedListed, DevicesInv, KeysInv, SafeDevices, Program
<1>. QED BY <1>1, <1>2, <1>3, <1>4 DEF DevicesInv

LEMMA DevicesInvNext == SafeDevices /\ DevicesInv /\ [Next]_vars => DevicesInv'
<1> SUFFICES ASSUME SafeDevices, DevicesInv, [Next]_vars PROVE DevicesInv'
  OBVIOUS
<1>1. CASE UNCHANGED vars
  <2>1. UNCHANGED <<storeVars, trusted, answer, accepted>>
    BY <1>1 DEF vars
  <2>2. KeysInv'
    BY <2>1, KeysInvNext DEF DevicesInv, SafeDevices
  <2>3. AcceptedListed'
    BY <2>1 DEF AcceptedListed, DevicesInv, storeVars
  <2>. QED BY <2>1, <2>2, <2>3 DEF DevicesInv
<1>. QED BY <1>1, ProgramKeepsInv, PresentKeepsInv DEF Next

\* An id that was accepted with saved keys is known to the server under these
\* keys, they are the ones in its file, and their signature holds: the next
\* program of the id presents them and is accepted.
LEMMA NotLockedOut ==
    ASSUME SafeDevices, DevicesInv, [Next]_vars, NEW p \in Programs,
           answer'[p] = "refused", answer[p] # "refused", said[p] # "not saved"
    PROVE  device_id[p] \notin accepted \/ device_id[p] \in contended
<1>1. Present(p)
  <2>1. CASE UNCHANGED vars
    BY <2>1 DEF vars
  <2>2. CASE Program
    BY <2>2 DEF Program
  <2>3. ASSUME NEW q \in Programs, Present(q) PROVE q = p
    BY <2>3 DEF Present, DevicesInv
  <2>. QED BY <2>1, <2>2, <2>3 DEF Next
<1>2. PICK o \in authenticate_and_register_device(trusted, device_id[p], Presented(held[p]), "") :
        answer' = [answer EXCEPT ![p] = IF Accepts(p, o.ok) THEN "accepted" ELSE "refused"]
  BY <1>1 DEF Present
<1>3. ~Accepts(p, o.ok)
  BY <1>2 DEF DevicesInv
<1> SUFFICES ASSUME device_id[p] \in accepted, device_id[p] \notin contended PROVE FALSE
  OBVIOUS
<1>4. /\ keeper[device_id[p]] # 0
      /\ is_client_registered(trusted, <<keeper[device_id[p]], keeper[device_id[p]]>>)
  BY DEF DevicesInv, AcceptedListed
<1>5. /\ ValidSignature(held[p])
      /\ Presented(held[p]) = <<keeper[device_id[p]], keeper[device_id[p]]>>
  BY <1>1, <1>4, PresentedFacts DEF Present, DevicesInv
<1>6. ~o.ok /\ "read" \notin Faults
  BY <1>3, <1>5 DEF Accepts, SafeDevices
<1>7. ~is_client_registered(trusted, Presented(held[p]))
  BY ONLY <1>2, <1>6, RefusedByList
<1>. QED BY <1>4, <1>5, <1>7

\* A device that was accepted with keys it had saved is accepted ever after, for
\* plain ids and the named failures, but for ids of which two programs constructed
\* the first keys at once: these the code may lock out with no failure at all.
THEOREM AcceptedIsNotLockedOutHolds ==
    ASSUME StoreFaults \subseteq {"create", "crash"}, Faults \subseteq {"open"}, PlainTexts
    PROVE  Spec => AcceptedIsNotLockedOut
<1>1. SafeDevices
  BY DEF SafeDevices, Safe
<1>2. Init => DevicesInv
  BY <1>1, DevicesInvInit
<1>3. DevicesInv /\ [Next]_vars => DevicesInv'
  BY <1>1, DevicesInvNext
<1>4. DevicesInv /\ [Next]_vars =>
        [\A p \in Programs :
            answer'[p] = "refused" /\ answer[p] # "refused" /\ said[p] # "not saved"
                => device_id[p] \notin accepted \/ device_id[p] \in contended]_vars
  BY <1>1, NotLockedOut
<1>. QED BY <1>2, <1>3, <1>4, PTL DEF Spec, AcceptedIsNotLockedOut

-----------------------------------------------------------------------------
\* Whose keys are whose, whatever becomes of the key files: owner says under
\* which id each generation was made.

OwnedBy(owner, n, id) == n \in 1..generated => owner[n] = id

FilesOwned(owner) ==
    \A id \in Ids : keyfile[id] # NoKeyFile =>
        \A i \in 1..Len(keyfile[id]) : OwnedBy(owner, keyfile[id][i], id)

HeldOwned(owner) ==
    \A p \in Programs, f \in Fields : OwnedBy(owner, held[p][f], device_id[p])

\* Two equal parts are listed under the id whose they are, and not before they
\* exist; two different ones belong to no valid signature.
LinesOwned(owner, ls) ==
    \A i \in DOMAIN ls, k \in 1..MaxKeys :
        Bound(ls[i]) /\ ls[i].keys = <<k, k>> => k <= generated /\ owner[k] = ls[i].id

Owned(owner) ==
    /\ owner \in [Nat -> Ids]
    /\ FilesOwned(owner) /\ HeldOwned(owner) /\ LinesOwned(owner, trusted.lines)

\* A program has no keys before it constructs any, and no answer before it asks.
OffHoldsNothing == \A p \in Programs : stage[p] = "off" => held[p] = AllOf(0)

\* What a file holds, or a program works with, somebody made.
KeysMade ==
    /\ \A id \in Ids : keyfile[id] # NoKeyFile => \A i \in 1..Len(keyfile[id]) : keyfile[id][i] # 0
    /\ \A p \in Programs : Running(p) => \A f \in Fields : held[p][f] # 0

AnsweredRuns == \A p \in Programs : answer[p] # "none" => Running(p)

OwnInv ==
    /\ TypeInv /\ generated <= MaxKeys /\ OffHoldsNothing /\ KeysMade
    /\ answer \in [Programs -> {"none", "accepted", "refused"}]
    /\ AnsweredRuns
    /\ trusted \in File /\ Clean(trusted.lines) /\ Named(trusted.lines)
    /\ \E owner : Owned(owner)
    /\ AcceptedUnderOwnId

PlainIds == Faults \subseteq {"open"} /\ JoinedIds = {} /\ PlainTexts

LEMMA GeneratedBounded ==
    ASSUME generated <= MaxKeys, TypeInv, [KeyNext]_storeVars
    PROVE  generated' <= MaxKeys
<1>1. generated' = generated \/ (generated < MaxKeys /\ generated' = generated + 1)
  BY DEF KeyNext, Construct, KeyTick, Begin, FindsFile, Loads, Generates, Truncates,
         CannotCreate, Saves, Exit, storeVars
<1>2. generated \in Nat /\ MaxKeys \in Nat
  BY StoreAssumption DEF TypeInv, KeyTypeOK
<1>. QED BY ONLY <1>1, <1>2, generated <= MaxKeys

\* What a save leaves in a file was in it or was held.
LEMMA OverwrittenParts ==
    ASSUME NEW n \in Nat, NEW file \in Seq(0..n), NEW k \in 0..n, NEW m \in 0..5,
           NEW i \in 1..Len(Overwritten(file, AllOf(k), m))
    PROVE  \/ Overwritten(file, AllOf(k), m)[i] = k
           \/ i \in 1..Len(file) /\ Overwritten(file, AllOf(k), m)[i] = file[i]
<1> DEFINE size == IF m > Len(file) THEN m ELSE Len(file)
           w == Overwritten(file, AllOf(k), m)
<1>1. Len(file) \in Nat /\ size \in Nat
  BY LenProperties
<1>2. w = [j \in 1..size |-> IF j <= m THEN AllOf(k)[j] ELSE file[j]]
  BY DEF Overwritten
<1>3. w \in Seq(0..n) /\ DOMAIN w = 1..Len(w)
  BY OverwrittenType, LenProperties
<1>4. i \in 1..size
  BY <1>2, <1>3
<1>5. CASE i <= m
  <2>1. i \in Fields
    BY <1>4, <1>5 DEF Fields
  <2>2. AllOf(k)[i] = k
    BY <2>1, WholeKeys
  <2>. QED BY ONLY <1>2, <1>4, <1>5, <2>2
<1>6. CASE ~(i <= m)
  <2>1. size = Len(file)
    BY ONLY <1>1, <1>4, <1>6, m \in 0..5
  <2>. QED BY ONLY <1>2, <1>4, <1>6, <2>1
<1>. QED BY <1>5, <1>6

\* A step of the programs gives nobody a part of the keys of another id.
LEMMA KeysStayOwned ==
    ASSUME TypeInv, OffHoldsNothing, [KeyNext]_storeVars, NEW owner \in [Nat -> Ids],
           FilesOwned(owner), HeldOwned(owner)
    PROVE  \E new \in [Nat -> Ids] : /\ FilesOwned(new)' /\ HeldOwned(new)'
                                     /\ \A k \in 1..generated : new[k] = owner[k]
<1> DEFINE Goal(new) == FilesOwned(new)' /\ HeldOwned(new)'
<1>0. /\ generated \in Nat /\ stage \in [Programs -> Stages] /\ device_id \in [Programs -> Ids]
      /\ held \in [Programs -> [Fields -> 0..generated \cup Junk]]
      /\ keyfile \in [Ids -> Seq(Nat) \cup {NoKeyFile}]
      /\ \A id \in Ids : keyfile[id] \in Seq(0..generated) \cup {NoKeyFile}
      /\ Fields = 1..5
  BY DEF TypeInv, KeyTypeOK, Stages, Fields
<1>1. \A id \in Ids : ~(0 \in 1..generated) /\ OwnedBy(owner, 0, id)
  BY <1>0 DEF OwnedBy
<1>2. \A f \in Fields : AllOf(0)[f] = 0
  BY WholeKeys
<1>3. CASE UNCHANGED <<keyfile, held, device_id, generated>>
  BY <1>3 DEF FilesOwned, HeldOwned, OwnedBy
<1>4. ASSUME NEW p \in Programs, Begin(p) \/ Exit(p) PROVE Goal(owner)
  <2>1. /\ UNCHANGED <<keyfile, generated>>
        /\ \A q \in Programs : /\ device_id'[q] \in Ids
                               /\ held'[q] = AllOf(0) \/ (held'[q] = held[q] /\ device_id'[q] = device_id[q])
    <3>1. CASE Begin(p)
      <4>1. held[p] = AllOf(0) /\ held' = held
        BY <3>1 DEF Begin, OffHoldsNothing
      <4>2. PICK id \in ChosenIds : device_id' = [device_id EXCEPT ![p] = id]
        BY <3>1 DEF Begin
      <4>3. ChosenIds \subseteq Ids
        BY <1>0, StoreFacts DEF ChosenIds, Ids, TypeInv, KeyTypeOK
      <4>. QED BY <1>0, <3>1, <4>1, <4>2, <4>3 DEF Begin
    <3>2. CASE Exit(p)
      BY <1>0, <3>2 DEF Exit
    <3>. QED BY <1>4, <3>1, <3>2
  <2>2. \A q \in Programs, f \in Fields : OwnedBy(owner, held'[q][f], device_id'[q])
    BY <1>1, <1>2, <2>1 DEF HeldOwned
  <2>. QED BY <2>1, <2>2 DEF FilesOwned, HeldOwned, OwnedBy
<1>5. ASSUME NEW p \in Programs, Loads(p) PROVE Goal(owner)
  <2>1. PICK junk \in [Fields -> Junk] :
            held' = [held EXCEPT ![p] = Read(keyfile[device_id[p]], junk)]
    BY <1>5 DEF Loads
  <2>2. device_id[p] \in Ids /\ keyfile[device_id[p]] # NoKeyFile
    BY <1>0, <1>5 DEF Loads, TypeInv
  <2>3. Len(keyfile[device_id[p]]) \in Nat
    BY <1>0, <2>2, LenProperties
  <2>4. \A f \in Fields : OwnedBy(owner, Read(keyfile[device_id[p]], junk)[f], device_id[p])
    <3>. SUFFICES ASSUME NEW f \in Fields
                  PROVE  OwnedBy(owner, Read(keyfile[device_id[p]], junk)[f], device_id[p])
      OBVIOUS
    <3>1. CASE f <= Len(keyfile[device_id[p]])
      <4>1. f \in 1..Len(keyfile[device_id[p]])
        BY <1>0, <2>3, <3>1
      <4>2. Read(keyfile[device_id[p]], junk)[f] = keyfile[device_id[p]][f]
        BY <3>1 DEF Read
      <4>. QED BY <2>2, <4>1, <4>2 DEF FilesOwned
    <3>2. CASE ~(f <= Len(keyfile[device_id[p]]))
      <4>1. Read(keyfile[device_id[p]], junk)[f] = junk[f]
        BY <3>2 DEF Read
      <4>2. junk[f] \notin Nat
        BY StoreFacts
      <4>. QED BY <4>1, <4>2 DEF OwnedBy
    <3>. QED BY <3>1, <3>2
  <2>5. UNCHANGED <<keyfile, device_id, generated>>
    BY <1>5 DEF Loads
  <2>6. \A q \in Programs, f \in Fields : OwnedBy(owner, held'[q][f], device_id[q])
    BY <1>0, <2>1, <2>4 DEF HeldOwned
  <2>. QED BY <2>5, <2>6 DEF FilesOwned, HeldOwned, OwnedBy
<1>6. ASSUME NEW p \in Programs, Truncates(p) PROVE Goal(owner)
  <2>1. /\ UNCHANGED <<device_id, held, generated>>
        /\ \A id \in Ids : keyfile'[id] = keyfile[id] \/ keyfile'[id] = <<>>
    BY <1>0, <1>6 DEF Truncates
  <2>2. \A i \in 1..Len(<<>>) : FALSE
    OBVIOUS
  <2>3. ASSUME NEW id \in Ids, keyfile'[id] # NoKeyFile, NEW i \in 1..Len(keyfile'[id])
        PROVE  OwnedBy(owner, keyfile'[id][i], id)
    BY <2>1, <2>2, <2>3 DEF FilesOwned
  <2>. QED BY <2>1, <2>3 DEF FilesOwned, HeldOwned, OwnedBy
<1>7. ASSUME NEW p \in Programs, Saves(p) PROVE Goal(owner)
  <2>1. PICK n \in 0..5 :
            keyfile' = [keyfile EXCEPT ![device_id[p]] = Overwritten(@, held[p], n)]
    <3>1. PICK n \in IF "short" \in StoreFaults THEN 0..5 ELSE {5} :
            keyfile' = [keyfile EXCEPT ![device_id[p]] = Overwritten(@, held[p], n)]
      BY <1>7 DEF Saves
    <3>2. n \in 0..5
      OBVIOUS
    <3>. QED BY <3>1, <3>2
  <2>2. UNCHANGED <<device_id, held, generated>>
    BY <1>7 DEF Saves
  <2>3. device_id[p] \in Ids /\ keyfile[device_id[p]] \in Seq(0..generated)
    BY <1>0, <1>7 DEF Saves, TypeInv
  <2>4. PICK k \in 1..generated : held[p] = AllOf(k)
    BY <1>7 DEF Saves, TypeInv, Whole
  <2>5. OwnedBy(owner, k, device_id[p])
    <3>1. AllOf(k)[1] = k /\ 1 \in Fields
      BY <1>0 DEF AllOf
    <3>. QED BY <2>4, <3>1 DEF HeldOwned
  <2>6. k \in 0..generated
    BY <1>0
  <2>7. ASSUME NEW i \in 1..Len(Overwritten(keyfile[device_id[p]], AllOf(k), n))
        PROVE  OwnedBy(owner, Overwritten(keyfile[device_id[p]], AllOf(k), n)[i], device_id[p])
    <3>1. \/ Overwritten(keyfile[device_id[p]], AllOf(k), n)[i] = k
          \/ /\ i \in 1..Len(keyfile[device_id[p]])
             /\ Overwritten(keyfile[device_id[p]], AllOf(k), n)[i] = keyfile[device_id[p]][i]
      BY <1>0, <2>3, <2>6, OverwrittenParts
    <3>2. keyfile[device_id[p]] # NoKeyFile
      BY <1>7 DEF Saves, TypeInv
    <3>. QED BY <2>3, <2>5, <3>1, <3>2 DEF FilesOwned
  <2>8. \A id \in Ids : keyfile'[id] = IF id = device_id[p] THEN Overwritten(keyfile[device_id[p]], AllOf(k), n)
                                       ELSE keyfile[id]
    BY <1>0, <2>1, <2>4
  <2>9. ASSUME NEW id \in Ids, keyfile'[id] # NoKeyFile, NEW i \in 1..Len(keyfile'[id])
        PROVE  OwnedBy(owner, keyfile'[id][i], id)
    BY <2>7, <2>8, <2>9 DEF FilesOwned
  <2>. QED BY <2>2, <2>9 DEF FilesOwned, HeldOwned, OwnedBy
<1>8. ASSUME NEW p \in Programs, Generates(p)
      PROVE  \E new \in [Nat -> Ids] : Goal(new) /\ \A k \in 1..generated : new[k] = owner[k]
  <2>0. PICK new \in [Nat -> Ids] : new = [owner EXCEPT ![generated + 1] = device_id[p]]
    BY <1>0
  <2>1. /\ new[generated + 1] = device_id[p]
        /\ \A k \in 1..generated : new[k] = owner[k]
    BY <1>0, <2>0
  <2>2. /\ UNCHANGED <<keyfile, device_id>> /\ generated' = generated + 1
        /\ held' = [held EXCEPT ![p] = AllOf(generated + 1)]
    BY <1>8 DEF Generates
  <2>3. \A k : k \in 0..generated \cup Junk /\ k \in 1..(generated + 1) /\ k # generated + 1
                  => k \in 1..generated
    BY <1>0
  <2>6. \A k \in 0..generated \cup Junk : k # generated + 1
    <3>1. generated + 1 \in Nat /\ generated + 1 \notin 0..generated
      BY <1>0
    <3>. QED BY <3>1, StoreFacts
  <2>4. FilesOwned(new)'
    <3>. SUFFICES ASSUME NEW id \in Ids, keyfile[id] # NoKeyFile, NEW i \in 1..Len(keyfile[id]),
                         keyfile[id][i] \in 1..generated'
                  PROVE  new[keyfile[id][i]] = id
      BY <2>2 DEF FilesOwned, OwnedBy
    <3>1. keyfile[id][i] \in 0..generated
      BY <1>0, ElementOfSeq
    <3>2. keyfile[id][i] \in 1..generated
      BY <2>2, <2>3, <2>6, <3>1
    <3>. QED BY <2>1, <3>2 DEF FilesOwned, OwnedBy
  <2>5. HeldOwned(new)'
    <3>. SUFFICES ASSUME NEW q \in Programs, NEW f \in Fields, held'[q][f] \in 1..generated'
                  PROVE  new[held'[q][f]] = device_id[q]
      BY <2>2 DEF HeldOwned, OwnedBy
    <3>1. CASE q = p
      BY <1>0, <2>1, <2>2, <3>1 DEF AllOf
    <3>2. CASE q # p
      <4>1. held'[q] = held[q] /\ held[q][f] \in 0..generated \cup Junk
        BY <1>0, <2>2, <3>2
      <4>2. held[q][f] \in 1..generated
        BY <2>2, <2>3, <2>6, <4>1
      <4>. QED BY <2>1, <4>1, <4>2 DEF HeldOwned, OwnedBy
    <3>. QED BY <3>1, <3>2
  <2>. QED BY <2>1, <2>4, <2>5
<1>9. CASE Goal(owner)
  BY <1>9
<1>10. CASE \E p \in Programs : Generates(p)
  BY <1>8, <1>10
<1>. QED
  BY <1>3, <1>4, <1>5, <1>6, <1>7, <1>9, <1>10
  DEF KeyNext, Construct, KeyTick, FindsFile, CannotCreate, storeVars

\* The parts a program holds are of generations so far, or junk.
LEMMA HeldParts ==
    ASSUME TypeInv, generated <= MaxKeys, NEW p \in Programs, NEW f \in Fields
    PROVE  /\ held[p][f] \in 0..MaxKeys \cup Junk
           /\ held[p][f] \in Nat /\ held[p][f] # 0 =>
                 held[p][f] \in 1..generated /\ held[p][f] \in 1..MaxKeys
<1>1. generated \in Nat /\ MaxKeys \in Nat /\ held[p][f] \in 0..generated \cup Junk
  BY StoreAssumption DEF TypeInv, KeyTypeOK
<1>2. 0..generated \subseteq 0..MaxKeys /\ 1..generated \subseteq 1..MaxKeys
  BY <1>1, generated <= MaxKeys
<1>3. ASSUME NEW n \in Nat, n # 0, n \in 0..generated \cup Junk PROVE n \in 1..generated
  <2>1. n \in 0..generated
    BY <1>3, StoreFacts
  <2>. QED BY ONLY <1>1, <1>3, <2>1
<1>. QED BY <1>1, <1>2, <1>3

\* What may become of the list when p presents its keys.
Outcomes(p) ==
    authenticate_and_register_device(trusted, device_id[p], Presented(held[p]), "")

\* The list only gains what is presented, and what is accepted is in it.
LEMMA PresentLines ==
    ASSUME PlainIds, TypeInv, generated <= MaxKeys, trusted \in File, Clean(trusted.lines),
           Named(trusted.lines), NEW p \in Programs,
           NEW o \in Outcomes(p)
    PROVE  /\ o.file \in File /\ Clean(o.file.lines) /\ Grows(trusted.lines, o.file.lines)
           /\ Named(o.file.lines)
           /\ Adds(trusted.lines, o.file.lines, device_id[p], Presented(held[p]))
           /\ o.ok = TRUE => is_client_registered(o.file, Presented(held[p]))
           /\ Presented(held[p]) \in Keys
<1>1. device_id[p] \in Ids
  BY DEF TypeInv, KeyTypeOK
<1>2. held[p][1] \in 0..MaxKeys \cup Junk /\ held[p][4] \in 0..MaxKeys \cup Junk
  BY HeldParts DEF Fields
<1>3. Presented(held[p]) \in Keys
  BY <1>2, DeviceAssumption DEF Presented
<1>4. /\ device_id[p] \in DeviceIds
      /\ Written(device_id[p], Presented(held[p])) = <<PlainLine(device_id[p], Presented(held[p]))>>
      /\ "short" \notin Faults /\ "lost" \notin Faults /\ OneLineTexts /\ Restricted
  BY <1>1, <1>3, DeviceAssumption, PlainIsOneLine DEF PlainIds, PlainTexts, Restricted
<1>5. /\ o.file \in File /\ Clean(o.file.lines) /\ Grows(trusted.lines, o.file.lines)
      /\ Named(o.file.lines)
      /\ o.ok = TRUE => is_client_registered(o.file, Presented(held[p]))
  BY ONLY <1>3, <1>4, trusted \in File, Clean(trusted.lines), Named(trusted.lines),
          o \in Outcomes(p), AuthenticateClean DEF Outcomes
<1>6. Adds(trusted.lines, o.file.lines, device_id[p], Presented(held[p]))
  BY ONLY <1>3, <1>4, trusted \in File, o \in Outcomes(p), AuthenticateAdds DEF Outcomes
<1>. QED BY <1>3, <1>5, <1>6

LEMMA OwnInvInit == PlainIds /\ Init => OwnInv
<1> SUFFICES ASSUME PlainIds, Init PROVE OwnInv
  OBVIOUS
<1>1. TypeInv /\ generated <= MaxKeys /\ OffHoldsNothing /\ KeysMade /\ generated = 0
  BY TypeInvInit, StoreAssumption DEF Init, KeyInit, OffHoldsNothing, KeysMade, Running
<1>2. trusted \in File /\ Clean(trusted.lines) /\ Named(trusted.lines)
  <2>1. NoFile \in File /\ Clean(NoFile.lines) /\ Named(NoFile.lines) /\ "short" \notin Faults
    BY DEF NoFile, File, Clean, Named, PlainIds
  <2>2. OneLineTexts
    BY PlainIsOneLine DEF PlainIds
  <2>. QED BY <2>1, <2>2, StartupClean DEF Init
<1>3. \A p \in Programs : answer[p] = "none"
  BY DEF Init
<1>4. \E owner : Owned(owner)
  <2>1. 0 \in Ids
    BY StoreAssumption DEF Ids
  <2>2. PICK owner \in [Nat -> Ids] : owner = [n \in Nat |-> 0]
    BY <2>1
  <2>3. \A k \in 1..generated : FALSE
    BY <1>1
  <2>4. FilesOwned(owner) /\ HeldOwned(owner)
    BY <2>3 DEF FilesOwned, HeldOwned, OwnedBy
  <2>5. LinesOwned(owner, trusted.lines)
    <3>1. Restricted
      BY PlainIsOneLine DEF PlainIds, Restricted
    <3>. QED BY <3>1, StartupLines, DeviceAssumption DEF LinesOwned, Init
  <2>. QED BY <2>4, <2>5 DEF Owned
<1>5. AnsweredRuns /\ AcceptedUnderOwnId /\ answer \in [Programs -> {"none", "accepted", "refused"}]
  BY <1>3 DEF AnsweredRuns, AcceptedUnderOwnId, Init
<1>. QED BY <1>1, <1>2, <1>4, <1>5 DEF OwnInv

LEMMA OffHoldsNothingStep ==
    ASSUME TypeInv, OffHoldsNothing, [KeyNext]_storeVars
    PROVE  OffHoldsNothing'
<1>1. stage \in [Programs -> Stages] /\ held \in [Programs -> [Fields -> 0..generated \cup Junk]]
  BY DEF TypeInv, KeyTypeOK, Stages
<1>. QED BY <1>1 DEF OffHoldsNothing, KeyNext, Construct, KeyTick, Begin, FindsFile, Loads,
                     Generates, Truncates, CannotCreate, Saves, Exit, Moves, storeVars

\* Only what was generated is written, and only that, or junk, is read.
LEMMA KeysMadeStep ==
    ASSUME TypeInv, KeysMade, [KeyNext]_storeVars
    PROVE  KeysMade'
<1>0. /\ generated \in Nat /\ stage \in [Programs -> Stages] /\ device_id \in [Programs -> Ids]
      /\ held \in [Programs -> [Fields -> 0..generated \cup Junk]]
      /\ keyfile \in [Ids -> Seq(Nat) \cup {NoKeyFile}]
      /\ \A id \in Ids : keyfile[id] \in Seq(0..generated) \cup {NoKeyFile}
      /\ Fields = 1..5
  BY DEF TypeInv, KeyTypeOK, Stages, Fields
<1>1. ASSUME NEW p \in Programs, stage[p] \in {"generated", "saving"}
      PROVE  \E k \in 1..generated : held[p] = AllOf(k) /\ \A f \in Fields : held[p][f] = k /\ k # 0
  <2>1. PICK k \in 1..generated : held[p] = AllOf(k)
    BY <1>1 DEF TypeInv, Whole
  <2>2. k # 0 /\ \A f \in Fields : AllOf(k)[f] = k
    BY <1>0 DEF AllOf
  <2>. QED BY <2>1, <2>2
<1>2. ASSUME NEW p \in Programs, Loads(p) PROVE KeysMade'
  <2>1. PICK junk \in [Fields -> Junk] :
            held' = [held EXCEPT ![p] = Read(keyfile[device_id[p]], junk)]
    BY <1>2 DEF Loads
  <2>2. device_id[p] \in Ids /\ keyfile[device_id[p]] # NoKeyFile
    BY <1>0, <1>2 DEF Loads, TypeInv
  <2>3. Len(keyfile[device_id[p]]) \in Nat
    BY <1>0, <2>2, LenProperties
  <2>4. ASSUME NEW f \in Fields PROVE Read(keyfile[device_id[p]], junk)[f] # 0
    <3>1. CASE f <= Len(keyfile[device_id[p]])
      <4>1. f \in 1..Len(keyfile[device_id[p]])
        BY <1>0, <2>3, <3>1
      <4>. QED BY <2>2, <3>1, <4>1 DEF KeysMade, Read
    <3>2. CASE ~(f <= Len(keyfile[device_id[p]]))
      BY <3>2, StoreFacts DEF Read
    <3>. QED BY <3>1, <3>2
  <2>5. /\ UNCHANGED keyfile /\ stage' = [stage EXCEPT ![p] = "running"]
    BY <1>2 DEF Loads, Moves
  <2>. QED BY <1>0, <2>1, <2>4, <2>5 DEF KeysMade, Running
<1>3. ASSUME NEW p \in Programs, Saves(p) PROVE KeysMade'
  <2>1. PICK n \in 0..5 :
            keyfile' = [keyfile EXCEPT ![device_id[p]] = Overwritten(@, held[p], n)]
    <3>1. PICK n \in IF "short" \in StoreFaults THEN 0..5 ELSE {5} :
            keyfile' = [keyfile EXCEPT ![device_id[p]] = Overwritten(@, held[p], n)]
      BY <1>3 DEF Saves
    <3>2. n \in 0..5
      OBVIOUS
    <3>. QED BY <3>1, <3>2
  <2>2. /\ device_id[p] \in Ids /\ keyfile[device_id[p]] \in Seq(0..generated)
        /\ keyfile[device_id[p]] # NoKeyFile
    BY <1>0, <1>3 DEF Saves, TypeInv
  <2>3. PICK k \in 1..generated : held[p] = AllOf(k) /\ \A f \in Fields : held[p][f] = k /\ k # 0
    BY <1>1, <1>3 DEF Saves
  <2>4. k \in 0..generated /\ k # 0
    BY <1>0
  <2>5. ASSUME NEW i \in 1..Len(Overwritten(keyfile[device_id[p]], AllOf(k), n))
        PROVE  Overwritten(keyfile[device_id[p]], AllOf(k), n)[i] # 0
    <3>1. \/ Overwritten(keyfile[device_id[p]], AllOf(k), n)[i] = k
          \/ /\ i \in 1..Len(keyfile[device_id[p]])
             /\ Overwritten(keyfile[device_id[p]], AllOf(k), n)[i] = keyfile[device_id[p]][i]
      BY <1>0, <2>2, <2>4, OverwrittenParts
    <3>. QED BY <2>2, <2>4, <3>1 DEF KeysMade
  <2>6. \A id \in Ids : keyfile'[id] = IF id = device_id[p] THEN Overwritten(keyfile[device_id[p]], AllOf(k), n)
                                       ELSE keyfile[id]
    BY <1>0, <2>1, <2>3
  <2>7. UNCHANGED held /\ stage' = [stage EXCEPT ![p] = "running"]
    BY <1>3 DEF Saves, Moves
  <2>8. ASSUME NEW id \in Ids, keyfile'[id] # NoKeyFile, NEW i \in 1..Len(keyfile'[id])
        PROVE  keyfile'[id][i] # 0
    BY <2>5, <2>6, <2>8 DEF KeysMade
  <2>9. ASSUME NEW q \in Programs, Running(q)', NEW f \in Fields PROVE held'[q][f] # 0
    BY <1>0, <2>3, <2>7, <2>9 DEF KeysMade, Running
  <2>. QED BY <2>8, <2>9 DEF KeysMade
<1>4. ASSUME NEW p \in Programs, CannotCreate(p) PROVE KeysMade'
  <2>1. UNCHANGED <<keyfile, held>> /\ stage' = [stage EXCEPT ![p] = "running"]
    BY <1>4 DEF CannotCreate, Moves
  <2>2. \A f \in Fields : held[p][f] # 0
    BY <1>1, <1>4 DEF CannotCreate
  <2>. QED BY <1>0, <2>1, <2>2 DEF KeysMade, Running
<1>5. ASSUME \A id \in Ids : keyfile'[id] = keyfile[id] \/ keyfile'[id] = <<>>,
             \A q \in Programs : Running(q)' => Running(q) /\ held'[q] = held[q]
      PROVE  KeysMade'
  <2>1. \A i \in 1..Len(<<>>) : FALSE
    OBVIOUS
  <2>2. ASSUME NEW id \in Ids, keyfile'[id] # NoKeyFile, NEW i \in 1..Len(keyfile'[id])
        PROVE  keyfile'[id][i] # 0
    BY <1>5, <2>1, <2>2 DEF KeysMade
  <2>. QED BY <1>5, <2>2 DEF KeysMade
<1>6. \/ \E p \in Programs : Loads(p) \/ Saves(p) \/ CannotCreate(p)
      \/ /\ \A id \in Ids : keyfile'[id] = keyfile[id] \/ keyfile'[id] = <<>>
         /\ \A q \in Programs : Running(q)' => Running(q) /\ held'[q] = held[q]
  BY <1>0 DEF KeyNext, Construct, KeyTick, Begin, FindsFile, Generates, Truncates, Exit, Moves,
              Running, storeVars
<1>. QED BY <1>2, <1>3, <1>4, <1>5, <1>6

LEMMA RunningKeeps ==
    ASSUME TypeInv, [KeyNext]_storeVars, NEW p \in Programs, Running(p), Running(p)'
    PROVE  held'[p] = held[p] /\ device_id'[p] = device_id[p]
<1>1. /\ stage \in [Programs -> Stages] /\ held \in [Programs -> [Fields -> 0..generated \cup Junk]]
      /\ device_id \in [Programs -> Ids]
  BY DEF TypeInv, KeyTypeOK, Stages
<1>. QED BY <1>1 DEF Running, KeyNext, Construct, KeyTick, Begin, FindsFile, Loads, Generates,
                     Truncates, CannotCreate, Saves, Exit, Moves, storeVars

\* A step of the programs lists nothing, and changes nothing of who runs on.
LEMMA ProgramKeepsOwn ==
    ASSUME OwnInv, Program
    PROVE  OwnInv'
<1>1. TypeInv' /\ generated' <= MaxKeys /\ OffHoldsNothing' /\ KeysMade'
  BY TypeInvNext, GeneratedBounded, OffHoldsNothingStep, KeysMadeStep DEF OwnInv, Program
<1>2. trusted' = trusted
  BY DEF Program
<1>3. answer' = [p \in Programs |-> IF stage'[p] = "running" THEN answer[p] ELSE "none"]
  BY DEF Program
<1>4. answer' \in [Programs -> {"none", "accepted", "refused"}] /\ AnsweredRuns'
  BY <1>3 DEF OwnInv, AnsweredRuns, Running
<1>5. \E owner : Owned(owner)'
  <2>1. PICK owner \in [Nat -> Ids] :
            FilesOwned(owner) /\ HeldOwned(owner) /\ LinesOwned(owner, trusted.lines)
    BY DEF OwnInv, Owned
  <2>2. PICK new \in [Nat -> Ids] : /\ FilesOwned(new)' /\ HeldOwned(new)'
                                    /\ \A k \in 1..generated : new[k] = owner[k]
    BY <2>1, KeysStayOwned DEF OwnInv, Program
  <2>3. generated \in Nat /\ generated' \in Nat /\ generated <= generated'
    <3>1. generated \in Nat /\ generated' \in {generated, generated + 1}
      BY DEF OwnInv, TypeInv, KeyTypeOK, Program, KeyNext, Construct, KeyTick, Begin, FindsFile,
             Loads, Generates, Truncates, CannotCreate, Saves, Exit
    <3>. QED BY ONLY <3>1
  <2>4. LinesOwned(new, trusted.lines)'
    <3>. SUFFICES ASSUME NEW i \in DOMAIN trusted.lines, NEW k \in 1..MaxKeys,
                         Bound(trusted.lines[i]), trusted.lines[i].keys = <<k, k>>
                  PROVE  k <= generated' /\ new[k] = trusted.lines[i].id
      BY <1>2 DEF LinesOwned
    <3>1. k <= generated /\ owner[k] = trusted.lines[i].id
      BY <2>1 DEF LinesOwned
    <3>2. k \in 1..generated
      BY <2>3, <3>1
    <3>. QED BY <2>2, <2>3, <3>1, <3>2
  <2>. QED BY <2>2, <2>4 DEF Owned
<1>6. ASSUME NEW p \in Programs, answer'[p] = "accepted"
      PROVE  answer[p] = "accepted" /\ held'[p] = held[p] /\ device_id'[p] = device_id[p]
  <2>1. answer[p] = "accepted" /\ Running(p)'
    BY <1>3, <1>6 DEF Running
  <2>2. Running(p)
    BY <2>1 DEF OwnInv, AnsweredRuns
  <2>. QED BY <2>1, <2>2, RunningKeeps DEF OwnInv, Program
<1>7. AcceptedUnderOwnId'
  BY <1>2, <1>6 DEF AcceptedUnderOwnId, OwnInv, Presented
<1>. QED BY <1>1, <1>2, <1>4, <1>5, <1>7 DEF OwnInv

\* A program that presents its keys is found, or entered, under its own id.
LEMMA PresentKeepsOwn ==
    ASSUME PlainIds, OwnInv, NEW p \in Programs, Present(p)
    PROVE  OwnInv'
<1>1. PICK o \in Outcomes(p) :
        /\ trusted' = o.file
        /\ answer' = [answer EXCEPT ![p] = IF Accepts(p, o.ok) THEN "accepted" ELSE "refused"]
  BY DEF Present, Outcomes
<1>2. /\ o.file \in File /\ Clean(o.file.lines) /\ Grows(trusted.lines, o.file.lines)
      /\ Named(o.file.lines)
      /\ Adds(trusted.lines, o.file.lines, device_id[p], Presented(held[p]))
      /\ o.ok = TRUE => is_client_registered(o.file, Presented(held[p]))
      /\ Presented(held[p]) \in Keys
  BY PresentLines DEF OwnInv
<1>3. UNCHANGED <<keyfile, stage, device_id, held, said, generated, seconds, keeper, contended>> /\ Running(p)
  BY DEF Present, storeVars
<1>4. TypeInv' /\ generated' <= MaxKeys /\ OffHoldsNothing' /\ KeysMade'
  BY <1>3, TypeInvNext DEF OwnInv, OffHoldsNothing, KeysMade, Running, storeVars
<1>5. answer' \in [Programs -> {"none", "accepted", "refused"}] /\ AnsweredRuns'
  BY <1>1, <1>3 DEF OwnInv, AnsweredRuns, Running
<1>6. PICK owner \in [Nat -> Ids] :
          FilesOwned(owner) /\ HeldOwned(owner) /\ LinesOwned(owner, trusted.lines)
  BY DEF OwnInv, Owned
<1>7. ASSUME NEW k \in 1..MaxKeys, Presented(held[p]) = <<k, k>>
      PROVE  k <= generated /\ owner[k] = device_id[p]
  <2>1. held[p][1] = k /\ 1 \in Fields
    BY <1>7 DEF Presented, Fields
  <2>2. k \in Nat /\ k # 0
    BY StoreAssumption
  <2>3. k \in 1..generated
    BY <2>1, <2>2, HeldParts DEF OwnInv
  <2>4. k <= generated
    BY <2>3
  <2>. QED BY <1>6, <2>1, <2>3, <2>4 DEF HeldOwned, OwnedBy
<1>8. LinesOwned(owner, o.file.lines)
  <2>. SUFFICES ASSUME NEW i \in DOMAIN o.file.lines, NEW k \in 1..MaxKeys,
                       Bound(o.file.lines[i]), o.file.lines[i].keys = <<k, k>>
                PROVE  k <= generated /\ owner[k] = o.file.lines[i].id
    BY DEF LinesOwned
  <2>1. CASE i \in DOMAIN trusted.lines /\ o.file.lines[i] = trusted.lines[i]
    BY <1>6, <2>1 DEF LinesOwned
  <2>2. CASE o.file.lines[i].keys = Presented(held[p]) /\ o.file.lines[i].id = device_id[p]
    BY <1>7, <2>2
  <2>. QED BY <1>2, <2>1, <2>2 DEF Adds, Named
<1>9. \E x : Owned(x)'
  <2>1. FilesOwned(owner)' /\ HeldOwned(owner)'
    BY <1>3, <1>6 DEF FilesOwned, HeldOwned, OwnedBy
  <2>2. LinesOwned(owner, trusted.lines)'
    BY <1>1, <1>3, <1>8 DEF LinesOwned
  <2>. QED BY <2>1, <2>2 DEF Owned
<1>10. ASSUME Accepts(p, o.ok)
       PROVE  \E i \in DOMAIN o.file.lines : /\ Readable(o.file.lines[i])
                                             /\ o.file.lines[i].id = device_id[p]
                                             /\ o.file.lines[i].keys = Presented(held[p])
  <2>1. PICK i \in DOMAIN o.file.lines :
            Readable(o.file.lines[i]) /\ o.file.lines[i].keys = Presented(held[p])
    <3>1. o.ok = TRUE
      BY ONLY <1>10 DEF Accepts
    <3>. QED BY <1>2, <3>1 DEF is_client_registered
  <2>2. 1 \in Fields /\ 4 \in Fields
    BY DEF Fields
  <2>3. /\ held[p][1] \in Nat /\ held[p][1] # 0
        /\ Presented(held[p]) = <<held[p][1], held[p][1]>>
    BY <1>3, <1>10, <2>2 DEF Accepts, ValidSignature, Presented, OwnInv, KeysMade
  <2>4. held[p][1] \in 1..MaxKeys
    BY <2>2, <2>3, HeldParts DEF OwnInv
  <2>5. o.file.lines[i].id = owner[held[p][1]]
    BY <1>2, <1>8, <2>1, <2>3, <2>4 DEF LinesOwned, Bound
  <2>. QED BY <1>7, <2>1, <2>3, <2>4, <2>5
<1>11. AcceptedUnderOwnId'
  <2>. SUFFICES ASSUME NEW q \in Programs, answer'[q] = "accepted"
                PROVE  \E i \in DOMAIN o.file.lines : /\ Readable(o.file.lines[i])
                                                      /\ o.file.lines[i].id = device_id[q]
                                                      /\ o.file.lines[i].keys = Presented(held[q])
    BY <1>1, <1>3 DEF AcceptedUnderOwnId, Presented
  <2>1. CASE q = p
    BY <1>1, <1>10, <2>1 DEF OwnInv
  <2>2. CASE q # p
    BY <1>1, <1>2, <2>2 DEF OwnInv, AcceptedUnderOwnId, Grows
  <2>. QED BY <2>1, <2>2
<1>. QED BY <1>1, <1>2, <1>4, <1>5, <1>9, <1>11 DEF OwnInv

\* A program that was accepted is in the list under the id it goes by, with the
\* keys it has, whatever else is constructed, cut short, lost or shared.
THEOREM AcceptedUnderOwnIdHolds ==
    ASSUME Faults \subseteq {"open"}, JoinedIds = {}, PlainTexts
    PROVE  Spec => []AcceptedUnderOwnId
<1>1. PlainIds
  BY DEF PlainIds
<1>2. OwnInv /\ [Next]_vars => OwnInv'
  <2>. SUFFICES ASSUME OwnInv, [Next]_vars PROVE OwnInv'
    OBVIOUS
  <2>1. CASE UNCHANGED vars
    <3>1. UNCHANGED <<storeVars, trusted, answer, accepted>>
      BY <2>1 DEF vars
    <3>2. TypeInv'
      BY <3>1, TypeInvNext DEF OwnInv
    <3>3. ASSUME NEW owner, Owned(owner) PROVE Owned(owner)'
      BY <3>1, <3>3 DEF storeVars, Owned, FilesOwned, HeldOwned, LinesOwned, OwnedBy
    <3>4. (\E owner : Owned(owner))' /\ KeysMade'
      BY <3>1, <3>3 DEF OwnInv, storeVars, KeysMade, Running
    <3>. QED BY <3>1, <3>2, <3>4 DEF OwnInv, storeVars, OffHoldsNothing, AnsweredRuns, Running,
                AcceptedUnderOwnId, Presented
  <2>. QED BY <1>1, <2>1, ProgramKeepsOwn, PresentKeepsOwn DEF Next
<1>3. OwnInv => AcceptedUnderOwnId
  BY DEF OwnInv
<1>. QED BY <1>1, <1>2, <1>3, OwnInvInit, PTL DEF Spec

=============================================================================
