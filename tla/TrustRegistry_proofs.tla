------------------------- MODULE TrustRegistry_proofs -------------------------
(***************************************************************************)
(* The list of trusted devices over the life of the server program.  Every *)
(* theorem says which restrictions on the texts and on the file system it  *)
(* needs: none to keep every finished line (FinishedLinesStay), readable   *)
(* files and texts of one line to be sound (OneKeyPerDevice,               *)
(* KeysListedOnce), no write cut short to only grow (TrustNeverRevoked),   *)
(* and no write lost either to be complete (ApprovedStaysTrusted).         *)
(***************************************************************************)
EXTENDS TrustRegistry, TrustFile_proofs

LEMMA TypeInit == Init => TypeOK
<1>1. NoFile \in File
  BY DEF NoFile, File
<1>. QED BY <1>1 DEF Init, TypeOK

\* What an operation does to the file, by the two operators that change it.
LEMMA FileStep ==
    ASSUME TypeOK, [Next]_vars
    PROVE  \/ file' = file /\ approved' = approved
           \/ file' \in Startup(file) /\ approved' = approved
           \/ \E id \in DeviceIds, k \in Keys, token \in Tokens :
                \E o \in authenticate_and_register_device(file, id, k, token) :
                    file' = o.file /\ approved' = IF o.ok THEN approved \cup {k} ELSE approved
<1>1. CASE Start
  BY <1>1 DEF Start
<1>2. CASE Stop \/ UNCHANGED vars
  BY <1>2 DEF Stop, vars
<1>3. CASE \E id \in DeviceIds, k \in Keys, token \in Tokens : Register(id, k, token)
  BY <1>3, Zenon DEF Register
<1>. QED BY <1>1, <1>2, <1>3 DEF Next

\* Whatever the texts and whatever fails, the lines are of the known forms, and no
\* finished one is touched.
LEMMA TypeNext ==
    TypeOK /\ [Next]_vars => TypeOK' /\ KeepsEnded(file.lines, file'.lines)
<1>. SUFFICES ASSUME TypeOK, [Next]_vars PROVE TypeOK' /\ KeepsEnded(file.lines, file'.lines)
  OBVIOUS
<1>1. file \in File /\ up \in BOOLEAN /\ started \in BOOLEAN /\ approved \subseteq Keys
  BY DEF TypeOK
<1>2. up' \in BOOLEAN /\ started' \in BOOLEAN
  BY <1>1 DEF Next, Start, Stop, Register, vars
<1>3. CASE file' = file /\ approved' = approved
  BY <1>1, <1>2, <1>3 DEF TypeOK, KeepsEnded
<1>4. CASE file' \in Startup(file) /\ approved' = approved
  BY <1>1, <1>2, <1>4, StartupType DEF TypeOK
<1>5. ASSUME NEW id \in DeviceIds, NEW k \in Keys, NEW token \in Tokens,
             NEW o \in authenticate_and_register_device(file, id, k, token),
             file' = o.file, approved' = IF o.ok THEN approved \cup {k} ELSE approved
      PROVE  TypeOK' /\ KeepsEnded(file.lines, file'.lines)
  <2>1. file' \in File /\ KeepsEnded(file.lines, file'.lines)
    BY <1>1, <1>5, AuthenticateType
  <2>2. approved' \subseteq Keys
    BY <1>1, <1>5
  <2>. QED BY <1>2, <2>1, <2>2 DEF TypeOK
<1>. QED BY <1>3, <1>4, <1>5, FileStep

\* The file is always a list of lines of the forms its readers know.
THEOREM TypeCorrect == Spec => []TypeOK
BY TypeInit, TypeNext, PTL DEF Spec

\* Whatever is written and whatever fails, no line that has its newline is ever
\* altered or lost.
THEOREM FinishedLinesStayHolds == Spec => FinishedLinesStay
<1>1. TypeOK /\ [Next]_vars =>
        [\A i \in DOMAIN file.lines :
            file.lines[i].ended => i \in DOMAIN file'.lines /\ file'.lines[i] = file.lines[i]]_vars
  BY TypeNext DEF KeepsEnded
<1>. QED BY <1>1, TypeInit, TypeNext, PTL DEF Spec, FinishedLinesStay

-----------------------------------------------------------------------------
\* Soundness of the lines is what the two lookups made before an append need of the
\* appends made earlier.
Inv == TypeOK /\ Sound(file.lines)

LEMMA InvInit == Init => Inv
<1>1. Sound(<<>>)
  BY DEF Sound, OneOwner, ListedOnce
<1>. QED BY <1>1, TypeInit DEF Init, Inv, NoFile

LEMMA InvNext ==
    ASSUME Restricted
    PROVE  Inv /\ [Next]_vars => Inv'
<1>. SUFFICES ASSUME Inv, [Next]_vars PROVE Inv'
  OBVIOUS
<1>1. TypeOK /\ file \in File /\ Sound(file.lines)
  BY DEF Inv, TypeOK
<1>2. ASSUME file' \in Startup(file) PROVE Sound(file'.lines)
  BY <1>1, <1>2, StartupSound
<1>3. ASSUME NEW id \in DeviceIds, NEW k \in Keys, NEW token \in Tokens,
             NEW o \in authenticate_and_register_device(file, id, k, token), file' = o.file
      PROVE  Sound(file'.lines)
  BY <1>1, <1>3, AuthenticateSound
<1>4. Sound(file'.lines)
  BY <1>1, <1>2, <1>3, FileStep
<1>. QED BY <1>1, <1>4, TypeNext DEF Inv

\* While the list can be read, a registration is read back as one line that binds no
\* other id, and no two parts of ids add up to a third, no id is ever bound to two
\* key pairs, whatever write is interrupted
\* (is_device_id_registered_with_different_keys).
THEOREM OneKeyPerDeviceHolds ==
    ASSUME OneLineTexts, JoinedIds = {}, "read" \notin Faults
    PROVE  Spec => []OneKeyPerDevice
<1>1. Restricted
  BY DEF Restricted
<1>2. Inv => OneKeyPerDevice
  BY DEF Inv, Sound, OneKeyPerDevice
<1>. QED BY <1>1, <1>2, InvInit, InvNext, PTL DEF Spec

\* Under the same restrictions, no key pair is ever listed twice
\* (is_client_registered).
THEOREM KeysListedOnceHolds ==
    ASSUME OneLineTexts, JoinedIds = {}, "read" \notin Faults
    PROVE  Spec => []KeysListedOnce
<1>1. Restricted
  BY DEF Restricted
<1>2. Inv => KeysListedOnce
  BY DEF Inv, Sound, KeysListedOnce
<1>. QED BY <1>1, <1>2, InvInit, InvNext, PTL DEF Spec

-----------------------------------------------------------------------------
\* Without writes that are cut short, no line is ever left unfinished, so that
\* nothing is written behind an earlier line's text.
CleanInv == TypeOK /\ Clean(file.lines)

LEMMA CleanStep ==
    ASSUME "short" \notin Faults, CleanInv, [Next]_vars
    PROVE  /\ Clean(file'.lines) /\ Grows(file.lines, file'.lines)
           /\ OneLineTexts /\ Named(file.lines) => Named(file'.lines)
<1> DEFINE Fine == /\ Clean(file'.lines) /\ Grows(file.lines, file'.lines)
                   /\ OneLineTexts /\ Named(file.lines) => Named(file'.lines)
<1>1. TypeOK /\ file \in File /\ Clean(file.lines)
  BY DEF CleanInv, TypeOK
<1>2. CASE file' = file
  BY <1>1, <1>2 DEF Grows
<1>3. CASE file' \in Startup(file)
  BY <1>1, <1>3, StartupClean, Zenon
<1>4. ASSUME NEW id \in DeviceIds, NEW k \in Keys, NEW token \in Tokens,
             NEW o \in authenticate_and_register_device(file, id, k, token), file' = o.file
      PROVE  Fine
  <2>1. /\ Clean(o.file.lines) /\ Grows(file.lines, o.file.lines)
        /\ OneLineTexts /\ Named(file.lines) => Named(o.file.lines)
    BY <1>1, AuthenticateClean, Zenon
  <2>. QED BY <1>4, <2>1
<1> HIDE DEF Fine
<1>5. Fine
  BY <1>1, <1>2, <1>3, <1>4, FileStep DEF Fine
<1>. QED BY <1>5 DEF Fine

LEMMA CleanInvInit == Init => CleanInv /\ Named(file.lines)
BY TypeInit DEF CleanInv, Init, NoFile, Clean, Named

LEMMA CleanInvNext ==
    ASSUME "short" \notin Faults
    PROVE  CleanInv /\ [Next]_vars => CleanInv'
BY TypeNext, CleanStep DEF CleanInv

\* While no write is cut short, a listed key pair is never lost from the list,
\* whatever is written behind it.
THEOREM TrustNeverRevokedHolds ==
    ASSUME "short" \notin Faults
    PROVE  Spec => TrustNeverRevoked
<1>1. CleanInv /\ [Next]_vars =>
        [\A k \in Keys : is_client_registered(file, k) => is_client_registered(file, k)']_vars
  <2>. SUFFICES ASSUME CleanInv, [Next]_vars, NEW k \in Keys, is_client_registered(file, k)
                PROVE  is_client_registered(file, k)'
    OBVIOUS
  <2>1. Grows(file.lines, file'.lines)
    BY CleanStep
  <2>. QED BY <2>1 DEF is_client_registered, Grows
<1>. QED BY <1>1, CleanInvInit, CleanInvNext, PTL DEF Spec, TrustNeverRevoked

\* While the list can be read, no write is cut short and a registration is read back
\* as one line that binds no other id, the file implements the one-to-one binding
\* that only grows: what the readers recover from it starts empty, gains pairs, and
\* never maps an id to two key pairs nor a key pair to two ids.
THEOREM ImplementsBindingHolds ==
    ASSUME OneLineTexts, "short" \notin Faults, "read" \notin Faults
    PROVE  Spec => ImplementsBinding
<1> DEFINE I == Inv /\ CleanInv /\ Named(file.lines)
<1>1. Restricted
  BY TextAssumption DEF Restricted
<1>2. Init => Binding!Init /\ I
  BY InvInit, CleanInvInit DEF Init, NoFile, BoundPairs, Binding!Init
<1>3. I /\ [Next]_vars => I'
  BY <1>1, InvNext, CleanInvNext, CleanStep
<1>4. I /\ [Next]_vars => [Binding!Bind]_BoundPairs
  <2>. SUFFICES ASSUME I, [Next]_vars PROVE Binding!Bind
    OBVIOUS
  <2>1. I' /\ Grows(file.lines, file'.lines)
    BY <1>3, CleanStep
  <2>2. BoundPairs \subseteq BoundPairs'
    BY <2>1 DEF BoundPairs, Grows
  <2>3. BoundPairs' \subseteq Binding!Pairs
    BY <2>1 DEF BoundPairs, Binding!Pairs, Named, Bound
  <2>4. Binding!OneToOne(BoundPairs')
    BY <2>1 DEF BoundPairs, Binding!OneToOne, Inv, Sound, OneOwner, ListedOnce, Named
  <2>. QED BY <2>2, <2>3, <2>4 DEF Binding!Bind
<1> HIDE DEF I
<1>. QED BY <1>2, <1>3, <1>4, PTL DEF Spec, ImplementsBinding, Binding!Spec

\* While no write is lost or cut short, and every registration is read back as it was
\* meant, every device told that it is registered is found from then on.
THEOREM ApprovedStaysTrustedHolds ==
    ASSUME "lost" \notin Faults, "short" \notin Faults, PlainTexts
    PROVE  Spec => []ApprovedStaysTrusted
<1> DEFINE I == CleanInv /\ ApprovedStaysTrusted
<1>1. Init => I
  BY CleanInvInit DEF Init, ApprovedStaysTrusted
<1>2. I /\ [Next]_vars => I'
  <2>. SUFFICES ASSUME I, [Next]_vars PROVE ApprovedStaysTrusted'
    BY CleanInvNext
  <2>0. TypeOK /\ file \in File /\ Clean(file.lines) /\ approved \subseteq Keys
    BY DEF CleanInv, TypeOK
  <2>1. \A k \in Keys : is_client_registered(file, k) => is_client_registered(file', k)
    BY CleanStep DEF is_client_registered, Grows
  <2>2. CASE approved' = approved
    BY <2>0, <2>1, <2>2 DEF ApprovedStaysTrusted
  <2>3. ASSUME NEW id \in DeviceIds, NEW k \in Keys, NEW token \in Tokens,
               NEW o \in authenticate_and_register_device(file, id, k, token),
               file' = o.file, approved' = IF o.ok THEN approved \cup {k} ELSE approved
        PROVE  ApprovedStaysTrusted'
    <3>1. Written(id, k) = <<PlainLine(id, k)>>
      BY DEF PlainTexts
    <3>2. o.ok = TRUE => is_client_registered(file', k)
      <4>1. o.ok = TRUE => is_client_registered(o.file, k)
        BY <2>0, <3>1, AuthenticateClean, Zenon
      <4>. QED BY <2>3, <4>1
    <3>3. CASE o.ok
      BY <2>0, <2>1, <2>3, <3>2, <3>3 DEF ApprovedStaysTrusted
    <3>4. CASE ~o.ok
      BY <2>2, <2>3, <3>4
    <3>. QED BY <3>3, <3>4
  <2>. QED BY <2>0, <2>2, <2>3, FileStep
<1>3. I => ApprovedStaysTrusted
  OBVIOUS
<1>. QED BY <1>1, <1>2, <1>3, PTL DEF Spec

=============================================================================
