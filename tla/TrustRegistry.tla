---------------------------- MODULE TrustRegistry ----------------------------
(***************************************************************************)
(* The list of trusted devices over the life of the server program: it is  *)
(* started (which creates the file on first use), asked to register        *)
(* devices, and stopped, any number of times; the file outlives it.        *)
(***************************************************************************)
EXTENDS TrustFile

CONSTANT MaxLines    \* bound on the file: no registration beyond it

VARIABLES
    up,         \* the server program is running
    file,       \* config/trusted_clients.txt
    started,    \* history: the program has been started at least once
    approved    \* history: key pairs a registration has answered TRUE for

vars == <<up, file, started, approved>>

Init == up = FALSE /\ file = NoFile /\ started = FALSE /\ approved = {}

Start ==
    /\ ~up
    /\ up' = TRUE
    /\ file' \in Startup(file)
    /\ started' = TRUE
    /\ UNCHANGED approved

Register(id, k, token) ==
    /\ up
    /\ Len(file.lines) < MaxLines
    /\ \E o \in authenticate_and_register_device(file, id, k, token) :
         /\ file' = o.file
         /\ approved' = IF o.ok THEN approved \cup {k} ELSE approved
    /\ UNCHANGED <<up, started>>

Stop == up /\ up' = FALSE /\ UNCHANGED <<file, started, approved>>

Next == \/ Start
        \/ Stop
        \/ \E id \in DeviceIds, k \in Keys, token \in Tokens : Register(id, k, token)

Spec == Init /\ [][Next]_vars

-----------------------------------------------------------------------------
TypeOK == /\ up \in BOOLEAN
          /\ file \in File
          /\ started \in BOOLEAN
          /\ approved \subseteq Keys

\* "Verificar que no sea un dispositivo duplicado con el mismo device_id pero
\* claves diferentes" (authenticate_and_register_device): an id is never bound to
\* two key pairs, by no sequence of registrations, interrupted writes and restarts.
\* So it is while the list can be read, no id contains a line end (OneLineTexts)
\* and no two parts of ids add up to a third (JoinedIds = {}).
OneKeyPerDevice == OneOwner(file.lines)

\* A key pair is listed at most once, also when fragments of lines are glued to
\* later ones, under the same restrictions as above: is_client_registered is asked
\* before every append.
KeysListedOnce == ListedOnce(file.lines)

\* A device that was told it is registered is found in the list from then on
\* (register_client_public_key returns true, "registered successfully"), so the
\* same keys are never asked to register again or refused later: while ids are
\* plain and at worst the opening to write fails.
ApprovedStaysTrusted ==
    \A k \in approved : is_client_registered(file, k)

\* A listed key pair is never lost from the list, whatever is appended behind it,
\* while no write is cut short.
TrustNeverRevoked ==
    [][\A k \in Keys : is_client_registered(file, k) => is_client_registered(file, k)']_vars

\* Whatever write fails or is cut short, now or later, a line that has its newline
\* stays where and as it is: only the text behind the last newline is ever lost.
FinishedLinesStay ==
    [][\A i \in DOMAIN file.lines :
          file.lines[i].ended => i \in DOMAIN file'.lines /\ file'.lines[i] = file.lines[i]]_vars

\* "First run detected, creating default client keys": once the server has been
\* started, client1..client3 are in the list (auto_register_first_client).
DefaultClientsRegistered ==
    started => \A i \in 1..3 : is_client_registered(file, DefaultKeys[i])

\* The bindings a reader of the file recovers.
BoundPairs ==
    { [id |-> file.lines[i].id, keys |-> file.lines[i].keys] :
        i \in { j \in DOMAIN file.lines : Bound(file.lines[j]) } }

Binding == INSTANCE TrustBinding WITH bound <- BoundPairs

\* The file implements the abstract one-to-one binding that only grows: under the
\* restrictions of OneKeyPerDevice, and while no write is cut short.
ImplementsBinding == Binding!Spec

=============================================================================
