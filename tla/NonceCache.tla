------------------------------ MODULE NonceCache ------------------------------
(***************************************************************************)
(* The nonces of the HelloFIUNAM messages the server has accepted, kept    *)
(* per connection to refuse a Hello that is received again (is_nonce_valid *)
(* and cleanup_old_nonces).  The two maps are functions on Conns: {} and   *)
(* Never stand for an entry that is not there.                             *)
(*                                                                         *)
(* steady_clock is the variable now, Window the 5 minutes of the cleanup.  *)
(* The cleanup runs only when a nonce is accepted, on any connection, and  *)
(* drops the whole set of each connection whose LAST nonce is old.         *)
(***************************************************************************)
EXTENDS Integers

CONSTANTS
    Conns,     \* client_id of every connection
    Nonces,    \* values of the nounce field
    Window,    \* std::chrono::minutes(5)
    MaxTime    \* bound on the clock

ASSUME NonceAssumption == Window \in Nat /\ MaxTime \in Nat

VARIABLES
    used_nonces_per_client,
    last_nonce_time,
    now,
    acceptedAt    \* history: when each nonce was last accepted, or Never

nonceVars == <<used_nonces_per_client, last_nonce_time, now, acceptedAt>>

Never == -1

NonceInit ==
    /\ used_nonces_per_client = [c \in Conns |-> {}]
    /\ last_nonce_time = [c \in Conns |-> Never]
    /\ now = 0
    /\ acceptedAt = [c \in Conns |-> [n \in Nonces |-> Never]]

\* Variant: a nonce is old when it is exactly as old as the window.
OutdatedAtWindow(times) == { c \in Conns : times[c] # Never /\ now - times[c] >= Window }

\* Variant: the loop looks at the connection that sent this nonce alone.
OutdatedSender(times) == { c \in Conns : times[c] # last_nonce_time[c] /\ now - times[c] > Window }

\* The connections the loop of cleanup_old_nonces erases from both maps.
Outdated(times) == { c \in Conns : times[c] # Never /\ now - times[c] > Window }

\* Variant: the cleanup erases the times only.
keep_sets(used, old) == used

erase_sets(used, old) == [c \in Conns |-> IF c \in old THEN {} ELSE used[c]]

\* is_nonce_valid returns TRUE: not found in the set, so it is added.
AcceptNonce(c, n) ==
    LET used  == [used_nonces_per_client EXCEPT ![c] = @ \cup {n}]
        times == [last_nonce_time EXCEPT ![c] = now]
        old   == Outdated(times)
    IN  /\ n \notin used_nonces_per_client[c]
        /\ used_nonces_per_client' = erase_sets(used, old)
        /\ last_nonce_time' = [d \in Conns |-> IF d \in old THEN Never ELSE times[d]]
        /\ acceptedAt' = [acceptedAt EXCEPT ![c] = [@ EXCEPT ![n] = now]]
        /\ UNCHANGED now

\* Variant: the system clock, which can be set back.
TickBack == /\ now < MaxTime
            /\ now' \in {now - 1, now + 1}
            /\ UNCHANGED <<used_nonces_per_client, last_nonce_time, acceptedAt>>

Tick == /\ now < MaxTime
        /\ now' = now + 1
        /\ UNCHANGED <<used_nonces_per_client, last_nonce_time, acceptedAt>>

NonceNext == \/ Tick
             \/ \E c \in Conns, n \in Nonces : AcceptNonce(c, n)

NonceSpec == NonceInit /\ [][NonceNext]_nonceVars

-----------------------------------------------------------------------------
NonceTypeOK ==
    /\ used_nonces_per_client \in [Conns -> SUBSET Nonces]
    /\ last_nonce_time \in [Conns -> Nat \cup {Never}]
    /\ now \in Nat
    /\ acceptedAt \in [Conns -> [Nonces -> Nat \cup {Never}]]

\* A nonce accepted at most Window ago is still in its connection's set, so it
\* is refused: no cleanup run for another connection takes it away early.
RecentNoncesRefused ==
    \A c \in Conns, n \in Nonces :
        acceptedAt[c][n] # Never /\ now - acceptedAt[c][n] <= Window
            => n \in used_nonces_per_client[c]

\* Every non-empty set has its time, without which no cleanup would ever find
\* it (the loop iterates over last_nonce_time only), and the other way round.
NoOrphanedNonces ==
    \A c \in Conns : (used_nonces_per_client[c] = {}) <=> (last_nonce_time[c] = Never)

\* A cleanup leaves no nonces of a connection that fell silent more than Window
\* before the one whose nonce runs it, whichever that is: the LAST times of any two
\* connections that are kept are at most Window apart.  (The other nonces of one that
\* goes on talking are kept whatever their age.)
SilentAreForgotten ==
    \A c, d \in Conns :
        last_nonce_time[c] # Never /\ last_nonce_time[d] # Never
            => last_nonce_time[c] - last_nonce_time[d] <= Window

=============================================================================
