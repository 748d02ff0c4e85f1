-------------------------- MODULE NonceCache_proofs --------------------------
(***************************************************************************)
(* No nonce is forgotten within Window of its acceptance, and a connection *)
(* that falls silent is forgotten by the first cleanup after Window, for   *)
(* every number of connections and nonces and every Window.                *)
(***************************************************************************)
EXTENDS NonceCache, TLAPS

USE NonceAssumption

\* A remembered nonce was accepted no later than its connection's last one; that
\* is why comparing the last one alone never forgets a recent nonce.
AcceptedBeforeLast ==
    \A c \in Conns, n \in Nonces :
        n \in used_nonces_per_client[c] =>
            /\ last_nonce_time[c] # Never
            /\ acceptedAt[c][n] <= last_nonce_time[c]

NonceInv ==
    /\ NonceTypeOK
    /\ AcceptedBeforeLast
    /\ RecentNoncesRefused
    /\ NoOrphanedNonces
    /\ SilentAreForgotten
    /\ \A c \in Conns : last_nonce_time[c] <= now

LEMMA NonceInvInit == NonceInit => NonceInv
BY DEF NonceInit, NonceInv, NonceTypeOK, AcceptedBeforeLast, RecentNoncesRefused,
       NoOrphanedNonces, SilentAreForgotten, Never

LEMMA AcceptNonceKeepsInv ==
    ASSUME NonceInv, NEW c \in Conns, NEW n \in Nonces, AcceptNonce(c, n)
    PROVE  NonceInv'
<1> DEFINE times == [last_nonce_time EXCEPT ![c] = now]
           old == Outdated(times)
<1>1. /\ now' = now /\ now \in Nat
      /\ times \in [Conns -> Nat \cup {Never}]
      /\ times[c] = now /\ c \notin old
      /\ \A d \in Conns \ {c} : times[d] = last_nonce_time[d]
  BY DEF AcceptNonce, NonceInv, NonceTypeOK, Outdated
<1>2. \A d \in Conns :
        /\ d \in old => used_nonces_per_client'[d] = {} /\ last_nonce_time'[d] = Never
        /\ d \notin old /\ d # c => /\ used_nonces_per_client'[d] = used_nonces_per_client[d]
                                    /\ last_nonce_time'[d] = last_nonce_time[d]
        /\ d = c => /\ used_nonces_per_client'[d] = used_nonces_per_client[d] \cup {n}
                    /\ last_nonce_time'[d] = now
  BY <1>1 DEF AcceptNonce, erase_sets, NonceInv, NonceTypeOK
<1>3. \A d \in Conns, m \in Nonces :
        acceptedAt'[d][m] = IF d = c /\ m = n THEN now ELSE acceptedAt[d][m]
  BY DEF AcceptNonce, NonceInv, NonceTypeOK
<1>4. NonceTypeOK'
  BY <1>1 DEF AcceptNonce, erase_sets, NonceInv, NonceTypeOK
<1>5. AcceptedBeforeLast'
  BY <1>1, <1>2, <1>3 DEF AcceptedBeforeLast, NonceInv, NonceTypeOK, Never
<1>6. NoOrphanedNonces'
  <2>1. NoOrphanedNonces /\ now # Never
    BY <1>1 DEF NonceInv, Never
  <2>. QED BY <1>1, <1>2, <2>1 DEF NoOrphanedNonces
<1>7. \A d \in Conns : last_nonce_time'[d] <= now'
  BY <1>1, <1>2 DEF NonceInv, NonceTypeOK, Never
<1>8. RecentNoncesRefused'
  <2>. SUFFICES ASSUME NEW d \in Conns, NEW m \in Nonces,
                       acceptedAt'[d][m] # Never, now' - acceptedAt'[d][m] <= Window
                PROVE  m \in used_nonces_per_client'[d]
    BY DEF RecentNoncesRefused
  <2>1. CASE d = c /\ m = n
    BY <1>2, <2>1
  <2>2. CASE ~(d = c /\ m = n)
    <3>1. /\ acceptedAt'[d][m] = acceptedAt[d][m] /\ acceptedAt[d][m] \in Nat
          /\ m \in used_nonces_per_client[d]
      BY <1>1, <1>3, <2>2 DEF NonceInv, NonceTypeOK, RecentNoncesRefused
    <3>2. last_nonce_time[d] \in Nat /\ acceptedAt[d][m] <= last_nonce_time[d]
      BY <3>1 DEF NonceInv, NonceTypeOK, AcceptedBeforeLast
    <3>3. d \notin old
      BY <1>1, <3>1, <3>2 DEF Outdated, Never
    <3>. QED BY <1>2, <3>1, <3>3
  <2>. QED BY <2>1, <2>2
<1>9. SilentAreForgotten'
  <2>1. \A d \in Conns : last_nonce_time'[d] # Never =>
          now - last_nonce_time'[d] <= Window /\ last_nonce_time'[d] \in Nat
    BY <1>1, <1>2 DEF Outdated, NonceInv, NonceTypeOK, Never
  <2>. QED BY <1>1, <1>7, <2>1 DEF SilentAreForgotten
<1>. QED BY <1>4, <1>5, <1>6, <1>7, <1>8, <1>9 DEF NonceInv

LEMMA TickKeepsInv ==
    ASSUME NonceInv, Tick
    PROVE  NonceInv'
BY DEF Tick, NonceInv, NonceTypeOK, AcceptedBeforeLast, RecentNoncesRefused,
       NoOrphanedNonces, SilentAreForgotten, Never

LEMMA NonceInvNext == NonceInv /\ [NonceNext]_nonceVars => NonceInv'
<1>. SUFFICES ASSUME NonceInv, [NonceNext]_nonceVars PROVE NonceInv'
  OBVIOUS
<1>1. CASE Tick
  BY <1>1, TickKeepsInv
<1>2. ASSUME NEW c \in Conns, NEW n \in Nonces, AcceptNonce(c, n) PROVE NonceInv'
  BY <1>2, AcceptNonceKeepsInv
<1>3. CASE UNCHANGED nonceVars
  BY <1>3 DEF nonceVars, NonceInv, NonceTypeOK, AcceptedBeforeLast, RecentNoncesRefused,
              NoOrphanedNonces, SilentAreForgotten
<1>. QED BY <1>1, <1>2, <1>3 DEF NonceNext

\* The two maps hold times not after now, and nonces, whatever was cleaned up.
THEOREM NonceTypeCorrect == NonceSpec => []NonceTypeOK
<1>1. NonceInv => NonceTypeOK
  BY DEF NonceInv
<1>. QED BY <1>1, NonceInvInit, NonceInvNext, PTL DEF NonceSpec

\* Whatever the number of connections, a cleanup forgets each of them whose last
\* nonce is older than Window, whichever connection runs it.
THEOREM SilentAreForgottenHolds == NonceSpec => []SilentAreForgotten
<1>1. NonceInv => SilentAreForgotten
  BY DEF NonceInv
<1>. QED BY <1>1, NonceInvInit, NonceInvNext, PTL DEF NonceSpec

\* A Hello received again within five minutes is always recognised, whatever the
\* other connections do and whenever their nonces trigger the cleanup.
THEOREM RecentNoncesRefusedHolds == NonceSpec => []RecentNoncesRefused
<1>1. NonceInv => RecentNoncesRefused
  BY DEF NonceInv
<1>. QED BY <1>1, NonceInvInit, NonceInvNext, PTL DEF NonceSpec

\* The two maps always have the same keys: nothing escapes the cleanup.
THEOREM NoOrphanedNoncesHolds == NonceSpec => []NoOrphanedNonces
<1>1. NonceInv => NoOrphanedNonces
  BY DEF NonceInv
<1>. QED BY <1>1, NonceInvInit, NonceInvNext, PTL DEF NonceSpec

=============================================================================
