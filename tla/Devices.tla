------------------------------- MODULE Devices -------------------------------
(***************************************************************************)
(* Devices and the server's list of them: a program constructs its keys as *)
(* in KeyStore and presents them in a Hello; the server looks them up, or  *)
(* enters them, as in TrustFile, and then checks the signature.  An id is  *)
(* bound to the first keys presented under it for ever, so a device that   *)
(* loses its keys is locked out.  The ids are plain: one that is written   *)
(* as more than a line is for TrustRegistry.                               *)
(***************************************************************************)
EXTENDS KeyStore, TrustFile

VARIABLES
    trusted,     \* config/trusted_clients.txt
    answer,      \* what each program was told
    accepted     \* history: ids under which saved keys were accepted

vars == <<storeVars, trusted, answer, accepted>>

\* What a Hello carries of the keys, and how the server identifies them.
Presented(h) == <<h[1], h[4]>>

\* The signature is one of these public keys, made with the key that belongs
\* to this long-term key.
ValidSignature(h) == h[1] \in Nat /\ h[1] = h[3] /\ h[3] = h[4]

ASSUME DeviceAssumption ==
    /\ Ids \subseteq DeviceIds
    /\ (0..MaxKeys \cup Junk) \X (0..MaxKeys \cup Junk) \subseteq Keys
    \* The server makes the keys of the default clients itself.
    /\ \A i \in 1..3, k \in 1..MaxKeys : DefaultKeys[i] # <<k, k>>

Init ==
    /\ KeyInit
    /\ trusted \in Startup(NoFile)
    /\ answer = [p \in Programs |-> "none"]
    /\ accepted = {}

\* A step of the programs alone; one that ends or starts has no answer yet.
Program ==
    /\ KeyNext
    /\ answer' = [p \in Programs |-> IF stage'[p] = "running" THEN answer[p] ELSE "none"]
    /\ UNCHANGED <<trusted, accepted>>

Accepts(p, ok) == ok /\ ValidSignature(held[p])

\* validate_signature, and the token is empty in a Hello.
Present(p) ==
    /\ Running(p) /\ answer[p] = "none"
    /\ \E o \in authenticate_and_register_device(trusted, device_id[p], Presented(held[p]), "") :
          /\ trusted' = o.file
          /\ answer' = [answer EXCEPT ![p] = IF Accepts(p, o.ok) THEN "accepted" ELSE "refused"]
          /\ accepted' = IF Accepts(p, o.ok) /\ said[p] # "not saved"
                         THEN accepted \cup {device_id[p]} ELSE accepted
    /\ UNCHANGED storeVars

Next == Program \/ \E p \in Programs : Present(p)

Spec == Init /\ [][Next]_vars

-----------------------------------------------------------------------------
\* A device that was accepted with keys it had saved is not refused when it
\* comes again, whatever ran under its id in between, and although the keys are
\* entered in the list before anything else about the device is known; but for ids
\* of which two programs constructed the first keys at once.
AcceptedIsNotLockedOut ==
    [][\A p \in Programs :
          answer'[p] = "refused" /\ answer[p] # "refused" /\ said[p] # "not saved"
              => device_id[p] \notin accepted \/ device_id[p] \in contended]_vars

\* The list is searched by keys alone (is_client_registered), and the id a Hello
\* gives is then taken as it is; still a program that was accepted is in the list
\* under its own id, whatever becomes of the key files, because no keys, and no
\* part of them, ever come to be held by programs of two ids.
AcceptedUnderOwnId ==
    \A p \in Programs : answer[p] = "accepted" =>
        \E i \in DOMAIN trusted.lines :
            /\ Readable(trusted.lines[i])
            /\ trusted.lines[i].id = device_id[p]
            /\ trusted.lines[i].keys = Presented(held[p])

=============================================================================
