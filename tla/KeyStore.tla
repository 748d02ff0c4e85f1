------------------------------- MODULE KeyStore -------------------------------
(***************************************************************************)
(* A device's keys and the file they are kept in, keys/client_<id>_keys.bin *)
(* (the server has one too).  The constructor of SessionKeysAsymetric loads *)
(* the file, or generates keys and saves them.  Nothing of it is atomic:   *)
(* between any two system calls the program may be stopped, or another of  *)
(* the same id may run.                                                    *)
(*                                                                         *)
(* Abstracted: the five fields of the keys are the five places of a        *)
(* sequence, each the number of the generation it comes from; what an      *)
(* uninitialized member holds is a value of Junk.  A save is truncation at *)
(* the open and one write at the close, because the 224 bytes fit the      *)
(* stream's buffer; a load is one read for the same reason.                *)
(***************************************************************************)
EXTENDS Integers, Sequences

CONSTANTS
    Programs,     \* programs that construct keys, each any number of times
    Names,        \* device ids given on the command line
    IdModulus,    \* an automatic id is the time in seconds modulo this
    Junk,         \* what memory nobody wrote to may hold
    NoKeyFile,
    StoreFaults,  \* subset of StoreFaultKinds
    MaxSeconds,   \* bound on the clock
    MaxKeys       \* bound on the generations

\* An existing file cannot be opened, the file cannot be created, the disk is
\* full, or the program is stopped while it constructs its keys.
StoreFaultKinds == {"read", "create", "short", "crash"}

Ids == Names \cup 0..(IdModulus - 1)

\* public_key, private_key, signature, long_term_public_key, long_term_private_key
Fields == 1..5

AllOf(k) == [f \in Fields |-> k]

ASSUME StoreAssumption ==
    /\ IdModulus \in Nat \ {0}
    /\ Junk \subseteq Int \ Nat /\ Junk # {}
    /\ NoKeyFile \notin Seq(Nat)
    /\ StoreFaults \subseteq StoreFaultKinds
    /\ MaxSeconds \in Nat /\ MaxKeys \in Nat

VARIABLES
    keyfile,      \* of each id
    stage,        \* how far each program has come
    device_id,
    held,         \* the keys object of each program
    said,         \* the last line the constructor printed
    generated,    \* generations so far
    seconds,
    keeper,       \* history: the keys last reported as saved under an id, or 0
    contended     \* history: ids whose first keys two programs were constructing at once

storeVars == <<keyfile, stage, device_id, held, said, generated, seconds, keeper, contended>>

KeyInit ==
    /\ keyfile = [id \in Ids |-> NoKeyFile]
    /\ stage = [p \in Programs |-> "off"]
    /\ device_id \in [Programs -> Ids]
    /\ held = [p \in Programs |-> AllOf(0)]
    /\ said = [p \in Programs |-> "nothing"]
    /\ generated = 0 /\ seconds = 0
    /\ keeper = [id \in Ids |-> 0]
    /\ contended = {}

-----------------------------------------------------------------------------
Constructing(p) == stage[p] \in {"opening", "reading", "generated", "saving"}

Moves(p, to) == stage' = [stage EXCEPT ![p] = to]

KeyTick ==
    /\ seconds < MaxSeconds
    /\ seconds' = seconds + 1
    /\ UNCHANGED <<keyfile, stage, device_id, held, said, generated, keeper, contended>>

\* argv[1], or an id made of the time.
ChosenIds == Names \cup {seconds % IdModulus}

Begin(p) ==
    /\ stage[p] = "off" /\ Moves(p, "opening")
    /\ \E id \in ChosenIds :
          /\ device_id' = [device_id EXCEPT ![p] = id]
          /\ contended' = IF keeper[id] = 0 /\ \E q \in Programs : Constructing(q) /\ device_id[q] = id
                          THEN contended \cup {id} ELSE contended
    /\ UNCHANGED <<keyfile, held, said, generated, seconds, keeper>>

FindsFile(p) ==
    /\ stage[p] = "opening" /\ keyfile[device_id[p]] # NoKeyFile
    /\ Moves(p, "reading")
    /\ UNCHANGED <<keyfile, device_id, held, said, generated, seconds, keeper, contended>>

\* Variant: the last field of the file is not read.
ReadOneLess(file, junk) ==
    [f \in Fields |-> IF f < Len(file) THEN file[f] ELSE junk[f]]

\* Variant: what the file holds is taken to be all the fields.
ReadAsItIs(file, junk) == file

\* The count of the bytes read is not looked at.
Read(file, junk) == [f \in Fields |-> IF f <= Len(file) THEN file[f] ELSE junk[f]]

\* Variant: the name of the file is the same for every id.
LoadsAnothers(p) ==
    /\ stage[p] = "reading" /\ Moves(p, "running")
    /\ \E id \in Ids, junk \in [Fields -> Junk] :
          /\ keyfile[id] # NoKeyFile
          /\ held' = [held EXCEPT ![p] = Read(keyfile[id], junk)]
    /\ said' = [said EXCEPT ![p] = "loaded"]
    /\ UNCHANGED <<keyfile, device_id, generated, seconds, keeper, contended>>

Loads(p) ==
    /\ stage[p] = "reading" /\ Moves(p, "running")
    /\ \E junk \in [Fields -> Junk] :
          held' = [held EXCEPT ![p] = Read(keyfile[device_id[p]], junk)]
    /\ said' = [said EXCEPT ![p] = "loaded"]
    /\ UNCHANGED <<keyfile, device_id, generated, seconds, keeper, contended>>

\* Variant: whether there is a file is not asked.
MissingAnyway(p) == TRUE

Missing(p) == keyfile[device_id[p]] = NoKeyFile \/ "read" \in StoreFaults

Generates(p) ==
    /\ stage[p] = "opening" /\ Missing(p)
    /\ generated < MaxKeys /\ generated' = generated + 1
    /\ held' = [held EXCEPT ![p] = AllOf(generated')]
    /\ Moves(p, "generated")
    /\ UNCHANGED <<keyfile, device_id, said, seconds, keeper, contended>>

\* std::ofstream truncates.
Truncates(p) ==
    /\ stage[p] = "generated" /\ Moves(p, "saving")
    /\ keyfile' = [keyfile EXCEPT ![device_id[p]] = <<>>]
    /\ UNCHANGED <<device_id, held, said, generated, seconds, keeper, contended>>

\* The caller ignores the result and goes on with keys it will not have again.
CannotCreate(p) ==
    /\ stage[p] = "generated" /\ "create" \in StoreFaults
    /\ Moves(p, "running")
    /\ said' = [said EXCEPT ![p] = "not saved"]
    /\ UNCHANGED <<keyfile, device_id, held, generated, seconds, keeper, contended>>

\* The first n fields over what the file holds by now.
Overwritten(file, keys, n) ==
    [i \in 1..(IF n > Len(file) THEN n ELSE Len(file)) |-> IF i <= n THEN keys[i] ELSE file[i]]

\* How much was written is not looked at either.
Saves(p) ==
    /\ stage[p] = "saving" /\ Moves(p, "running")
    /\ \E n \in IF "short" \in StoreFaults THEN 0..5 ELSE {5} :
          keyfile' = [keyfile EXCEPT ![device_id[p]] = Overwritten(@, held[p], n)]
    /\ said' = [said EXCEPT ![p] = "saved"]
    /\ keeper' = [keeper EXCEPT ![device_id[p]] = held[p][1]]
    /\ UNCHANGED <<device_id, held, generated, seconds, contended>>

\* The program ends: when it is done, or stopped in its constructor.
Exit(p) ==
    /\ stage[p] = "running" \/ (Constructing(p) /\ "crash" \in StoreFaults)
    /\ Moves(p, "off")
    /\ held' = [held EXCEPT ![p] = AllOf(0)]
    /\ said' = [said EXCEPT ![p] = "nothing"]
    /\ UNCHANGED <<keyfile, device_id, generated, seconds, keeper, contended>>

Construct(p) == \/ Begin(p) \/ FindsFile(p) \/ Loads(p) \/ Generates(p) \/ Truncates(p)
                \/ CannotCreate(p) \/ Saves(p)

KeyNext == KeyTick \/ \E p \in Programs : Construct(p) \/ Exit(p)

KeySpec == KeyInit /\ [][KeyNext]_storeVars

-----------------------------------------------------------------------------
Running(p) == stage[p] = "running"

KeyTypeOK ==
    /\ keyfile \in [Ids -> Seq(Nat) \cup {NoKeyFile}]
    /\ stage \in [Programs -> {"off", "opening", "reading", "generated", "saving", "running"}]
    /\ device_id \in [Programs -> Ids]
    /\ held \in [Programs -> [Fields -> 0..generated \cup Junk]]
    /\ said \in [Programs -> {"nothing", "loaded", "saved", "not saved"}]
    /\ generated \in Nat /\ seconds \in Nat
    /\ keeper \in [Ids -> 0..generated]
    /\ contended \subseteq Ids

\* The fields a program works with come from one generation, or none of them
\* from any (load_keys_from_file does not check): a file is never read half
\* written or half overwritten, and neither a program stopped in the middle of
\* saving nor two of one id that save at once leave a part of a key pair to be used
\* with another's.
NeverMixed ==
    \A p \in Programs : Running(p) =>
        \/ \E k \in 1..generated : held[p] = AllOf(k)
        \/ \A f \in Fields : held[p][f] \in Junk

\* Once keys have been reported as saved under an id, every program of that id
\* works with these, however many construct them at once from then on and however
\* the earlier ones ended; but for programs that said they could not save theirs,
\* and for ids of which two programs constructed the first keys at once: there the
\* earlier goes on with keys that the later has overwritten.
KeysOutliveTheProgram ==
    \A p \in Programs :
        Running(p) /\ said[p] # "not saved" /\ keeper[device_id[p]] # 0
                   /\ device_id[p] \notin contended
            => held[p] = AllOf(keeper[device_id[p]])

=============================================================================
