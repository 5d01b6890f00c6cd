------------------------------ MODULE KeyFiles ------------------------------
(***************************************************************************)
(* The key pairs behind every credential: the files under keys/, how a     *)
(* starting process creates the missing ones (app/main.py), how a serving  *)
(* process finds a private and a public key (app/api/deps.py,              *)
(* app/key_provider.py), and what it signs and accepts with them           *)
(* (app/crypto.py).                                                        *)
(*                                                                         *)
(* A key is a number: the n-th pair made for its signer. The two halves of *)
(* a pair are files of their own, written and found one at a time. Of a    *)
(* credential only its signer and the key it was signed with matter here:  *)
(* it is accepted by whoever finds the public half of that key.            *)
(***************************************************************************)
EXTENDS Integers, FiniteSets

CONSTANTS
    Workers,      \* processes of the program that share the directory keys/
    Actors,       \* "user" and "platform", whose pairs exist in memory too
    Merchants,    \* the demo merchants
    CakeHouse,    \* the one whose pair is mirrored
    Flat,         \* the mirror: merchant_private.pem and merchant_public.pem
    Environments, \* the values of APP_ENV in use: "development", "production"
    MaxStarts,    \* bound: how often processes start
    MaxIssued,    \* bound: credentials that are followed
    MaxFaults     \* bound: overlapping starts, torn writes and lost files

ASSUME CakeHouseAssumption == CakeHouse \in Merchants
ASSUME FlatAssumption == Flat \notin Actors \cup Merchants
ASSUME DistinctAssumption == Actors \cap Merchants = {}
ASSUME EnvironmentsAssumption == Environments \subseteq {"development", "production"}

VARIABLES
    environment, \* APP_ENV
    file,        \* the key each file holds
    minted,      \* how many pairs were made for a signer
    memory,      \* _FALLBACK_KEYS: the pairs a process made when it was imported
    at,          \* where a process stands in lifespan()
    todo,        \* the pairs it has not looked at yet
    working,     \* the half of which pair it writes next, and the new key
    issued,      \* the credentials in circulation
    starts,
    faults,      \* overlapping starts, torn writes and lost files so far
    fresh,       \* (history) the processes imported since a file was last lost
    marred       \* (history) starts overlapped, a write was torn, or a start was cut
                 \* off with a new half beside an old one

vars == <<environment, file, minted, memory, at, todo, working, issued, starts, faults,
          fresh, marred>>

Signers == Actors \cup Merchants
Pairs == Signers \cup {Flat}
Half == {"private", "public"}
Absent == 0
Torn == -1          \* the file exists, its content was never written
Key == Nat \ {0}
Nothing == [pair |-> Flat, half |-> "private", key |-> Absent]

Holding(key) == [half \in Half |-> key]

\* A directory is empty, or was filled by scripts/generate_keypairs.py (no pair
\* of a merchant but the flat one) or by scripts/generate_merchant_keypairs.py.
Provisioned(pairs) == [p \in Pairs |-> Holding(IF p \in pairs THEN 1 ELSE Absent)]

\* Filled by the one and then by the other, or by a development start after the
\* first, it keeps the old flat pair beside CakeHouse's new one.
OldMirror == [Provisioned(Pairs) EXCEPT ![CakeHouse] = Holding(2)]

Init ==
    /\ environment \in Environments
    /\ file \in {Provisioned({}), Provisioned(Actors \cup {Flat}), Provisioned(Pairs), OldMirror}
    /\ minted = [s \in Signers |-> 2]
    /\ memory = [w \in Workers |-> [a \in Actors |-> Absent]]
    /\ at = [w \in Workers |-> "down"]
    /\ todo = [w \in Workers |-> {}]
    /\ working = [w \in Workers |-> Nothing]
    /\ issued = {}
    /\ starts = 0
    /\ faults = 0
    /\ fresh = {}
    /\ marred = FALSE

Exists(p, half) == file[p][half] # Absent
Starting(w) == at[w] \notin {"down", "serving"}
Fault == faults < MaxFaults /\ faults' = faults + 1

-----------------------------------------------------------------------------
(***************************************************************************)
(* Start-up. Importing app.api.deps makes the pairs in memory; lifespan()  *)
(* then makes the missing files, unless in production.                     *)
(***************************************************************************)
Import(w) ==
    /\ at[w] = "down"
    /\ starts < MaxStarts
    /\ starts' = starts + 1
    /\ minted' = [s \in Signers |-> IF s \in Actors THEN minted[s] + 1 ELSE minted[s]]
    /\ memory' = [memory EXCEPT ![w] = [a \in Actors |-> minted[a] + 1]]
    /\ IF environment = "production"
       THEN at' = [at EXCEPT ![w] = "serving"] /\ UNCHANGED <<todo, faults, marred>>
       ELSE /\ at' = [at EXCEPT ![w] = "looking"]
            /\ todo' = [todo EXCEPT ![w] = Signers]
            /\ IF \E v \in Workers : Starting(v)
               THEN Fault /\ marred' = TRUE
               ELSE UNCHANGED <<faults, marred>>
    /\ fresh' = fresh \cup {w}
    /\ UNCHANGED <<environment, file, working, issued>>

\* A mutant: a pair is taken for complete if its private half is there.
PairExistsByPrivate(p) == Exists(p, "private")

PairExists(p) == Exists(p, "private") /\ Exists(p, "public")

\* The actors come first, the merchants in the order of a set.
Look(w, s) ==
    /\ at[w] = "looking"
    /\ s \in todo[w]
    /\ s \in Actors \/ todo[w] \cap Actors = {}
    /\ todo' = [todo EXCEPT ![w] = @ \ {s}]
    /\ IF PairExists(s)
       THEN UNCHANGED <<minted, at, working>>
       ELSE /\ minted' = [minted EXCEPT ![s] = @ + 1]
            /\ working' = [working EXCEPT ![w] =
                   [pair |-> s, half |-> "private", key |-> minted[s] + 1]]
            /\ at' = [at EXCEPT ![w] = "writing"]
    /\ UNCHANGED <<environment, file, memory, issued, starts, faults, fresh, marred>>

\* A mutant: a half that is there is not written again.
WriteMissing(w) ==
    LET job == working[w] IN
    /\ at[w] = "writing"
    /\ file' = IF Exists(job.pair, job.half) THEN file
               ELSE [file EXCEPT ![job.pair][job.half] = job.key]
    /\ IF job.half = "private"
       THEN working' = [working EXCEPT ![w].half = "public"] /\ UNCHANGED at
       ELSE working' = [working EXCEPT ![w] = Nothing] /\ at' = [at EXCEPT ![w] = "looking"]
    /\ UNCHANGED <<environment, minted, memory, todo, issued, starts, faults, fresh, marred>>

\* write_bytes() of the private half, then of the public one.
Write(w) ==
    LET job == working[w] IN
    /\ at[w] = "writing"
    /\ file' = [file EXCEPT ![job.pair][job.half] = job.key]
    /\ IF job.half = "private"
       THEN working' = [working EXCEPT ![w].half = "public"] /\ UNCHANGED at
       ELSE working' = [working EXCEPT ![w] = Nothing] /\ at' = [at EXCEPT ![w] = "looking"]
    /\ UNCHANGED <<environment, minted, memory, todo, issued, starts, faults, fresh, marred>>

AllLookedAt(w) ==
    /\ at[w] = "looking"
    /\ todo[w] = {}
    /\ at' = [at EXCEPT ![w] = "mirroring"]
    /\ UNCHANGED <<environment, file, minted, memory, todo, working, issued, starts, faults,
                   fresh, marred>>

MirrorLacks(half) == Exists(CakeHouse, half) /\ ~Exists(Flat, half)

\* Each half of the mirror is written if there is none.
Mirror(w) ==
    LET half == working[w].half IN
    /\ at[w] = "mirroring"
    /\ file' = IF MirrorLacks(half)
               THEN [file EXCEPT ![Flat][half] = file[CakeHouse][half]] ELSE file
    /\ IF half = "private"
       THEN working' = [working EXCEPT ![w].half = "public"] /\ UNCHANGED at
       ELSE working' = [working EXCEPT ![w] = Nothing] /\ at' = [at EXCEPT ![w] = "serving"]
    /\ UNCHANGED <<environment, minted, memory, todo, issued, starts, faults, fresh, marred>>

StartUp(w) == (\E s \in Signers : Look(w, s)) \/ Write(w) \/ AllLookedAt(w) \/ Mirror(w)

-----------------------------------------------------------------------------
(***************************************************************************)
(* Faults: a process stops at any moment, perhaps between the opening of   *)
(* a file, which empties it, and the writing; files get lost.              *)
(***************************************************************************)
\* The process is between the opening and the writing of a file.
MayTear(w) == at[w] = "writing" \/ (at[w] = "mirroring" /\ MirrorLacks(working[w].half))

\* The new private half is there, beside the public half of the pair before it.
HalvesDiffer(w) ==
    at[w] = "writing" /\ working[w].half = "public" /\ Exists(working[w].pair, "public")

Stop(w) ==
    /\ at[w] # "down"
    /\ at' = [at EXCEPT ![w] = "down"]
    /\ todo' = [todo EXCEPT ![w] = {}]
    /\ working' = [working EXCEPT ![w] = Nothing]
    /\ \/ UNCHANGED <<file, faults>> /\ marred' = (marred \/ HalvesDiffer(w))
       \/ /\ Fault
          /\ MayTear(w)
          /\ file' = [file EXCEPT ![working[w].pair][working[w].half] = Torn]
          /\ marred' = TRUE
    /\ UNCHANGED <<environment, minted, memory, issued, starts, fresh>>

LoseFile(p, half) ==
    /\ Exists(p, half)
    /\ file' = [file EXCEPT ![p][half] = Absent]
    /\ Fault
    /\ fresh' = {}
    /\ UNCHANGED <<environment, minted, memory, at, todo, working, issued, starts, marred>>

-----------------------------------------------------------------------------
(***************************************************************************)
(* Serving. Each half is looked up by itself, on every request.            *)
(***************************************************************************)
\* get_{user,platform}_{private,public}_key_pem() fall back to memory,
\* FilesystemKeyProvider to the mirror, and else raises MerchantKeyNotFound.
Found(w, s, half) ==
    CASE Exists(s, half) -> file[s][half]
      [] ~Exists(s, half) /\ s \in Actors -> memory[w][s]
      [] ~Exists(s, half) /\ s = CakeHouse -> file[Flat][half]
      [] OTHER -> Absent

\* verify_..._jwt(): the signature is that of the public key that is found.
Accepts(w, credential) == Found(w, credential.signer, "public") = credential.key

\* issue_..._jwt() with the private key that is found; no key and a file
\* without a key are errors.
Issue(w, s) ==
    /\ at[w] = "serving"
    /\ Cardinality(issued) < MaxIssued
    /\ Found(w, s, "private") \in Key
    /\ issued' = issued \cup {[signer |-> s, key |-> Found(w, s, "private")]}
    /\ UNCHANGED <<environment, file, minted, memory, at, todo, working, starts, faults,
                   fresh, marred>>

Next ==
    \/ \E w \in Workers : Import(w) \/ StartUp(w) \/ Stop(w)
    \/ \E w \in Workers, s \in Signers : Issue(w, s)
    \/ \E p \in Pairs, half \in Half : LoseFile(p, half)

Spec == Init /\ [][Next]_vars

-----------------------------------------------------------------------------
(***************************************************************************)
(* Properties.                                                             *)
(***************************************************************************)
Serving == {w \in Workers : at[w] = "serving"}
HasAllFiles == \A s \in Signers : PairExists(s)

\* Processes may stop between any two writes of their start-up and start again, one
\* at a time: every process that serves can sign for everyone, and it accepts every
\* credential ever issued, whichever process issued it. In production this asks
\* for the files to be there.
CredentialsSurviveRestarts ==
    faults = 0 /\ (environment = "development" \/ HasAllFiles) =>
        \A w \in Serving :
            /\ \A s \in Signers : Found(w, s, "private") \in Key
            /\ \A c \in issued : Accepts(w, c)

\* In development whatever files get lost are made up for by the next start: once a
\* process that came after the loss serves, every serving process, also an older one,
\* finds two halves that belong together for every signer. Starts that overlap,
\* writes that are torn and starts cut off between a new half and an old one are
\* beyond repair.
LossesHeal ==
    environment = "development" /\ ~marred /\ fresh \cap Serving # {} =>
        \A w \in Serving, s \in Signers :
            /\ Found(w, s, "private") \in Key
            /\ Found(w, s, "private") = Found(w, s, "public")

=============================================================================
