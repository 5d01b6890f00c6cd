--------------------------- MODULE KeyFiles_proofs ---------------------------
(***************************************************************************)
(* Proofs about KeyFiles: credentials survive restarts, and lost files are *)
(* made up for by the next start; for any number of processes, signers,    *)
(* starts, credentials and faults.                                         *)
(***************************************************************************)
EXTENDS KeyFiles, TLAPS

Places == {"down", "looking", "writing", "mirroring", "serving"}

TypeOK ==
    /\ environment \in {"development", "production"}
    /\ file \in [Pairs -> [Half -> Int]]
    /\ minted \in [Signers -> Nat \ {0}]
    /\ memory \in [Workers -> [Actors -> Nat]]
    /\ at \in [Workers -> Places]
    /\ todo \in [Workers -> SUBSET Signers]
    /\ working \in [Workers -> [pair : Pairs, half : Half, key : Nat]]
    /\ issued \subseteq [signer : Signers, key : Int]
    /\ faults \in Nat
    /\ fresh \subseteq Workers
    /\ marred \in BOOLEAN

\* In production nobody writes, and no file is torn.
ProductionReadsOnly ==
    environment = "production" =>
        /\ \A w \in Workers : at[w] \in {"down", "serving"}
        /\ \A p \in Pairs, half \in Half : file[p][half] \in Nat

\* ... and without a fault a pair is there or not, and stays so.
ProductionStays ==
    environment = "production" /\ faults = 0 =>
        /\ \A p \in Pairs : file[p]["private"] = file[p]["public"]
        /\ HasAllFiles => \A c \in issued : c.key = file[c.signer]["public"]

\* In development the processes that start do so one at a time.
StartsAlone == \A v, w \in Workers : Starting(v) /\ Starting(w) => v = w

\* The public half is written last, so a pair that exists is whole; it holds what
\* was signed with it, and is never made again.
PairsAreWhole ==
    \A s \in Signers :
        /\ file[s]["private"] \in Nat
        /\ Exists(s, "public") => file[s]["private"] = file[s]["public"]

Progress ==
    \A w \in Workers :
        /\ at[w] = "looking" => \A s \in Signers \ todo[w] : PairExists(s)
        /\ at[w] = "writing" =>
              /\ working[w].pair \in Signers
              /\ working[w].key \in Key
              /\ ~Exists(working[w].pair, "public")
              /\ working[w].half = "public" => file[working[w].pair]["private"] = working[w].key
              /\ \A s \in Signers \ todo[w] : s # working[w].pair => PairExists(s)
        /\ at[w] \in {"mirroring", "serving"} => HasAllFiles

IssuedAreKept ==
    \A c \in issued : PairExists(c.signer) /\ c.key = file[c.signer]["public"]

DevelopmentIsSafe ==
    environment = "development" /\ faults = 0 =>
        StartsAlone /\ PairsAreWhole /\ Progress /\ IssuedAreKept

KeyInv == TypeOK /\ ProductionReadsOnly /\ ProductionStays /\ DevelopmentIsSafe

\* The invariant says what the properties ask for.
LEMMA KeyInvSurvives == KeyInv => CredentialsSurviveRestarts
<1> SUFFICES ASSUME KeyInv, faults = 0, environment = "development" \/ HasAllFiles,
                    NEW w \in Serving
             PROVE  /\ \A s \in Signers : Found(w, s, "private") \in Key
                    /\ \A c \in issued : Accepts(w, c)
  BY DEF CredentialsSurviveRestarts
<1>1. HasAllFiles
  BY DEF KeyInv, TypeOK, DevelopmentIsSafe, Progress, Serving
<1>2. \A s \in Signers, half \in Half : Found(w, s, half) = file[s][half] /\ file[s][half] # Absent
  BY <1>1 DEF HasAllFiles, PairExists, Exists, Found, Half
<1>3. ASSUME NEW s \in Signers PROVE file[s]["private"] \in Key
  <2>1. CASE environment = "development"
    BY <1>2, <2>1 DEF KeyInv, DevelopmentIsSafe, PairsAreWhole, Key, Half, Absent
  <2>2. CASE environment = "production"
    <3>1. s \in Pairs
      BY DEF Pairs
    <3> QED
      BY <1>2, <2>2, <3>1 DEF KeyInv, ProductionReadsOnly, Key, Half, Absent
  <2> QED
    BY <2>1, <2>2 DEF KeyInv, TypeOK
<1>4. ASSUME NEW c \in issued PROVE Accepts(w, c)
  <2>1. c.signer \in Signers /\ c.signer \in Pairs
    BY DEF KeyInv, TypeOK, Pairs
  <2>2. c.key = file[c.signer]["public"]
    <3>1. CASE environment = "development"
      BY <3>1 DEF KeyInv, DevelopmentIsSafe, IssuedAreKept
    <3>2. CASE environment = "production"
      BY <1>1, <3>2 DEF KeyInv, ProductionStays
    <3> QED
      BY <3>1, <3>2 DEF KeyInv, TypeOK
  <2> QED
    BY <1>2, <2>1, <2>2 DEF Accepts, Half
<1> QED
  BY <1>2, <1>3, <1>4 DEF Half

\* The directories a first process may find hold whole pairs.
LEMMA InitialFiles ==
    ASSUME Init
    PROVE  \E key \in [Pairs -> {0, 1, 2}] : file = [p \in Pairs |-> Holding(key[p])]
<1> DEFINE Of(pairs) == [q \in Pairs |-> IF q \in pairs THEN 1 ELSE 0]
           Old == [q \in Pairs |-> IF q = CakeHouse THEN 2 ELSE 1]
<1>1. \A pairs : Provisioned(pairs) = [p \in Pairs |-> Holding(Of(pairs)[p])]
  BY DEF Provisioned, Absent
<1>2. OldMirror = [p \in Pairs |-> Holding(Old[p])]
  BY DEF OldMirror, Provisioned
<1>3. (\A pairs : Of(pairs) \in [Pairs -> {0, 1, 2}]) /\ Old \in [Pairs -> {0, 1, 2}]
  OBVIOUS
<1> HIDE DEF Of, Old
<1>4. QED
  BY <1>1, <1>2, <1>3 DEF Init

\* Before any process starts there are files and nothing else.
LEMMA KeyInit == Init => KeyInv
<1> SUFFICES ASSUME Init PROVE KeyInv
  OBVIOUS
<1>1. PICK key \in [Pairs -> {0, 1, 2}] : file = [p \in Pairs |-> Holding(key[p])]
  BY InitialFiles
<1>2. \A p \in Pairs, half \in Half : file[p][half] = key[p]
  BY <1>1 DEF Holding
<1>3. file \in [Pairs -> [Half -> Int]]
  BY <1>1 DEF Holding
<1>4. TypeOK
  <2>1. environment \in {"development", "production"}
    BY EnvironmentsAssumption DEF Init
  <2>2. minted \in [Signers -> Nat \ {0}] /\ memory \in [Workers -> [Actors -> Nat]]
    BY DEF Init, Absent
  <2>3. at \in [Workers -> Places] /\ todo \in [Workers -> SUBSET Signers]
    BY DEF Init, Places
  <2>4. working \in [Workers -> [pair : Pairs, half : Half, key : Nat]]
    BY DEF Init, Nothing, Absent, Half, Pairs
  <2>5. issued = {} /\ faults = 0 /\ fresh = {} /\ marred = FALSE
    BY DEF Init
  <2> QED
    BY <1>3, <2>1, <2>2, <2>3, <2>4, <2>5 DEF TypeOK
<1>5. ProductionReadsOnly /\ ProductionStays
  BY <1>2 DEF Init, ProductionReadsOnly, ProductionStays, Half
<1>6. DevelopmentIsSafe
  BY <1>2 DEF Init, DevelopmentIsSafe, StartsAlone, Starting, PairsAreWhole, Progress, IssuedAreKept,
     Exists, Half, Pairs, Absent
<1> QED
  BY <1>4, <1>5, <1>6 DEF KeyInv

-----------------------------------------------------------------------------
(***************************************************************************)
(* The steps.                                                              *)
(***************************************************************************)
LEMMA HalvesAre == Half = {"private", "public"} /\ Absent = 0 /\ Torn = -1
BY DEF Half, Absent, Torn

\* The flat mirror is no signer's own pair.
LEMMA FlatIsNoSigner == Flat \notin Signers /\ Signers \subseteq Pairs /\ Flat \in Pairs
BY FlatAssumption DEF Signers, Pairs

\* What a process works on keeps its type, whichever half comes next.
LEMMA WorkingTypes ==
    ASSUME working \in [Workers -> [pair : Pairs, half : Half, key : Nat]], NEW w \in Workers
    PROVE  /\ [working EXCEPT ![w].half = "public"] \in [Workers -> [pair : Pairs, half : Half, key : Nat]]
           /\ [working EXCEPT ![w] = Nothing] \in [Workers -> [pair : Pairs, half : Half, key : Nat]]
<1> DEFINE Job == [pair : Pairs, half : Half, key : Nat]
<1>1. Nothing \in Job
  BY HalvesAre, FlatIsNoSigner DEF Nothing
<1>2. \A job \in Job : [job EXCEPT !.half = "public"] \in Job
  BY HalvesAre
<1>0. working \in [Workers -> Job] /\ working[w] \in Job
  OBVIOUS
<1> HIDE DEF Job
<1>3. [working EXCEPT ![w].half = "public"] \in [Workers -> Job]
  BY <1>0, <1>2
<1>4. [working EXCEPT ![w] = Nothing] \in [Workers -> Job]
  BY <1>0, <1>1
<1> QED
  BY <1>3, <1>4 DEF Job

\* A process that imports key_provider.py reads the files as they are.
LEMMA ImportStep ==
    ASSUME KeyInv, NEW w \in Workers, Import(w)
    PROVE  KeyInv'
<1> USE DEF KeyInv
<1>1. TypeOK'
  <2>1. starts' = starts + 1 /\ faults' \in Nat
    BY DEF Import, TypeOK, Fault
  <2>4. fresh' \subseteq Workers /\ marred' \in BOOLEAN
    BY DEF Import, TypeOK
  <2>2. minted' \in [Signers -> Nat \ {0}] /\ memory' \in [Workers -> [Actors -> Nat]]
    BY DEF Import, TypeOK, Signers
  <2>3. at' \in [Workers -> Places] /\ todo' \in [Workers -> SUBSET Signers]
    BY DEF Import, TypeOK, Places
  <2> QED
    BY <2>1, <2>2, <2>3, <2>4 DEF Import, TypeOK
<1>2. ProductionReadsOnly'
  BY DEF Import, ProductionReadsOnly, TypeOK
<1>3. ProductionStays'
  BY DEF Import, ProductionStays, HasAllFiles, PairExists, Exists
<1>4. DevelopmentIsSafe'
  <2> SUFFICES ASSUME environment = "development", faults' = 0
               PROVE  (StartsAlone /\ PairsAreWhole /\ Progress /\ IssuedAreKept)'
    BY DEF Import, DevelopmentIsSafe
  <2>1. faults = 0 /\ (\A v \in Workers : ~Starting(v)) /\ at' = [at EXCEPT ![w] = "looking"]
        /\ todo' = [todo EXCEPT ![w] = Signers] /\ UNCHANGED <<file, issued, working>>
    BY DEF Import, Fault, TypeOK
  <2>2. StartsAlone'
    BY <2>1 DEF StartsAlone, Starting, TypeOK
  <2>3. PairsAreWhole' /\ IssuedAreKept'
    BY <2>1 DEF DevelopmentIsSafe, PairsAreWhole, IssuedAreKept, PairExists, Exists
  <2>4. Progress'
    <3> SUFFICES ASSUME NEW v \in Workers
                 PROVE  (/\ at[v] = "looking" => \A s \in Signers \ todo[v] : PairExists(s)
                         /\ at[v] = "writing" =>
                               /\ working[v].pair \in Signers
                               /\ working[v].key \in Key
                               /\ ~Exists(working[v].pair, "public")
                               /\ working[v].half = "public" =>
                                     file[working[v].pair]["private"] = working[v].key
                               /\ \A s \in Signers \ todo[v] : s # working[v].pair => PairExists(s)
                         /\ at[v] \in {"mirroring", "serving"} => HasAllFiles)'
      BY DEF Progress
    <3>1. CASE v = w
      BY <2>1, <3>1 DEF TypeOK
    <3>2. CASE v # w
      BY <2>1, <3>2 DEF DevelopmentIsSafe, Progress, TypeOK, PairExists, Exists, HasAllFiles
    <3> QED
      BY <3>1, <3>2
  <2> QED
    BY <2>2, <2>3, <2>4
<1> QED
  BY <1>1, <1>2, <1>3, <1>4

\* A process that starts up reads a signer's pair, or makes one it will write.
LEMMA LookStep ==
    ASSUME KeyInv, NEW w \in Workers, NEW s \in Signers, Look(w, s)
    PROVE  KeyInv'
<1> USE DEF KeyInv
<1>0. /\ environment = "development" /\ at[w] = "looking"
      /\ UNCHANGED <<environment, file, memory, issued, faults, fresh, marred>>
  BY DEF Look, TypeOK, ProductionReadsOnly
<1>1. TypeOK'
  <2>1. todo' \in [Workers -> SUBSET Signers]
    BY DEF Look, TypeOK
  <2>2. minted' \in [Signers -> Nat \ {0}]
    <3>1. minted \in [Signers -> Nat \ {0}] /\ minted[s] + 1 \in Nat \ {0}
      BY DEF TypeOK
    <3> QED
      BY <3>1 DEF Look
  <2>4. at' \in [Workers -> Places]
    BY DEF Look, TypeOK, Places
  <2>3. working' \in [Workers -> [pair : Pairs, half : Half, key : Nat]]
    <3>1. [pair |-> s, half |-> "private", key |-> minted[s] + 1] \in [pair : Pairs, half : Half, key : Nat]
      BY HalvesAre, FlatIsNoSigner DEF TypeOK
    <3> QED
      BY <3>1 DEF Look, TypeOK
  <2> QED
    BY <1>0, <2>1, <2>2, <2>3, <2>4 DEF TypeOK
<1>2. ProductionReadsOnly' /\ ProductionStays'
  BY <1>0 DEF ProductionReadsOnly, ProductionStays
<1>3. DevelopmentIsSafe'
  <2> SUFFICES ASSUME faults = 0
               PROVE  (StartsAlone /\ PairsAreWhole /\ Progress /\ IssuedAreKept)'
    BY <1>0 DEF DevelopmentIsSafe
  <2>1. StartsAlone /\ PairsAreWhole /\ Progress /\ IssuedAreKept
    BY <1>0 DEF DevelopmentIsSafe
  <2>2. \A v \in Workers \ {w} : at'[v] = at[v] /\ todo'[v] = todo[v] /\ working'[v] = working[v]
    BY DEF Look, TypeOK
  <2>3. todo'[w] = todo[w] \ {s}
    BY DEF Look, TypeOK
  <2>4. StartsAlone'
    BY <1>0, <2>1, <2>2 DEF StartsAlone, Starting
  <2>5. PairsAreWhole' /\ IssuedAreKept'
    BY <1>0, <2>1 DEF PairsAreWhole, IssuedAreKept, PairExists, Exists
  <2>6. \A r : PairExists(r)' = PairExists(r)
    BY <1>0 DEF PairExists, Exists
  <2>7. ASSUME NEW v \in Workers
        PROVE  (/\ at[v] = "looking" => \A r \in Signers \ todo[v] : PairExists(r)
                /\ at[v] = "writing" =>
                      /\ working[v].pair \in Signers
                      /\ working[v].key \in Key
                      /\ ~Exists(working[v].pair, "public")
                      /\ working[v].half = "public" =>
                            file[working[v].pair]["private"] = working[v].key
                      /\ \A r \in Signers \ todo[v] : r # working[v].pair => PairExists(r)
                /\ at[v] \in {"mirroring", "serving"} => HasAllFiles)'
    <3>1. CASE v # w
      BY <1>0, <2>1, <2>2, <3>1 DEF Progress, PairExists, Exists, HasAllFiles
    <3>2. CASE v = w /\ PairExists(s)
      <4>1. at'[w] = "looking"
        BY <1>0, <3>2 DEF Look
      <4>2. \A r \in Signers \ todo'[w] : PairExists(r)
        BY <1>0, <2>1, <2>3, <3>2 DEF Progress
      <4> QED
        BY <2>6, <3>2, <4>1, <4>2
    <3>3. CASE v = w /\ ~PairExists(s)
      <4>1. /\ at'[w] = "writing"
            /\ working'[w] = [pair |-> s, half |-> "private", key |-> minted[s] + 1]
        BY <3>3 DEF Look, TypeOK
      <4>2. minted[s] + 1 \in Key
        BY DEF TypeOK, Key
      <4>3. ~Exists(s, "public")
        <5>1. Exists(s, "public") => file[s]["private"] = file[s]["public"]
          BY <2>1 DEF PairsAreWhole
        <5> QED
          BY <3>3, <5>1 DEF PairExists, Exists
      <4>4. \A r \in Signers \ todo'[w] : r # s => PairExists(r)
        BY <1>0, <2>1, <2>3 DEF Progress
      <4>5. ~Exists(s, "public")'
        BY <1>0, <4>3 DEF Exists
      <4> QED
        BY <2>6, <3>3, <4>1, <4>2, <4>4, <4>5
    <3> QED
      BY <3>1, <3>2, <3>3
  <2>8. Progress'
    BY <2>7 DEF Progress
  <2> QED
    BY <2>4, <2>5, <2>8
<1> QED
  BY <1>1, <1>2, <1>3

\* Writing a half of a pair makes it whole, of the key its process made.
LEMMA WriteStep ==
    ASSUME KeyInv, NEW w \in Workers, Write(w)
    PROVE  KeyInv'
<1> USE DEF KeyInv
<1> DEFINE job == working[w]
<1>0. /\ environment = "development" /\ at[w] = "writing"
      /\ UNCHANGED <<environment, minted, memory, todo, issued, faults, fresh, marred>>
      /\ job \in [pair : Pairs, half : Half, key : Nat]
      /\ file' = [file EXCEPT ![job.pair][job.half] = job.key]
  BY DEF Write, TypeOK, ProductionReadsOnly
<1>1. TypeOK'
  <2>1. file' \in [Pairs -> [Half -> Int]]
    BY <1>0 DEF TypeOK
  <2>2. working' \in [Workers -> [pair : Pairs, half : Half, key : Nat]]
    <3>1. \/ working' = [working EXCEPT ![w].half = "public"]
          \/ working' = [working EXCEPT ![w] = Nothing]
      BY DEF Write
    <3>2. working \in [Workers -> [pair : Pairs, half : Half, key : Nat]]
      BY DEF TypeOK
    <3> QED
      BY ONLY <3>1, <3>2, w \in Workers, WorkingTypes
  <2>3. at' \in [Workers -> Places]
    BY DEF Write, TypeOK, Places
  <2> QED
    BY <1>0, <2>1, <2>2, <2>3 DEF TypeOK
<1>2. ProductionReadsOnly' /\ ProductionStays'
  BY <1>0 DEF ProductionReadsOnly, ProductionStays
<1>3. DevelopmentIsSafe'
  <2> SUFFICES ASSUME faults = 0
               PROVE  (StartsAlone /\ PairsAreWhole /\ Progress /\ IssuedAreKept)'
    BY <1>0 DEF DevelopmentIsSafe
  <2>1. StartsAlone /\ PairsAreWhole /\ Progress /\ IssuedAreKept
    BY <1>0 DEF DevelopmentIsSafe
  <2>2. PICK s \in Signers : s = job.pair
    BY <1>0, <2>1 DEF Progress
  <2>3. /\ job.key \in Key /\ ~Exists(s, "public") /\ ~PairExists(s)
        /\ job.half = "public" => file[s]["private"] = job.key
        /\ \A r \in Signers \ todo[w] : r # s => PairExists(r)
    BY <1>0, <2>1, <2>2 DEF Progress, PairExists
  <2>4. /\ \A r \in Signers \ {s} : file'[r] = file[r]
        /\ file'[s][job.half] = job.key
        /\ \A half \in Half : half # job.half => file'[s][half] = file[s][half]
    BY <1>0, <2>2, FlatIsNoSigner DEF TypeOK
  <2>5. \A v \in Workers \ {w} : at[v] = "down" /\ at'[v] = "down"
    <3> TAKE v \in Workers \ {w}
    <3>1. ~Starting(v)
      BY <1>0, <2>1 DEF StartsAlone, Starting
    <3>2. at[v] # "serving"
      BY <2>1, <2>3 DEF Progress, HasAllFiles
    <3> QED
      BY <3>1, <3>2 DEF Starting, Write, TypeOK
  <2>6. StartsAlone'
    BY <2>5 DEF StartsAlone, Starting
  <2>7. \A r \in Signers \ {s} : PairExists(r)' = PairExists(r)
    BY <2>4 DEF PairExists, Exists
  <2>8. IssuedAreKept'
    <3> SUFFICES ASSUME NEW c \in issued PROVE PairExists(c.signer)' /\ c.key = file'[c.signer]["public"]
      BY <1>0 DEF IssuedAreKept
    <3>1. PICK r \in Signers : r = c.signer
      BY DEF TypeOK
    <3>2. PairExists(r) /\ r # s /\ c.key = file[r]["public"]
      BY <2>1, <2>3, <3>1 DEF IssuedAreKept
    <3>3. PairExists(r)'
      BY <2>7, <3>2
    <3> QED
      BY <2>4, <3>1, <3>2, <3>3
  <2>9. CASE job.half = "private"
    <3>1. /\ at'[w] = "writing"
          /\ working'[w].pair = s /\ working'[w].half = "public" /\ working'[w].key = job.key
      BY <1>0, <2>2, <2>9 DEF Write, TypeOK
    <3>2. file'[s]["private"] = job.key /\ file'[s]["public"] = file[s]["public"]
      BY <2>4, <2>9, HalvesAre
    <3>3. ~Exists(s, "public")'
      BY <2>3, <3>2 DEF Exists
    <3>4. PairsAreWhole'
      BY <2>1, <2>3, <2>4, <3>2, <3>3 DEF PairsAreWhole, Exists, Key
    <3>5. \A r \in Signers \ todo'[w] : r # s => PairExists(r)'
      BY <1>0, <2>3, <2>7
    <3>6. Progress'
      BY <2>3, <2>5, <3>1, <3>2, <3>3, <3>5 DEF Progress
    <3> QED
      BY <2>6, <2>8, <3>4, <3>6
  <2>10. CASE job.half = "public"
    <3>1. at'[w] = "looking"
      BY <1>0, <2>10 DEF Write, TypeOK
    <3>2. file'[s]["public"] = job.key /\ file'[s]["private"] = job.key
      BY <2>3, <2>4, <2>10, HalvesAre
    <3>3. PairExists(s)'
      BY <2>3, <3>2, HalvesAre DEF PairExists, Exists, Key
    <3>4. PairsAreWhole'
      BY <2>1, <2>3, <2>4, <3>2 DEF PairsAreWhole, Exists, Key
    <3>5. \A r \in Signers \ todo'[w] : PairExists(r)'
      BY <1>0, <2>3, <2>7, <3>3
    <3>6. Progress'
      BY <2>5, <3>1, <3>5 DEF Progress
    <3> QED
      BY <2>6, <2>8, <3>4, <3>6
  <2> QED
    BY <1>0, <2>9, <2>10, HalvesAre
<1> QED
  BY <1>1, <1>2, <1>3

\* All pairs were looked at; the mirror is written, which is no signer's pair.
LEMMA MirrorStep ==
    ASSUME KeyInv, NEW w \in Workers, AllLookedAt(w) \/ Mirror(w)
    PROVE  KeyInv'
<1> USE DEF KeyInv
<1>0. /\ environment = "development" /\ Starting(w) /\ at'[w] \in {"mirroring", "serving"}
      /\ UNCHANGED <<environment, minted, memory, todo, issued, faults, fresh, marred>>
      /\ \A v \in Workers \ {w} : at'[v] = at[v] /\ working'[v] = working[v]
  BY DEF AllLookedAt, Mirror, TypeOK, ProductionReadsOnly, Starting
<1>1. file' \in [Pairs -> [Half -> Int]] /\ \A s \in Signers : file'[s] = file[s]
  <2>1. CASE UNCHANGED file
    BY <2>1 DEF TypeOK
  <2>2. CASE file' = [file EXCEPT ![Flat][working[w].half] = file[CakeHouse][working[w].half]]
    <3>1. working[w].half \in Half /\ CakeHouse \in Pairs
      BY CakeHouseAssumption DEF TypeOK, Pairs, Signers
    <3> QED
      BY <2>2, <3>1, FlatIsNoSigner DEF TypeOK
  <2> QED
    BY <2>1, <2>2 DEF AllLookedAt, Mirror
<1>2. TypeOK'
  <2>1. working' \in [Workers -> [pair : Pairs, half : Half, key : Nat]]
    <3>1. \/ working' = [working EXCEPT ![w].half = "public"]
          \/ working' = [working EXCEPT ![w] = Nothing]
          \/ UNCHANGED working
      BY DEF AllLookedAt, Mirror
    <3>2. working \in [Workers -> [pair : Pairs, half : Half, key : Nat]]
      BY DEF TypeOK
    <3> QED
      BY ONLY <3>1, <3>2, w \in Workers, WorkingTypes
  <2>2. at' \in [Workers -> Places]
    BY DEF AllLookedAt, Mirror, TypeOK, Places
  <2> QED
    BY <1>0, <1>1, <2>1, <2>2 DEF TypeOK
<1>3. ProductionReadsOnly' /\ ProductionStays'
  BY <1>0 DEF ProductionReadsOnly, ProductionStays
<1>4. DevelopmentIsSafe'
  <2> SUFFICES ASSUME faults = 0
               PROVE  (StartsAlone /\ PairsAreWhole /\ Progress /\ IssuedAreKept)'
    BY <1>0 DEF DevelopmentIsSafe
  <2>1. StartsAlone /\ PairsAreWhole /\ Progress /\ IssuedAreKept
    BY <1>0 DEF DevelopmentIsSafe
  <2>2. \A s \in Signers : PairExists(s)' = PairExists(s)
    BY <1>1 DEF PairExists, Exists
  <2>3. HasAllFiles
    BY <2>1 DEF AllLookedAt, Mirror, Progress, HasAllFiles
  <2>4. HasAllFiles'
    BY <2>2, <2>3 DEF HasAllFiles
  <2>5. StartsAlone'
    BY <1>0, <2>1 DEF StartsAlone, Starting
  <2>6. PairsAreWhole'
    BY <1>1, <2>1 DEF PairsAreWhole, Exists
  <2>7. IssuedAreKept'
    <3> SUFFICES ASSUME NEW c \in issued PROVE PairExists(c.signer)' /\ c.key = file'[c.signer]["public"]
      BY <1>0 DEF IssuedAreKept
    <3>1. PICK r \in Signers : r = c.signer
      BY DEF TypeOK
    <3> QED
      BY <1>1, <2>1, <2>2, <3>1 DEF IssuedAreKept
  <2>8. Progress'
    <3> SUFFICES ASSUME NEW v \in Workers, v # w
                 PROVE  (/\ at[v] = "looking" => \A s \in Signers \ todo[v] : PairExists(s)
                         /\ at[v] # "writing")'
      BY <1>0, <2>4 DEF Progress
    <3> QED
      BY <1>0, <2>1 DEF StartsAlone, Starting
  <2> QED
    BY <2>5, <2>6, <2>7, <2>8
<1> QED
  BY <1>2, <1>3, <1>4

\* Stopping without a fault writes nothing; with one there is nothing to show for
\* development, and production does not write.
LEMMA StopStep ==
    ASSUME KeyInv, NEW w \in Workers, Stop(w)
    PROVE  KeyInv'
<1> USE DEF KeyInv
<1>0. /\ UNCHANGED <<environment, minted, memory, issued, fresh>>
      /\ marred' \in BOOLEAN
      /\ at' = [at EXCEPT ![w] = "down"]
      /\ todo' = [todo EXCEPT ![w] = {}]
      /\ working' = [working EXCEPT ![w] = Nothing]
  BY DEF Stop, TypeOK
<1>1. \/ UNCHANGED <<file, faults>>
      \/ /\ Fault /\ MayTear(w)
         /\ file' = [file EXCEPT ![working[w].pair][working[w].half] = Torn]
  BY DEF Stop
<1>2. faults' \in Nat /\ (faults' = 0 => faults = 0 /\ UNCHANGED file)
  BY <1>1 DEF Fault, TypeOK
<1>3. TypeOK'
  <2>1. file' \in [Pairs -> [Half -> Int]]
    <3>1. PICK p \in Pairs, half \in Half : p = working[w].pair /\ half = working[w].half
      BY DEF TypeOK
    <3>2. file \in [Pairs -> [Half -> Int]] /\ Torn \in Int
      BY HalvesAre DEF TypeOK
    <3>3. [file EXCEPT ![p][half] = Torn] \in [Pairs -> [Half -> Int]]
      BY <3>2
    <3> QED
      BY <1>1, <3>1, <3>2, <3>3
  <2>2. working' \in [Workers -> [pair : Pairs, half : Half, key : Nat]]
    BY <1>0, WorkingTypes DEF TypeOK
  <2> QED
    BY <1>0, <1>2, <2>1, <2>2 DEF TypeOK, Places
<1>4. ProductionReadsOnly'
  <2> SUFFICES ASSUME environment = "production"
               PROVE  (/\ \A v \in Workers : at[v] \in {"down", "serving"}
                       /\ \A p \in Pairs, half \in Half : file[p][half] \in Nat)'
    BY <1>0 DEF ProductionReadsOnly
  <2>1. ~MayTear(w)
    BY DEF MayTear, ProductionReadsOnly
  <2> QED
    BY <1>0, <1>1, <2>1 DEF ProductionReadsOnly, TypeOK
<1>5. ProductionStays'
  BY <1>0, <1>2 DEF ProductionStays, HasAllFiles, PairExists, Exists
<1>6. DevelopmentIsSafe'
  <2> SUFFICES ASSUME environment = "development", faults' = 0
               PROVE  (StartsAlone /\ PairsAreWhole /\ Progress /\ IssuedAreKept)'
    BY <1>0 DEF DevelopmentIsSafe
  <2>1. StartsAlone /\ PairsAreWhole /\ Progress /\ IssuedAreKept /\ UNCHANGED file
    BY <1>2 DEF DevelopmentIsSafe
  <2>2. StartsAlone'
    BY <1>0, <2>1 DEF StartsAlone, Starting, TypeOK
  <2>3. PairsAreWhole' /\ IssuedAreKept'
    BY <1>0, <2>1 DEF PairsAreWhole, IssuedAreKept, PairExists, Exists
  <2>4. at'[w] = "down"
    BY <1>0 DEF TypeOK
  <2>5. \A v \in Workers \ {w} : at'[v] = at[v] /\ todo'[v] = todo[v] /\ working'[v] = working[v]
    BY <1>0 DEF TypeOK
  <2>6. Progress'
    BY <2>1, <2>4, <2>5 DEF Progress, PairExists, Exists, HasAllFiles
  <2> QED
    BY <2>2, <2>3, <2>6
<1> QED
  BY <1>3, <1>4, <1>5, <1>6

\* Losing a file is a fault, after which development promises nothing.
LEMMA LoseStep ==
    ASSUME KeyInv, NEW p \in Pairs, NEW half \in Half, LoseFile(p, half)
    PROVE  KeyInv'
<1> USE DEF KeyInv
<1>1. faults' \in Nat \ {0}
  BY DEF LoseFile, Fault, TypeOK
<1>2. file' \in [Pairs -> [Half -> Int]]
  BY HalvesAre DEF LoseFile, TypeOK
<1>3. TypeOK'
  BY <1>1, <1>2 DEF LoseFile, TypeOK
<1>4. ProductionReadsOnly'
  <2>1. \A q \in Pairs, h \in Half : file'[q][h] = file[q][h] \/ file'[q][h] = 0
    BY DEF LoseFile, Absent, TypeOK
  <2> QED
    BY <2>1 DEF LoseFile, ProductionReadsOnly
<1> QED
  BY <1>1, <1>3, <1>4 DEF ProductionStays, DevelopmentIsSafe

\* A process issues a credential with the private key it finds.
LEMMA IssueStep ==
    ASSUME KeyInv, NEW w \in Workers, NEW s \in Signers, Issue(w, s)
    PROVE  KeyInv'
<1> USE DEF KeyInv
<1> DEFINE new == [signer |-> s, key |-> Found(w, s, "private")]
<1>1. /\ at[w] = "serving" /\ Found(w, s, "private") \in Key /\ issued' = issued \cup {new}
      /\ UNCHANGED <<environment, file, minted, memory, at, todo, working, faults, fresh, marred>>
  BY DEF Issue
<1>2. TypeOK'
  <2>1. new \in [signer : Signers, key : Int]
    BY <1>1 DEF Key
  <2> HIDE DEF new
  <2> QED
    BY <1>1, <2>1 DEF TypeOK
<1>3. HasAllFiles => Found(w, s, "private") = file[s]["private"] /\ PairExists(s)
  BY DEF HasAllFiles, PairExists, Exists, Found
<1>4. ProductionReadsOnly'
  BY <1>1 DEF ProductionReadsOnly
<1>5. ProductionStays'
  <2> SUFFICES ASSUME environment = "production", faults = 0
               PROVE  (/\ \A p \in Pairs : file[p]["private"] = file[p]["public"]
                       /\ HasAllFiles => \A c \in issued : c.key = file[c.signer]["public"])'
    BY <1>1 DEF ProductionStays
  <2>1. HasAllFiles' = HasAllFiles
    BY <1>1 DEF HasAllFiles, PairExists, Exists
  <2>2. HasAllFiles => new.key = file[new.signer]["public"]
    BY <1>3, FlatIsNoSigner DEF ProductionStays
  <2> HIDE DEF new
  <2> QED
    BY <1>1, <2>1, <2>2 DEF ProductionStays
<1>6. DevelopmentIsSafe'
  <2> SUFFICES ASSUME environment = "development", faults = 0
               PROVE  (StartsAlone /\ PairsAreWhole /\ Progress /\ IssuedAreKept)'
    BY <1>1 DEF DevelopmentIsSafe
  <2>1. StartsAlone /\ PairsAreWhole /\ Progress /\ IssuedAreKept
    BY DEF DevelopmentIsSafe
  <2>2. (StartsAlone /\ PairsAreWhole /\ Progress)'
    BY <1>1, <2>1 DEF StartsAlone, Starting, PairsAreWhole, Progress, PairExists, Exists, HasAllFiles
  <2>3. HasAllFiles
    BY <1>1, <2>1 DEF Progress
  <2>4. PairExists(new.signer) /\ new.key = file[new.signer]["public"]
    BY <1>3, <2>1, <2>3 DEF PairsAreWhole, PairExists, Exists
  <2> HIDE DEF new
  <2>5. IssuedAreKept'
    BY <1>1, <2>1, <2>4 DEF IssuedAreKept, PairExists, Exists
  <2> QED
    BY <2>2, <2>5
<1> QED
  BY <1>2, <1>4, <1>5, <1>6

\* Every step keeps the invariant.
LEMMA KeyStep == KeyInv /\ [Next]_vars => KeyInv'
<1> SUFFICES ASSUME KeyInv, [Next]_vars PROVE KeyInv'
  OBVIOUS
<1>1. ASSUME NEW w \in Workers, Import(w) \/ StartUp(w) \/ Stop(w) PROVE KeyInv'
  BY <1>1, ImportStep, LookStep, WriteStep, MirrorStep, StopStep DEF StartUp
<1>2. ASSUME NEW w \in Workers, NEW s \in Signers, Issue(w, s) PROVE KeyInv'
  BY <1>2, IssueStep
<1>3. ASSUME NEW p \in Pairs, NEW half \in Half, LoseFile(p, half) PROVE KeyInv'
  BY <1>3, LoseStep
<1>4. CASE UNCHANGED vars
  BY <1>4 DEF vars, KeyInv, TypeOK, ProductionReadsOnly, ProductionStays, DevelopmentIsSafe,
     StartsAlone, Starting, PairsAreWhole, Progress, IssuedAreKept, HasAllFiles, PairExists, Exists
<1> QED
  BY <1>1, <1>2, <1>3, <1>4 DEF Next

-----------------------------------------------------------------------------
\* The inductive invariant holds throughout.
LEMMA KeyInvHolds == Spec => []KeyInv
BY KeyInit, KeyStep, PTL DEF Spec

\* The files and processes keep their types.
THEOREM TypeCorrect == Spec => []TypeOK
<1>1. KeyInv => TypeOK
  BY DEF KeyInv
<1> QED
  BY <1>1, KeyInvHolds, PTL

\* app/main.py lifespan(): however often processes stop in the middle of their
\* start-up and start again, one at a time, every serving process can sign for
\* everyone and accepts whatever any process ever issued.
THEOREM CredentialsSurvive == Spec => []CredentialsSurviveRestarts
BY KeyInvHolds, KeyInvSurvives, PTL

-----------------------------------------------------------------------------
(***************************************************************************)
(* Lost files.                                                             *)
(***************************************************************************)
Fits(s) == file[s]["private"] \in Key /\ file[s]["private"] = file[s]["public"]

\* Somebody has written the private half of s and goes on to the public one.
HalfWritten(s) ==
    \E w \in Workers : at[w] = "writing" /\ working[w].pair = s /\ working[w].half = "public"

\* What a process that writes a pair has done so far is not undone, but for a loss.
WritesInStep(w) ==
    at[w] = "writing" =>
        /\ working[w].pair \in Signers
        /\ working[w].key \in Key
        /\ working[w].half = "private" => ~PairExists(working[w].pair)
        /\ working[w].half = "public" => file[working[w].pair]["private"] \in {Absent, working[w].key}

\* Behind a process that was imported after the last loss every pair is complete,
\* and once it serves nobody has anything to write.
LeavesNoGap(w) ==
    w \in fresh =>
        /\ at[w] = "looking" => \A s \in Signers \ todo[w] : PairExists(s)
        /\ at[w] = "writing" => \A s \in Signers \ todo[w] : s # working[w].pair => PairExists(s)
        /\ at[w] = "writing" /\ working[w].half = "public" =>
              file[working[w].pair]["private"] = working[w].key
        /\ at[w] \in {"mirroring", "serving"} => HasAllFiles
        /\ at[w] = "serving" => \A v \in Workers : at[v] # "writing"

Mends ==
    /\ StartsAlone
    /\ \A s \in Signers, half \in Half : file[s][half] \in Nat
    /\ \A s \in Signers : PairExists(s) => Fits(s) \/ HalfWritten(s)
    /\ \A w \in Workers : WritesInStep(w) /\ LeavesNoGap(w)

Healing == environment = "development" /\ ~marred => Mends

\* Where nobody is writing, complete pairs fit.
LEMMA HealingHeals == TypeOK /\ Healing => LossesHeal
<1> SUFFICES ASSUME TypeOK, Healing, environment = "development", ~marred,
                    NEW w \in fresh \cap Serving, NEW v \in Serving, NEW s \in Signers
             PROVE  /\ Found(v, s, "private") \in Key
                    /\ Found(v, s, "private") = Found(v, s, "public")
  BY DEF LossesHeal
<1>1. Mends /\ w \in Workers /\ at[w] = "serving"
  BY DEF Healing, Serving
<1>2. HasAllFiles /\ \A u \in Workers : at[u] # "writing"
  BY <1>1 DEF Mends, LeavesNoGap
<1>3. PairExists(s) /\ ~HalfWritten(s)
  BY <1>2 DEF HasAllFiles, HalfWritten
<1>4. Fits(s)
  BY <1>1, <1>3 DEF Mends
<1>5. QED
  BY <1>3, <1>4 DEF Fits, PairExists, Found, Half

\* Nothing is half written before the first start.
LEMMA MendsInit == Init => Healing
<1> SUFFICES ASSUME Init PROVE Mends
  BY DEF Healing
<1>1. PICK key \in [Pairs -> {0, 1, 2}] : file = [p \in Pairs |-> Holding(key[p])]
  BY InitialFiles
<1>2. \A s \in Signers, half \in Half : file[s][half] = key[s]
  BY <1>1, FlatIsNoSigner DEF Holding
<1>3. \A s \in Signers : PairExists(s) => Fits(s)
  BY <1>1, <1>2, FlatIsNoSigner DEF PairExists, Exists, Fits, Key, Absent, Half
<1>4. QED
  BY <1>1, <1>2, <1>3, FlatIsNoSigner
  DEF Init, Mends, StartsAlone, Starting, WritesInStep, LeavesNoGap

\* What the invariant says of pairs and processes is about the files and their places.
LEMMA MendsOfOthers ==
    ASSUME Mends, UNCHANGED <<file, fresh>>, NEW v \in Workers,
           at'[v] = at[v], todo'[v] = todo[v], working'[v] = working[v],
           at[v] = "serving" => \A u \in Workers : at'[u] = "writing" => at[u] = "writing"
    PROVE  WritesInStep(v)' /\ LeavesNoGap(v)'
BY DEF Mends, WritesInStep, LeavesNoGap, PairExists, Exists, HasAllFiles

\* A process that starts has everything to look at; if another one is starting too,
\* the starts overlap.
LEMMA MendsImport ==
    ASSUME TypeOK, Healing, NEW w \in Workers, Import(w)
    PROVE  Healing'
<1> SUFFICES ASSUME environment = "development", ~marred' PROVE Mends'
  BY DEF Healing, Import
<1>1. /\ Mends /\ ~\E v \in Workers : Starting(v)
      /\ at' = [at EXCEPT ![w] = "looking"] /\ todo' = [todo EXCEPT ![w] = Signers]
      /\ fresh' = fresh \cup {w} /\ UNCHANGED <<file, working>> /\ at[w] = "down"
  BY DEF Healing, Import, TypeOK
<1>2. StartsAlone'
  BY <1>1 DEF StartsAlone, Starting, TypeOK
<1>3. \A s \in Signers : /\ PairExists(s)' <=> PairExists(s)
                         /\ Fits(s)' <=> Fits(s)
                         /\ ~HalfWritten(s)
  BY <1>1 DEF PairExists, Exists, Fits, HalfWritten, Starting
<1>4. ASSUME NEW v \in Workers, v # w PROVE WritesInStep(v)' /\ LeavesNoGap(v)'
  <2>1. at'[v] = at[v] /\ at[v] \notin {"looking", "writing", "mirroring"} /\ (v \in fresh' => v \in fresh)
    BY <1>1, <1>4 DEF Starting, TypeOK
  <2>2. \A u \in Workers : at'[u] # "writing"
    BY <1>1 DEF Starting, TypeOK
  <2>3. LeavesNoGap(v) /\ (HasAllFiles' <=> HasAllFiles)
    BY <1>1, <1>3 DEF Mends, HasAllFiles
  <2>4. QED
    BY <2>1, <2>2, <2>3 DEF WritesInStep, LeavesNoGap
<1>5. WritesInStep(w)' /\ LeavesNoGap(w)'
  BY <1>1 DEF WritesInStep, LeavesNoGap, TypeOK
<1>6. QED
  BY <1>1, <1>2, <1>3, <1>4, <1>5 DEF Mends

\* A pair that is looked at is complete, or its making starts.
LEMMA MendsLook ==
    ASSUME TypeOK, Healing, NEW w \in Workers, NEW s \in Signers, Look(w, s)
    PROVE  Healing'
<1> SUFFICES ASSUME environment = "development", ~marred' PROVE Mends'
  BY DEF Healing, Look
<1>1. /\ Mends /\ at[w] = "looking" /\ UNCHANGED <<file, fresh>>
      /\ todo' = [todo EXCEPT ![w] = @ \ {s}]
      /\ \A v \in Workers \ {w} : at'[v] = at[v] /\ todo'[v] = todo[v] /\ working'[v] = working[v]
  BY DEF Healing, Look, TypeOK
<1>2. \A r : /\ PairExists(r)' <=> PairExists(r)
             /\ Fits(r)' <=> Fits(r)
  BY <1>1 DEF PairExists, Exists, Fits
<1>3. /\ PairExists(s) => at'[w] = "looking" /\ working'[w] = working[w]
      /\ ~PairExists(s) => /\ at'[w] = "writing"
                           /\ working'[w] = [pair |-> s, half |-> "private", key |-> minted[s] + 1]
  BY <1>1 DEF Look, TypeOK
<1>4. StartsAlone'
  BY <1>1 DEF Mends, StartsAlone, Starting
<1>5. \A r \in Signers : HalfWritten(r) => HalfWritten(r)'
  BY <1>1 DEF HalfWritten
<1>6. ASSUME NEW v \in Workers, v # w PROVE WritesInStep(v)' /\ LeavesNoGap(v)'
  <2>1. CASE at[v] = "serving" /\ v \in fresh
    <3>1. PairExists(s) /\ \A u \in Workers : at[u] # "writing"
      BY <1>1, <2>1 DEF Mends, LeavesNoGap, HasAllFiles
    <3>2. \A u \in Workers : at'[u] # "writing"
      BY <1>1, <1>3, <3>1
    <3>3. QED
      BY <1>1, <1>6, <3>2, MendsOfOthers
  <2>2. CASE ~(at[v] = "serving" /\ v \in fresh)
    BY <1>1, <1>2, <1>6, <2>2 DEF Mends, WritesInStep, LeavesNoGap, HasAllFiles
  <2>3. QED
    BY <2>1, <2>2
<1>7. WritesInStep(w)' /\ LeavesNoGap(w)'
  <2>1. w \in fresh => \A r \in Signers \ todo[w] : PairExists(r)
    BY <1>1 DEF Mends, LeavesNoGap
  <2>2. todo'[w] = todo[w] \ {s}
    BY <1>1 DEF TypeOK
  <2>3. minted[s] + 1 \in Key
    BY DEF TypeOK, Key
  <2>4. CASE PairExists(s)
    BY <1>1, <1>2, <1>3, <2>1, <2>2, <2>4 DEF WritesInStep, LeavesNoGap
  <2>5. CASE ~PairExists(s)
    BY <1>1, <1>2, <1>3, <2>1, <2>2, <2>3, <2>5 DEF WritesInStep, LeavesNoGap
  <2>6. QED
    BY <2>4, <2>5
<1>8. \A r \in Signers : PairExists(r)' => Fits(r)' \/ HalfWritten(r)'
  BY <1>1, <1>2, <1>5 DEF Mends
<1>9. QED
  BY <1>1, <1>4, <1>6, <1>7, <1>8 DEF Mends

\* Once both halves are written they fit.
LEMMA MendsWrite ==
    ASSUME TypeOK, Healing, NEW w \in Workers, Write(w)
    PROVE  Healing'
<1> SUFFICES ASSUME environment = "development", ~marred' PROVE Mends'
  BY DEF Healing, Write
<1> DEFINE job == working[w]
<1>1. /\ Mends /\ at[w] = "writing" /\ UNCHANGED <<todo, fresh>>
      /\ job \in [pair : Pairs, half : Half, key : Nat]
      /\ file' = [file EXCEPT ![job.pair][job.half] = job.key]
      /\ \A v \in Workers \ {w} : at'[v] = at[v] /\ working'[v] = working[v]
  BY DEF Healing, Write, TypeOK
<1>2. PICK s \in Signers : s = job.pair
  BY <1>1 DEF Mends, WritesInStep
<1>3. /\ job.key \in Key
      /\ job.half = "private" => ~PairExists(s)
      /\ job.half = "public" => file[s]["private"] \in {Absent, job.key}
  BY <1>1, <1>2 DEF Mends, WritesInStep
<1>4. /\ \A r \in Signers \ {s} : file'[r] = file[r]
      /\ file'[s][job.half] = job.key
      /\ \A half \in Half : half # job.half => file'[s][half] = file[s][half]
  BY <1>1, <1>2, FlatIsNoSigner DEF TypeOK
<1>5. /\ \A v \in Workers \ {w} : ~Starting(v)
      /\ StartsAlone'
  BY <1>1 DEF Mends, StartsAlone, Starting
<1>6. \A r \in Signers \ {s} : /\ PairExists(r)' <=> PairExists(r)
                               /\ Fits(r)' <=> Fits(r)
                               /\ ~HalfWritten(r)
  BY <1>1, <1>2, <1>4, <1>5 DEF PairExists, Exists, Fits, HalfWritten, Starting
<1>7. \A r \in Signers, half \in Half : file'[r][half] \in Nat
  BY <1>1, <1>3, <1>4 DEF Mends, Key
<1>8. ASSUME NEW v \in Workers, v # w PROVE WritesInStep(v)' /\ LeavesNoGap(v)'
  <2>1. v \in fresh => at[v] # "serving"
    BY <1>1 DEF Mends, LeavesNoGap
  <2>2. QED
    BY <1>1, <1>5, <1>8, <2>1 DEF WritesInStep, LeavesNoGap, Starting
<1>9. w \in fresh => \A r \in Signers \ todo[w] : r # s => PairExists(r)
  BY <1>1, <1>2 DEF Mends, LeavesNoGap
<1>10. CASE job.half = "private"
  <2>1. /\ at'[w] = "writing"
        /\ working'[w].pair = s /\ working'[w].half = "public" /\ working'[w].key = job.key
    BY <1>1, <1>2, <1>10 DEF Write, TypeOK
  <2>2. file'[s]["private"] = job.key
    BY <1>4, <1>10
  <2>3. HalfWritten(s)'
    BY <2>1 DEF HalfWritten
  <2>4. WritesInStep(w)' /\ LeavesNoGap(w)'
    BY <1>1, <1>3, <1>6, <1>9, <2>1, <2>2 DEF WritesInStep, LeavesNoGap
  <2>5. QED
    BY <1>1, <1>5, <1>6, <1>7, <1>8, <2>3, <2>4 DEF Mends
<1>11. CASE job.half = "public"
  <2>1. at'[w] = "looking"
    BY <1>1, <1>11 DEF Write, TypeOK
  <2>2. file'[s]["public"] = job.key /\ file'[s]["private"] = file[s]["private"]
    BY <1>4, <1>11, HalvesAre
  <2>3. PairExists(s)' => Fits(s)'
    BY <1>3, <1>11, <2>2 DEF PairExists, Exists, Fits
  <2>4. w \in fresh => PairExists(s)'
    <3>1. w \in fresh => file[s]["private"] = job.key
      BY <1>1, <1>2, <1>11 DEF Mends, LeavesNoGap
    <3>2. QED
      BY <1>3, <2>2, <3>1, HalvesAre DEF PairExists, Exists, Key
  <2>5. WritesInStep(w)' /\ LeavesNoGap(w)'
    BY <1>1, <1>6, <1>9, <2>1, <2>4 DEF WritesInStep, LeavesNoGap
  <2>6. QED
    BY <1>1, <1>5, <1>6, <1>7, <1>8, <2>3, <2>5 DEF Mends
<1>12. QED
  BY <1>1, <1>10, <1>11, HalvesAre

\* A process that has looked at every pair leaves them all complete.
LEMMA MendsMirror ==
    ASSUME TypeOK, Healing, NEW w \in Workers, AllLookedAt(w) \/ Mirror(w)
    PROVE  Healing'
<1> SUFFICES ASSUME environment = "development", ~marred' PROVE Mends'
  BY DEF Healing, AllLookedAt, Mirror
<1>1. /\ Mends /\ Starting(w) /\ at[w] # "writing" /\ at'[w] \in {"mirroring", "serving"}
      /\ UNCHANGED <<todo, fresh>>
      /\ \A v \in Workers \ {w} : at'[v] = at[v] /\ working'[v] = working[v]
      /\ at[w] = "looking" => todo[w] = {}
      /\ at[w] \in {"looking", "mirroring"}
  BY DEF Healing, AllLookedAt, Mirror, TypeOK, Starting
<1>2. \A s \in Signers : file'[s] = file[s]
  BY CakeHouseAssumption, FlatIsNoSigner DEF AllLookedAt, Mirror, TypeOK
<1>3. \A s \in Signers : /\ PairExists(s)' <=> PairExists(s)
                         /\ Fits(s)' <=> Fits(s)
                         /\ ~HalfWritten(s)
  BY <1>1, <1>2 DEF PairExists, Exists, Fits, HalfWritten, Mends, StartsAlone, Starting
<1>4. StartsAlone' /\ \A v \in Workers : at'[v] # "writing"
  BY <1>1 DEF Mends, StartsAlone, Starting
<1>5. HasAllFiles' <=> HasAllFiles
  BY <1>3 DEF HasAllFiles
<1>6. w \in fresh => HasAllFiles
  BY <1>1 DEF Mends, LeavesNoGap, HasAllFiles
<1>7. ASSUME NEW v \in Workers, v # w PROVE WritesInStep(v)' /\ LeavesNoGap(v)'
  <2>1. at'[v] \in {"down", "serving"} /\ at[v] = at'[v]
    BY <1>1, <1>7 DEF Mends, StartsAlone, Starting
  <2>2. QED
    BY <1>1, <1>4, <1>5, <2>1 DEF Mends, WritesInStep, LeavesNoGap
<1>8. WritesInStep(w)' /\ LeavesNoGap(w)'
  BY <1>1, <1>4, <1>5, <1>6 DEF WritesInStep, LeavesNoGap
<1>9. \A s \in Signers, half \in Half : file'[s][half] \in Nat
  BY <1>1, <1>2 DEF Mends
<1>10. QED
  BY <1>1, <1>3, <1>4, <1>7, <1>8, <1>9 DEF Mends

\* A start may be cut off anywhere but between a new half and an old one.
LEMMA MendsStop ==
    ASSUME TypeOK, Healing, NEW w \in Workers, Stop(w)
    PROVE  Healing'
<1> SUFFICES ASSUME environment = "development", ~marred' PROVE Mends'
  BY DEF Healing, Stop
<1>1. /\ Mends /\ ~HalvesDiffer(w) /\ UNCHANGED <<file, fresh>> /\ at'[w] = "down"
      /\ \A v \in Workers \ {w} : at'[v] = at[v] /\ todo'[v] = todo[v] /\ working'[v] = working[v]
  BY DEF Healing, Stop, TypeOK
<1>2. \A s \in Signers : /\ PairExists(s)' <=> PairExists(s)
                         /\ Fits(s)' <=> Fits(s)
  BY <1>1 DEF PairExists, Exists, Fits
<1>3. ASSUME NEW s \in Signers, PairExists(s), HalfWritten(s) PROVE HalfWritten(s)'
  BY <1>1, <1>3 DEF HalfWritten, HalvesDiffer, PairExists
<1>4. StartsAlone'
  BY <1>1 DEF Mends, StartsAlone, Starting
<1>5. ASSUME NEW v \in Workers PROVE WritesInStep(v)' /\ LeavesNoGap(v)'
  <2>1. CASE v = w
    BY <1>1, <2>1 DEF WritesInStep, LeavesNoGap
  <2>2. CASE v # w
    BY <1>1, <2>2, MendsOfOthers
  <2>3. QED
    BY <2>1, <2>2
<1>6. \A s \in Signers : PairExists(s)' => Fits(s)' \/ HalfWritten(s)'
  BY <1>1, <1>2, <1>3 DEF Mends
<1>7. QED
  BY <1>1, <1>4, <1>5, <1>6 DEF Mends

\* A loss completes no pair, and nobody is fresh after it.
LEMMA MendsLose ==
    ASSUME TypeOK, Healing, NEW p \in Pairs, NEW half \in Half, LoseFile(p, half)
    PROVE  Healing'
<1> SUFFICES ASSUME environment = "development", ~marred' PROVE Mends'
  BY DEF Healing, LoseFile
<1>1. /\ Mends /\ file' = [file EXCEPT ![p][half] = Absent] /\ fresh' = {}
      /\ UNCHANGED <<at, todo, working>>
  BY DEF Healing, LoseFile
<1>2. \A s \in Signers, h \in Half : file'[s][h] = file[s][h] \/ file'[s][h] = Absent
  BY <1>1, FlatIsNoSigner DEF TypeOK
<1>3. \A s \in Signers : PairExists(s)' => PairExists(s) /\ (Fits(s) => Fits(s)')
  BY <1>2, HalvesAre DEF PairExists, Exists, Fits
<1>4. StartsAlone' /\ \A s \in Signers : HalfWritten(s)' <=> HalfWritten(s)
  BY <1>1 DEF Mends, StartsAlone, Starting, HalfWritten
<1>5. \A s \in Signers, h \in Half : file'[s][h] \in Nat
  BY <1>1, <1>2 DEF Mends, Absent
<1>6. \A v \in Workers : WritesInStep(v)' /\ LeavesNoGap(v)'
  BY <1>1, <1>2, <1>3, HalvesAre DEF Mends, WritesInStep, LeavesNoGap
<1>7. QED
  BY <1>1, <1>3, <1>4, <1>5, <1>6 DEF Mends

\* Every step keeps what makes up for losses.
LEMMA MendsStep == TypeOK /\ Healing /\ [Next]_vars => Healing'
<1> SUFFICES ASSUME TypeOK, Healing, [Next]_vars PROVE Healing'
  OBVIOUS
<1>1. ASSUME NEW w \in Workers, Import(w) \/ StartUp(w) \/ Stop(w) PROVE Healing'
  BY <1>1, MendsImport, MendsLook, MendsWrite, MendsMirror, MendsStop DEF StartUp
<1>2. ASSUME NEW p \in Pairs, NEW half \in Half, LoseFile(p, half) PROVE Healing'
  BY <1>2, MendsLose
<1>3. CASE UNCHANGED <<environment, file, at, todo, working, fresh, marred>>
  BY <1>3 DEF Healing, Mends, StartsAlone, Starting, PairExists, Exists, Fits, HalfWritten,
     WritesInStep, LeavesNoGap, HasAllFiles
<1>4. QED
  BY <1>1, <1>2, <1>3 DEF Next, Issue, vars

\* app/main.py lifespan(): in development whatever files get lost, once a process
\* that started after the last loss serves, every serving process finds for every
\* signer two halves that belong together.
THEOREM LossesAreMadeUp == Spec => []LossesHeal
BY MendsInit, MendsStep, TypeCorrect, HealingHeals, PTL DEF Spec

=============================================================================
