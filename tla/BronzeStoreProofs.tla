-------------------------- MODULE BronzeStoreProofs --------------------------
(***************************************************************************)
(* The bronze layer for any number of commands, loaders, landings and      *)
(* objects.  First the landing zone alone: a sidecar vouches for a whole   *)
(* payload and no landing is ever overwritten.  Then the table above it:   *)
(* it only ever holds whole, attributable landings, a load that commits    *)
(* has stored all it listed, and together they implement BronzeLog.        *)
(***************************************************************************)
EXTENDS BronzeStore, TLAPS, WellFoundedInduction

-----------------------------------------------------------------------------
\* Each stage of a writer fixes what its own files look like, and no two writers
\* share a name.
WritersOwnTheirFiles ==
  /\ \A p \in Procs :
       /\ stage[p] # "idle" => held[p] \in Names
       /\ stage[p] = "payload" => payload[held[p]] = "partial" /\ sidecar[held[p]] = "absent"
       /\ stage[p] = "sidecar" => payload[held[p]] = "complete" /\ sidecar[held[p]] = "absent"
       /\ stage[p] = "seal" => payload[held[p]] = "complete" /\ sidecar[held[p]] = "partial"
  /\ \A p, q \in Procs :
       p # q /\ stage[p] # "idle" /\ stage[q] # "idle" => held[p] # held[q]

ZoneInv == ZoneTypeOK /\ WritersOwnTheirFiles /\ SealedIsComplete

LEMMA ZoneInvInit == ZoneInit => ZoneInv
  BY DEF ZoneInit, ZoneInv, ZoneTypeOK, WritersOwnTheirFiles, SealedIsComplete,
         FileStates, Stages

LEMMA ZoneInvStep == ZoneInv /\ [ZoneNext]_zoneVars => ZoneInv'
<1> SUFFICES ASSUME ZoneInv, [ZoneNext]_zoneVars PROVE ZoneInv'
  OBVIOUS
<1> USE DEF ZoneInv, ZoneTypeOK, FileStates, Stages, WritersOwnTheirFiles, SealedIsComplete
<1>1. CASE UNCHANGED zoneVars
  BY <1>1 DEF zoneVars
<1>2. ASSUME NEW p \in Procs, ZoneStep(p) PROVE ZoneInv'
  <2>1. ASSUME NEW n \in Names, NEW t \in Targets, NEW c \in Contents,
               NEW e \in Contents \union {None}, OpenPayload(p, n, t, c, e)
        PROVE  ZoneInv'
    <3>1. ZoneTypeOK'
      BY <2>1 DEF OpenPayload, Landed
    <3>2. SealedIsComplete'
      BY <2>1 DEF OpenPayload, Landed
    <3>3. WritersOwnTheirFiles'
      BY <2>1 DEF OpenPayload, Landed
    <3>4. QED
      BY <3>1, <3>2, <3>3
  <2>2. CASE ClosePayload(p)
    BY <2>2 DEF ClosePayload
  <2>3. CASE OpenSidecar(p)
    BY <2>3 DEF OpenSidecar
  <2>4. CASE CloseSidecar(p)
    BY <2>4 DEF CloseSidecar
  <2>5. CASE Abandon(p)
    BY <2>5 DEF Abandon
  <2>6. QED
    BY <1>2, <2>1, <2>2, <2>3, <2>4, <2>5 DEF ZoneStep
<1>3. QED
  BY <1>1, <1>2 DEF ZoneNext

\* The zone is well typed.
THEOREM ZoneTypeCorrect == ZoneSpec => []ZoneTypeOK
<1>1. ZoneInv => ZoneTypeOK
  BY DEF ZoneInv
<1>2. QED
  BY <1>1, ZoneInvInit, ZoneInvStep, PTL DEF ZoneSpec

\* No interleaving of writers and kills leaves a sidecar beside a fragment.
THEOREM SidecarVouches == ZoneSpec => []SealedIsComplete
<1>1. ZoneInv => SealedIsComplete
  BY DEF ZoneInv
<1>2. QED
  BY <1>1, ZoneInvInit, ZoneInvStep, PTL DEF ZoneSpec


\* What a step leaves of a landing that exists.
Kept(n) ==
  /\ <<target[n], content[n], tag[n]>>' = <<target[n], content[n], tag[n]>>
  /\ payload[n] = "complete" => payload'[n] = "complete"
  /\ payload'[n] # "absent"
  /\ n \in Sealed => sidecar'[n] = "complete"

LEMMA ZoneKeeps ==
  ASSUME ZoneInv, [ZoneNext]_zoneVars, NEW n \in Landed
  PROVE  Kept(n)
<1> USE DEF ZoneInv, ZoneTypeOK, FileStates, Stages, WritersOwnTheirFiles, Landed, Sealed, Kept
<1>1. CASE UNCHANGED zoneVars
  BY <1>1 DEF zoneVars
<1>2. ASSUME NEW p \in Procs, ZoneStep(p) PROVE Kept(n)
  <2>1. ASSUME NEW m \in Names, NEW t \in Targets, NEW c \in Contents,
               NEW e \in Contents \union {None}, OpenPayload(p, m, t, c, e)
        PROVE  Kept(n)
    BY <2>1 DEF OpenPayload
  <2>2. CASE ClosePayload(p)
    BY <2>2 DEF ClosePayload
  <2>3. CASE OpenSidecar(p)
    BY <2>3 DEF OpenSidecar
  <2>4. CASE CloseSidecar(p)
    BY <2>4 DEF CloseSidecar
  <2>5. CASE Abandon(p)
    BY <2>5 DEF Abandon
  <2>6. QED
    BY <1>2, <2>1, <2>2, <2>3, <2>4, <2>5 DEF ZoneStep
<1>3. QED
  BY <1>1, <1>2 DEF ZoneNext

\* No command ever changes what an existing name stands for, or takes back a file.
THEOREM LandingsAreImmutable == ZoneSpec => NeverOverwritten
<1>1. ZoneInv /\ [ZoneNext]_zoneVars => [\A n \in Landed : Kept(n)]_zoneVars
  BY ZoneKeeps
<1>2. QED
  BY <1>1, ZoneInvInit, ZoneInvStep, PTL DEF ZoneSpec, NeverOverwritten, Kept

-----------------------------------------------------------------------------
\* What exists has a content.
ContentsKnown == \A n \in Landed : content[n] \in Contents

\* Only attributed landings are converted, and a whole file has all their rows.
ConvertedIsWhole ==
  \A n \in Names :
    /\ parquet[n] # "absent" => n \in Sealed
    /\ parquet[n] = "whole" => rows[n] = Holds[content[n]]

\* A set of rows that holds attributed landings only, and each with all its rows.
WholeIn(I) ==
  \A n \in Names, o \in Objects : <<n, o>> \in I => n \in Sealed /\ RowsOf(n) \subseteq I

\* The path that NextPath takes from a list.
Least(S) == CHOOSE n \in S : \A m \in S : n <= m

\* What a loader has done so far: it writes the rows of its landing, what it has taken
\* off its list is in the dataset, and what it inserts holds all that it was asked for.
Progress(l) ==
  /\ at[l] = "write" => /\ Least(todo[l]) \in Sealed
                        /\ parquet[Least(todo[l])] # "absent"
                        /\ image[l] = {Least(todo[l])} \X Holds[content[Least(todo[l])]]
  /\ at[l] \in {"convert", "write"} =>
       \A n \in asked[l] \ todo[l] : parquet[n] # "absent"
  /\ source[l] = None \/ asked[l] \subseteq {source[l]}
  /\ at[l] = "insert" => /\ WholeIn(image[l])
                         /\ \A n \in asked[l] : n \in Sealed /\ RowsOf(n) \subseteq image[l]

StoreInv ==
  /\ TypeOK
  /\ ZoneInv
  /\ ContentsKnown
  /\ ConvertedIsWhole
  /\ \A l \in Loaders : Progress(l)
  /\ WholeIn(bronze)

LEMMA NextPathIsLeast == \A l : NextPath(l) = Least(todo[l])
  BY DEF NextPath, Least

\* Every step of the store is a step of the landing zone, or leaves it alone.
LEMMA ZoneSimulation == Next => [ZoneNext]_zoneVars
<1>1. ASSUME NEW l \in Loaders, LoaderStep(l) PROVE UNCHANGED zoneVars
  BY <1>1 DEF LoaderStep, Work, StartAll, StartOne, StartSkip, Start, OpenParquet,
              ConversionFails, CloseParquet, ReadFails, ReadDataset, Commit, KillLoader
<1>2. QED
  BY <1>1 DEF Next, LandingStep, ZoneNext

LEMMA StoreInvInit == Init => StoreInv
<1> SUFFICES ASSUME Init PROVE StoreInv
  OBVIOUS
<1>1. ZoneInv
  BY ZoneInvInit DEF Init
<1>2. TypeOK
  BY <1>1, StoreAssumption DEF Init, TypeOK, ZoneInv
<1>3. ContentsKnown /\ ConvertedIsWhole
  BY DEF Init, ZoneInit, ContentsKnown, ConvertedIsWhole, Landed
<1>4. \A l \in Loaders : Progress(l)
  BY DEF Init, Progress
<1>5. WholeIn(bronze)
  BY DEF Init, WholeIn
<1>6. QED
  BY <1>1, <1>2, <1>3, <1>4, <1>5 DEF StoreInv

\* What is sealed stays sealed and keeps its rows, whoever lands files meanwhile.
LEMMA SealedStays ==
  ASSUME StoreInv, [ZoneNext]_zoneVars, NEW n \in Sealed
  PROVE  /\ n \in Names /\ n \in Landed /\ n \in Sealed' /\ content'[n] = content[n]
         /\ RowsOf(n)' = RowsOf(n)
<1>1. n \in Names /\ n \in Landed
  BY DEF Sealed, Landed, StoreInv, ZoneInv, SealedIsComplete
<1>2. Kept(n)
  BY <1>1, ZoneKeeps DEF StoreInv
<1>3. n \in Sealed' /\ content'[n] = content[n]
  BY <1>1, <1>2 DEF Kept, Sealed
<1>4. QED
  BY <1>1, <1>3 DEF RowsOf

\* A set of whole landings stays one.
LEMMA WholeStays ==
  ASSUME StoreInv, [ZoneNext]_zoneVars, NEW I, WholeIn(I)
  PROVE  \A n \in Names, o \in Objects :
           <<n, o>> \in I => n \in Sealed' /\ RowsOf(n)' \subseteq I
<1> SUFFICES ASSUME NEW n \in Names, NEW o \in Objects, <<n, o>> \in I
             PROVE  n \in Sealed' /\ RowsOf(n)' \subseteq I
  OBVIOUS
<1>1. n \in Sealed /\ RowsOf(n) \subseteq I
  BY DEF WholeIn
<1>2. QED
  BY <1>1, SealedStays

\* A loader that does not move keeps its progress while others land and convert.
LEMMA ProgressStays ==
  ASSUME StoreInv, [ZoneNext]_zoneVars, NEW l \in Loaders,
         at'[l] = at[l], todo'[l] = todo[l], source'[l] = source[l],
         asked'[l] = asked[l], image'[l] = image[l],
         \A n \in Names : parquet[n] # "absent" => parquet'[n] # "absent"
  PROVE  Progress(l)'
<1>1. Progress(l) /\ TypeOK
  BY DEF StoreInv
<1>2. ASSUME at[l] = "write"
      PROVE  /\ Least(todo[l]) \in Sealed'
             /\ parquet'[Least(todo[l])] # "absent"
             /\ image[l] = {Least(todo[l])} \X Holds[content'[Least(todo[l])]]
  <2>1. /\ Least(todo[l]) \in Sealed
        /\ parquet[Least(todo[l])] # "absent"
        /\ image[l] = {Least(todo[l])} \X Holds[content[Least(todo[l])]]
    BY <1>1, <1>2 DEF Progress
  <2>2. QED
    BY <2>1, SealedStays
<1>3. ASSUME at[l] = "insert", NEW n \in asked[l]
      PROVE  n \in Sealed' /\ RowsOf(n)' \subseteq image[l]
  <2>1. n \in Sealed /\ RowsOf(n) \subseteq image[l]
    BY <1>1, <1>3 DEF Progress
  <2>2. QED
    BY <2>1, SealedStays
<1>4. ASSUME at[l] = "insert"
      PROVE  \A n \in Names, o \in Objects :
               <<n, o>> \in image[l] => n \in Sealed' /\ RowsOf(n)' \subseteq image[l]
  <2>1. WholeIn(image[l])
    BY <1>1, <1>4 DEF Progress
  <2>2. QED
    BY <2>1, WholeStays
<1>5. WholeIn(image[l])' <=>
        \A n \in Names, o \in Objects :
          <<n, o>> \in image[l] => n \in Sealed' /\ RowsOf(n)' \subseteq image[l]
  BY DEF WholeIn
<1>6. Least(todo[l])' = Least(todo[l])
  BY DEF Least
<1>7. \A n \in asked[l] : n \in Names
  BY <1>1 DEF TypeOK
<1>8. QED
  BY <1>1, <1>2, <1>3, <1>4, <1>5, <1>6, <1>7 DEF Progress

\* A loader that is done has nothing left to show.
LEMMA LeaveEnds ==
  ASSUME TypeOK, NEW l \in Loaders, Leave(l)
  PROVE  /\ Progress(l)'
         /\ \A k \in Loaders \ {l} :
              /\ at'[k] = at[k] /\ todo'[k] = todo[k] /\ source'[k] = source[k]
              /\ asked'[k] = asked[k] /\ image'[k] = image[k]
         /\ at' \in [Loaders -> {"idle", "convert", "write", "insert"}]
         /\ todo' \in [Loaders -> SUBSET Names]
         /\ source' \in [Loaders -> Names \union {None}]
         /\ asked' \in [Loaders -> SUBSET Names]
         /\ image' \in [Loaders -> SUBSET Keys]
<1> USE DEF Leave, TypeOK
<1>1. at'[l] = "idle" /\ source'[l] = None
  OBVIOUS
<1>2. Progress(l)'
  BY <1>1 DEF Progress
<1>3. QED
  BY <1>2

\* The parts that a step leaves alone when it only moves loaders.
LEMMA FilesStay ==
  ASSUME StoreInv, UNCHANGED <<zoneVars, parquet, rows, bronze>>
  PROVE  ZoneInv' /\ ContentsKnown' /\ ConvertedIsWhole' /\ WholeIn(bronze)'
<1>1. Sealed' = Sealed /\ Landed' = Landed /\ (\A n : RowsOf(n)' = RowsOf(n))
  BY DEF zoneVars, Sealed, Landed, RowsOf
<1>2. ZoneInv'
  BY ZoneInvStep DEF StoreInv
<1>3. ContentsKnown' /\ ConvertedIsWhole'
  BY <1>1 DEF zoneVars, StoreInv, ContentsKnown, ConvertedIsWhole
<1>4. WholeIn(bronze)'
  BY <1>1 DEF StoreInv, WholeIn
<1>5. QED
  BY <1>2, <1>3, <1>4

\* A step by which a loader ends, whatever it adds to the table.
LEMMA EndKeeps ==
  ASSUME StoreInv, NEW l \in Loaders, Leave(l),
         UNCHANGED <<zoneVars, parquet, rows, opener>>,
         bronze' \subseteq Keys, WholeIn(bronze)', kills' \in 0..MaxKills
  PROVE  StoreInv'
<1>1. TypeOK
  BY DEF StoreInv
<1>2. ZoneInv' /\ ZoneTypeOK'
  BY ZoneInvStep DEF StoreInv, ZoneInv
<1>3. TypeOK'
  BY <1>1, <1>2, LeaveEnds DEF TypeOK
<1>4. ContentsKnown' /\ ConvertedIsWhole'
  BY DEF zoneVars, StoreInv, ContentsKnown, ConvertedIsWhole, Landed, Sealed
<1>5. \A k \in Loaders : Progress(k)'
  <2>1. Progress(l)'
    BY <1>1, LeaveEnds
  <2>2. ASSUME NEW k \in Loaders \ {l} PROVE Progress(k)'
    BY <1>1, LeaveEnds, ProgressStays
  <2>3. QED
    BY <2>1, <2>2
<1>6. QED
  BY <1>2, <1>3, <1>4, <1>5 DEF StoreInv

\* A load lists its paths; only all of them, or the one it is to load.
LEMMA StartKeeps ==
  ASSUME StoreInv, NEW l \in Loaders, NEW paths \in SUBSET Names,
         NEW src \in Names \union {None}, src = None \/ paths \subseteq {src},
         Start(l, paths, src)
  PROVE  StoreInv'
<1> USE DEF Start
<1>1. TypeOK
  BY DEF StoreInv
<1>2. ZoneInv' /\ ContentsKnown' /\ ConvertedIsWhole' /\ WholeIn(bronze)'
  BY FilesStay
<1>3. TypeOK'
  BY <1>1, <1>2 DEF TypeOK, ZoneInv
<1>4. \A k \in Loaders : Progress(k)'
  <2>1. at'[l] = "convert" /\ todo'[l] = paths /\ asked'[l] = paths /\ source'[l] = src
    BY <1>1 DEF TypeOK
  <2>2. Progress(l)'
    BY <2>1 DEF Progress
  <2>3. ASSUME NEW k \in Loaders \ {l} PROVE Progress(k)'
    <3>1. /\ at'[k] = at[k] /\ todo'[k] = todo[k] /\ source'[k] = source[k]
          /\ asked'[k] = asked[k] /\ image'[k] = image[k]
      BY <1>1 DEF TypeOK
    <3>2. QED
      BY <3>1, ProgressStays
  <2>4. QED
    BY <2>2, <2>3
<1>5. QED
  BY <1>2, <1>3, <1>4 DEF StoreInv

\* The file is opened for a landing that a sidecar attributes, so what is read of the
\* payload is all of it.
LEMMA OpenKeeps ==
  ASSUME StoreInv, NEW l \in Loaders, OpenParquet(l)
  PROVE  StoreInv'
<1> DEFINE n == Least(todo[l])
<1>1. TypeOK /\ ConvertedIsWhole
  BY DEF StoreInv
<1>2. n \in Sealed /\ n \in Names /\ payload[n] = "complete" /\ content[n] \in Contents
  BY NextPathIsLeast
     DEF OpenParquet, Convertible, Sealed, StoreInv, ZoneInv, SealedIsComplete, ContentsKnown, Landed
<1>3. /\ at[l] = "convert"
      /\ parquet' = [parquet EXCEPT ![n] = "torn"]
      /\ opener' = [opener EXCEPT ![n] = l]
      /\ image' = [image EXCEPT ![l] = {n} \X Holds[content[n]]]
      /\ at' = [at EXCEPT ![l] = "write"]
      /\ UNCHANGED <<zoneVars, rows, todo, source, asked, bronze, kills>>
  BY <1>2, NextPathIsLeast DEF OpenParquet, Readable
<1> HIDE DEF n
<1>4. {n} \X Holds[content[n]] \subseteq Keys
  BY <1>2, StoreAssumption DEF Keys
<1>5. Sealed' = Sealed /\ Landed' = Landed
  BY <1>3 DEF zoneVars, Sealed, Landed
<1>6. ZoneInv' /\ ContentsKnown' /\ ConvertedIsWhole'
  <2>1. ZoneInv'
    BY <1>3, ZoneInvStep DEF StoreInv
  <2>2. ContentsKnown'
    BY <1>3, <1>5 DEF zoneVars, StoreInv, ContentsKnown
  <2>3. ConvertedIsWhole'
    BY <1>1, <1>2, <1>3, <1>5 DEF zoneVars, ConvertedIsWhole, TypeOK
  <2>4. QED
    BY <2>1, <2>2, <2>3
<1>7. TypeOK'
  BY <1>1, <1>2, <1>3, <1>4, <1>6 DEF TypeOK, ZoneInv
<1>8. \A m \in Names : parquet[m] # "absent" => parquet'[m] # "absent"
  BY <1>1, <1>3 DEF TypeOK
<1>9. \A k \in Loaders : Progress(k)'
  <2>1. Progress(l)'
    <3>1. /\ at'[l] = "write" /\ todo'[l] = todo[l] /\ source'[l] = source[l]
          /\ asked'[l] = asked[l] /\ image'[l] = {n} \X Holds[content[n]]
      BY <1>1, <1>3 DEF TypeOK
    <3>2. Least(todo[l])' = n
      BY <3>1 DEF n, Least
    <3>3. n \in Sealed' /\ parquet'[n] # "absent" /\ content'[n] = content[n]
      BY <1>1, <1>2, <1>3, <1>5 DEF TypeOK, zoneVars
    <3>4. \A m \in asked[l] \ todo[l] : parquet'[m] # "absent"
      BY <1>1, <1>3, <1>8 DEF StoreInv, Progress, TypeOK
    <3>5. source[l] = None \/ asked[l] \subseteq {source[l]}
      BY DEF StoreInv, Progress
    <3>6. QED
      BY <3>1, <3>2, <3>3, <3>4, <3>5 DEF Progress
  <2>2. ASSUME NEW k \in Loaders \ {l} PROVE Progress(k)'
    <3>1. /\ at'[k] = at[k] /\ todo'[k] = todo[k] /\ source'[k] = source[k]
          /\ asked'[k] = asked[k] /\ image'[k] = image[k]
      BY <1>1, <1>3 DEF TypeOK
    <3>2. QED
      BY <1>3, <1>8, <3>1, ProgressStays
  <2>3. QED
    BY <2>1, <2>2
<1>10. WholeIn(bronze)'
  BY <1>3, <1>5 DEF zoneVars, StoreInv, WholeIn, RowsOf
<1>11. QED
  BY <1>6, <1>7, <1>9, <1>10 DEF StoreInv

\* The file that is closed has the rows of its landing, unless another command has
\* emptied it since.
LEMMA CloseKeeps ==
  ASSUME StoreInv, NEW l \in Loaders, CloseParquet(l)
  PROVE  StoreInv'
<1> DEFINE n == Least(todo[l])
<1>1. TypeOK /\ ConvertedIsWhole
  BY DEF StoreInv
<1>2. /\ at[l] = "write"
      /\ IF opener[n] = l
           THEN /\ parquet' = [parquet EXCEPT ![n] = "whole"]
                /\ rows' = [rows EXCEPT ![n] = {o \in Objects : <<n, o>> \in image[l]}]
           ELSE UNCHANGED <<parquet, rows>>
      /\ todo' = [todo EXCEPT ![l] = @ \ {n}]
      /\ image' = [image EXCEPT ![l] = {}]
      /\ at' = [at EXCEPT ![l] = "convert"]
      /\ UNCHANGED <<zoneVars, opener, source, asked, bronze, kills>>
  BY NextPathIsLeast DEF CloseParquet
<1>3. /\ n \in Sealed /\ n \in Names /\ parquet[n] # "absent"
      /\ image[l] = {n} \X Holds[content[n]] /\ content[n] \in Contents
  BY <1>2 DEF StoreInv, Progress, Sealed, ZoneInv, SealedIsComplete, ContentsKnown, Landed
<1> HIDE DEF n
<1>4. Holds[content[n]] \subseteq Objects
  BY <1>3, StoreAssumption
<1>5. {o \in Objects : <<n, o>> \in image[l]} = Holds[content[n]]
  BY <1>3, <1>4
<1>6. Sealed' = Sealed /\ Landed' = Landed
  BY <1>2 DEF zoneVars, Sealed, Landed
<1>7. ZoneInv' /\ ContentsKnown' /\ ConvertedIsWhole'
  <2>1. ZoneInv'
    BY <1>2, ZoneInvStep DEF StoreInv
  <2>2. ContentsKnown'
    BY <1>2, <1>6 DEF zoneVars, StoreInv, ContentsKnown
  <2>3. ConvertedIsWhole'
    <3>1. CASE opener[n] = l
      <4>1. /\ parquet' = [parquet EXCEPT ![n] = "whole"]
            /\ rows' = [rows EXCEPT ![n] = Holds[content[n]]]
            /\ content' = content
        BY <1>2, <1>5, <3>1 DEF zoneVars
      <4>2. QED
        BY <1>1, <1>3, <1>6, <4>1 DEF ConvertedIsWhole, TypeOK
    <3>2. CASE opener[n] # l
      <4>1. UNCHANGED <<parquet, rows, content>>
        BY <1>2, <3>2 DEF zoneVars
      <4>2. QED
        BY <1>1, <1>6, <4>1 DEF ConvertedIsWhole
    <3>3. QED
      BY <3>1, <3>2
  <2>4. QED
    BY <2>1, <2>2, <2>3
<1>8. TypeOK'
  <2>1. /\ parquet' \in [Names -> {"absent", "torn", "whole"}]
        /\ rows' \in [Names -> SUBSET Objects]
    <3>1. /\ parquet \in [Names -> {"absent", "torn", "whole"}]
          /\ rows \in [Names -> SUBSET Objects]
      BY <1>1 DEF TypeOK
    <3>2. CASE opener[n] = l
      <4>1. /\ parquet' = [parquet EXCEPT ![n] = "whole"]
            /\ rows' = [rows EXCEPT ![n] = Holds[content[n]]]
        BY <1>2, <1>5, <3>2
      <4>2. QED
        BY <1>4, <3>1, <4>1
    <3>3. CASE opener[n] # l
      BY <1>2, <3>1, <3>3
    <3>4. QED
      BY <3>2, <3>3
  <2>2. /\ at' \in [Loaders -> {"idle", "convert", "write", "insert"}]
        /\ todo' \in [Loaders -> SUBSET Names]
        /\ image' \in [Loaders -> SUBSET Keys]
    BY <1>1, <1>2 DEF TypeOK
  <2>3. UNCHANGED <<opener, source, asked, bronze, kills>>
    BY <1>2
  <2>4. ZoneTypeOK'
    BY <1>7 DEF ZoneInv
  <2>5. QED
    BY <1>1, <2>1, <2>2, <2>3, <2>4 DEF TypeOK
<1>9. \A m \in Names : parquet[m] # "absent" => parquet'[m] # "absent"
  BY <1>1, <1>2 DEF TypeOK
<1>10. \A k \in Loaders : Progress(k)'
  <2>1. Progress(l)'
    <3>1. /\ at'[l] = "convert" /\ todo'[l] = todo[l] \ {n} /\ source'[l] = source[l]
          /\ asked'[l] = asked[l]
      BY <1>1, <1>2 DEF TypeOK
    <3>2. \A m \in asked[l] \ todo[l] : parquet[m] # "absent"
      BY <1>2 DEF StoreInv, Progress
    <3>3. asked[l] \subseteq Names
      BY <1>1 DEF TypeOK
    <3>4. \A m \in asked[l] \ (todo[l] \ {n}) : parquet'[m] # "absent"
      BY <1>3, <1>9, <3>2, <3>3
    <3>5. source[l] = None \/ asked[l] \subseteq {source[l]}
      BY DEF StoreInv, Progress
    <3>6. QED
      BY <3>1, <3>4, <3>5 DEF Progress
  <2>2. ASSUME NEW k \in Loaders \ {l} PROVE Progress(k)'
    <3>1. /\ at'[k] = at[k] /\ todo'[k] = todo[k] /\ source'[k] = source[k]
          /\ asked'[k] = asked[k] /\ image'[k] = image[k]
      BY <1>1, <1>2 DEF TypeOK
    <3>2. QED
      BY <1>2, <1>9, <3>1, ProgressStays
  <2>3. QED
    BY <2>1, <2>2
<1>11. WholeIn(bronze)'
  BY <1>2, <1>6 DEF zoneVars, StoreInv, WholeIn, RowsOf
<1>12. QED
  BY <1>7, <1>8, <1>10, <1>11 DEF StoreInv

\* With no torn file in the dataset, what is read is whole landings, and all of those
\* that the command has converted.
LEMMA SelectedIsWhole ==
  ASSUME StoreInv, NEW l \in Loaders, at[l] = "convert", todo[l] = {},
         \A n \in Names : parquet[n] # "torn"
  PROVE  /\ WholeIn(Selected(l))
         /\ \A n \in asked[l] : n \in Sealed /\ RowsOf(n) \subseteq Selected(l)
<1>1. TypeOK /\ ConvertedIsWhole /\ Progress(l)
  BY DEF StoreInv
<1>2. ASSUME NEW n \in Names, parquet[n] # "absent"
      PROVE  /\ n \in Sealed /\ parquet[n] = "whole" /\ rows[n] = Holds[content[n]]
             /\ RowsOf(n) = {n} \X Holds[content[n]] /\ Holds[content[n]] \subseteq Objects
  <2>1. n \in Sealed /\ parquet[n] = "whole" /\ rows[n] = Holds[content[n]]
    BY <1>1, <1>2 DEF ConvertedIsWhole, TypeOK
  <2>2. content[n] \in Contents
    BY <2>1 DEF StoreInv, ZoneInv, SealedIsComplete, ContentsKnown, Landed, Sealed
  <2>3. content[n] # None
    BY <2>2, LandingAssumption
  <2>4. QED
    BY <2>1, <2>2, <2>3, StoreAssumption DEF RowsOf
<1>3. ASSUME NEW n \in Names, parquet[n] # "absent", source[l] \in {None, n}
      PROVE  RowsOf(n) \subseteq Selected(l)
  <2> SUFFICES ASSUME NEW o \in Holds[content[n]] PROVE <<n, o>> \in Selected(l)
    BY <1>2, <1>3
  <2>1. /\ parquet[n] = "whole" /\ o \in rows[n] /\ o \in Objects
    BY <1>2, <1>3
  <2>2. QED
    BY <1>3, <2>1 DEF Selected, Keys
<1>4. WholeIn(Selected(l))
  <2> SUFFICES ASSUME NEW n \in Names, NEW o \in Objects, <<n, o>> \in Selected(l)
               PROVE  n \in Sealed /\ RowsOf(n) \subseteq Selected(l)
    BY DEF WholeIn
  <2>1. parquet[n] = "whole" /\ source[l] \in {None, n}
    BY DEF Selected
  <2>2. QED
    BY <1>2, <1>3, <2>1
<1>5. ASSUME NEW n \in asked[l] PROVE n \in Sealed /\ RowsOf(n) \subseteq Selected(l)
  <2>1. n \in Names /\ parquet[n] # "absent"
    BY <1>1, <1>5 DEF Progress, TypeOK
  <2>2. source[l] \in {None, n}
    BY <1>1, <1>5 DEF Progress
  <2>3. QED
    BY <1>2, <1>3, <2>1, <2>2
<1>6. QED
  BY <1>4, <1>5

\* A read either ends the command or gives it whole landings to insert.
LEMMA ReadKeeps ==
  ASSUME StoreInv, NEW l \in Loaders, ReadDataset(l)
  PROVE  StoreInv'
<1>1. TypeOK
  BY DEF StoreInv
<1>2. ZoneInv' /\ ContentsKnown' /\ ConvertedIsWhole' /\ WholeIn(bronze)'
  BY FilesStay DEF ReadDataset
<1>3. CASE Selected(l) = {}
  BY <1>1, <1>2, <1>3, EndKeeps DEF ReadDataset, TypeOK
<1>4. CASE Selected(l) # {}
  <2>1. /\ at' = [at EXCEPT ![l] = "insert"]
        /\ image' = [image EXCEPT ![l] = Selected(l)]
        /\ UNCHANGED <<zoneVars, parquet, rows, opener, todo, source, asked, bronze, kills>>
    BY <1>4 DEF ReadDataset
  <2>2. Selected(l) \subseteq Keys
    BY DEF Selected
  <2>3. TypeOK'
    BY <1>1, <1>2, <2>1, <2>2 DEF TypeOK, ZoneInv
  <2>4. Progress(l)'
    <3>1. /\ WholeIn(Selected(l))
          /\ \A n \in asked[l] : n \in Sealed /\ RowsOf(n) \subseteq Selected(l)
      BY SelectedIsWhole DEF ReadDataset
    <3>2. /\ at'[l] = "insert" /\ source'[l] = source[l] /\ asked'[l] = asked[l]
          /\ image'[l] = Selected(l)
      BY <1>1, <2>1 DEF TypeOK
    <3>3. Sealed' = Sealed /\ (\A n : RowsOf(n)' = RowsOf(n))
      BY <2>1 DEF zoneVars, Sealed, RowsOf
    <3>4. WholeIn(image[l])'
      BY <3>1, <3>2, <3>3 DEF WholeIn
    <3>5. source[l] = None \/ asked[l] \subseteq {source[l]}
      BY DEF StoreInv, Progress
    <3>6. QED
      BY <3>1, <3>2, <3>3, <3>4, <3>5 DEF Progress
  <2>5. ASSUME NEW k \in Loaders \ {l} PROVE Progress(k)'
    <3>1. /\ at'[k] = at[k] /\ todo'[k] = todo[k] /\ source'[k] = source[k]
          /\ asked'[k] = asked[k] /\ image'[k] = image[k]
      BY <1>1, <2>1 DEF TypeOK
    <3>2. QED
      BY <2>1, <3>1, ProgressStays
  <2>6. QED
    BY <1>2, <2>3, <2>4, <2>5 DEF StoreInv
<1>5. QED
  BY <1>3, <1>4

\* A landing that proceeds leaves everything above it as it is.
LEMMA LandingKeeps ==
  ASSUME StoreInv, NEW p \in Procs, LandingStep(p)
  PROVE  StoreInv'
<1>1. ZoneNext /\ UNCHANGED loadVars
  BY DEF LandingStep, ZoneNext
<1>2. ZoneInv'
  BY <1>1, ZoneInvStep DEF StoreInv
<1>3. TypeOK'
  BY <1>1, <1>2 DEF StoreInv, TypeOK, ZoneInv, loadVars
<1>4. ContentsKnown'
  <2>1. ASSUME NEW n \in Landed PROVE content'[n] \in Contents
    BY <1>1, <2>1, ZoneKeeps DEF StoreInv, ContentsKnown, Kept
  <2>2. ASSUME NEW n \in Names, n \notin Landed, payload'[n] # "absent"
        PROVE  content'[n] \in Contents
    <3>1. ASSUME NEW m \in Names, NEW t \in Targets, NEW c \in Contents,
                 NEW e \in Contents \union {None}, OpenPayload(p, m, t, c, e)
          PROVE  content'[n] \in Contents
      BY <2>2, <3>1 DEF OpenPayload, StoreInv, ZoneInv, ZoneTypeOK, Landed
    <3>2. payload[n] = "absent"
      BY <2>2 DEF Landed
    <3>3. ~ClosePayload(p)
      BY <2>2, <3>2
         DEF ClosePayload, StoreInv, ZoneInv, ZoneTypeOK, WritersOwnTheirFiles
    <3>4. QED
      BY <2>2, <3>1, <3>2, <3>3
         DEF LandingStep, ZoneStep, OpenSidecar, CloseSidecar, Abandon
  <2>3. QED
    BY <2>1, <2>2 DEF ContentsKnown, Landed
<1>5. ConvertedIsWhole'
  <2> SUFFICES ASSUME NEW n \in Names, parquet'[n] # "absent"
               PROVE  /\ n \in Sealed'
                      /\ parquet'[n] = "whole" => rows'[n] = Holds[content'[n]]
    BY DEF ConvertedIsWhole
  <2>1. parquet' = parquet /\ rows' = rows
    BY <1>1 DEF loadVars
  <2>2. n \in Sealed /\ (parquet[n] = "whole" => rows[n] = Holds[content[n]])
    BY <2>1 DEF StoreInv, ConvertedIsWhole
  <2>3. n \in Sealed' /\ content'[n] = content[n]
    BY <1>1, <2>2, SealedStays
  <2>4. QED
    BY <2>1, <2>2, <2>3
<1>6. ASSUME NEW l \in Loaders PROVE Progress(l)'
  BY <1>1, ProgressStays DEF loadVars
<1>7. WholeIn(bronze)'
  BY <1>1, WholeStays DEF StoreInv, loadVars, WholeIn
<1>8. QED
  BY <1>2, <1>3, <1>4, <1>5, <1>6, <1>7 DEF StoreInv

LEMMA StoreInvStep == StoreInv /\ [Next]_vars => StoreInv'
<1> SUFFICES ASSUME StoreInv, [Next]_vars PROVE StoreInv'
  OBVIOUS
<1>1. TypeOK
  BY DEF StoreInv
<1>2. CASE UNCHANGED vars
  <2>1. ZoneInv' /\ ContentsKnown' /\ ConvertedIsWhole' /\ WholeIn(bronze)'
    BY <1>2, FilesStay DEF vars, loadVars
  <2>2. TypeOK'
    BY <1>1, <1>2, <2>1 DEF TypeOK, ZoneInv, vars, loadVars
  <2>3. \A k \in Loaders : Progress(k)'
    BY <1>2, ProgressStays DEF vars, loadVars
  <2>4. QED
    BY <2>1, <2>2, <2>3 DEF StoreInv
<1>3. ASSUME NEW p \in Procs, LandingStep(p) PROVE StoreInv'
  BY <1>3, LandingKeeps
<1>4. ASSUME NEW l \in Loaders, LoaderStep(l) PROVE StoreInv'
  <2>1. CASE StartAll(l)
    <3>1. Landed \subseteq Names
      BY DEF Landed
    <3>2. Start(l, Landed, None)
      BY <2>1 DEF StartAll
    <3>3. QED
      BY <3>1, <3>2, StartKeeps
  <2>2. ASSUME NEW n \in Names, StartOne(l, n) PROVE StoreInv'
    BY <2>2, StartKeeps DEF StartOne
  <2>3. ASSUME NEW src \in Names \union {None}, StartSkip(l, src) PROVE StoreInv'
    BY <2>3, StartKeeps DEF StartSkip
  <2>4. CASE OpenParquet(l)
    BY <2>4, OpenKeeps
  <2>5. CASE CloseParquet(l)
    BY <2>5, CloseKeeps
  <2>6. CASE ReadDataset(l)
    BY <2>6, ReadKeeps
  <2>7. CASE ConversionFails(l) \/ ReadFails(l)
    <3>1. WholeIn(bronze)'
      BY <2>7, FilesStay DEF ConversionFails, ReadFails
    <3>2. QED
      BY <1>1, <2>7, <3>1, EndKeeps DEF ConversionFails, ReadFails, TypeOK
  <2>8. CASE Commit(l)
    <3>1. /\ bronze' = bronze \union image[l] /\ WholeIn(image[l]) /\ WholeIn(bronze)
          /\ UNCHANGED <<zoneVars, parquet, rows, opener, kills>>
      BY <2>8 DEF Commit, StoreInv, Progress
    <3>2. Sealed' = Sealed /\ (\A n : RowsOf(n)' = RowsOf(n))
      BY <3>1 DEF zoneVars, Sealed, RowsOf
    <3>3. WholeIn(bronze)'
      BY <3>1, <3>2 DEF WholeIn
    <3>4. bronze' \subseteq Keys /\ kills' \in 0..MaxKills
      BY <1>1, <3>1 DEF TypeOK
    <3>5. QED
      BY <2>8, <3>1, <3>3, <3>4, EndKeeps DEF Commit
  <2>9. CASE KillLoader(l)
    <3>1. /\ UNCHANGED <<zoneVars, parquet, rows, opener, bronze>>
          /\ kills' = kills + 1 /\ kills < MaxKills
      BY <2>9 DEF KillLoader
    <3>2. WholeIn(bronze)'
      BY <3>1, FilesStay
    <3>3. kills' \in 0..MaxKills /\ bronze' \subseteq Keys
      BY <1>1, <3>1, StoreAssumption DEF TypeOK
    <3>4. QED
      BY <2>9, <3>1, <3>2, <3>3, EndKeeps DEF KillLoader
  <2>10. QED
    BY <1>4, <2>1, <2>2, <2>3, <2>4, <2>5, <2>6, <2>7, <2>8, <2>9 DEF LoaderStep, Work
<1>5. QED
  BY <1>2, <1>3, <1>4 DEF Next

-----------------------------------------------------------------------------
\* Files, loaders and table keep their types.
THEOREM StoreTypeCorrect == Spec => []TypeOK
<1>1. StoreInv => TypeOK
  BY DEF StoreInv
<1>2. QED
  BY <1>1, StoreInvInit, StoreInvStep, PTL DEF Spec

\* Whatever loaders do, the landing zone below them behaves as it does alone, so what
\* is proved of it holds of the whole store.
THEOREM StoreKeepsTheZone == Spec => ZoneSpec
<1>1. Init => ZoneInit
  BY DEF Init
<1>2. [Next]_vars => [ZoneNext]_zoneVars
  BY ZoneSimulation DEF vars, zoneVars
<1>3. QED
  BY <1>1, <1>2, PTL DEF Spec, ZoneSpec

\* What the table holds of a landing is all of it, and a sidecar attributes it.
LEMMA WholeInTable ==
  ASSUME StoreInv, NEW n \in Names, RowsOf(n) \intersect bronze # {}
  PROVE  n \in Sealed /\ n \in Stored
<1>1. PICK k \in RowsOf(n) : k \in bronze
  OBVIOUS
<1>2. PICK o \in Objects : k = <<n, o>>
  BY <1>1 DEF RowsOf, StoreInv, TypeOK, Keys
<1>3. n \in Sealed /\ RowsOf(n) \subseteq bronze
  BY <1>1, <1>2 DEF StoreInv, WholeIn
<1>4. QED
  BY <1>1, <1>3 DEF Stored

\* The table never holds part of a landing, or one that no sidecar attributes, for any
\* number of loaders that overlap, tear each other's files and are killed.
THEOREM TableHoldsWholeLandings == Spec => []WholeLandings
<1>1. StoreInv => WholeLandings
  BY WholeInTable DEF WholeLandings
<1>2. QED
  BY <1>1, StoreInvInit, StoreInvStep, PTL DEF Spec

\* The next path is one of the list.
LEMMA NextPathIsListed ==
  ASSUME TypeOK, NEW l \in Loaders, todo[l] # {}
  PROVE  NextPath(l) \in todo[l]
<1> DEFINE Less == {p \in Nat \X Nat : p[1] < p[2]}
<1>1. todo[l] \subseteq Nat
  BY StoreAssumption DEF TypeOK
<1>2. IsWellFoundedOn(Less, Nat)
  BY NatLessThanWellFounded DEF OpToRel
<1>3. \A x, y \in Nat : x < y => <<x, y>> \in Less
  OBVIOUS
<1> HIDE DEF Less
<1>4. PICK n \in todo[l] : \A m \in todo[l] : ~ (<<m, n>> \in Less)
  BY <1>1, <1>2, WFMin
<1>5. \A m \in todo[l] : ~ (m < n)
  BY <1>1, <1>3, <1>4
<1>6. ASSUME NEW m \in todo[l]
      PROVE  n <= m
  <2>1. m \in Nat /\ n \in Nat /\ ~ (m < n)
    BY <1>1, <1>5
  <2>2. QED
    BY <2>1
<1>7. QED
  BY <1>6 DEF NextPath

\* What a load of all landings has yet to heal, while it runs.
Heals(l) ==
  at[l] # "idle" /\ source[l] = None /\ asked[l] # {} =>
    \A n \in Names : parquet[n] = "torn" => n \in todo[l] \/ opener[n] # l

LEMMA HealsStays ==
  ASSUME TypeOK, NEW l \in Loaders, NEW k \in Loaders, k # l, LoaderStep(k), Heals(l)
  PROVE  Heals(l)'
<1> USE DEF TypeOK
<1>1. /\ at'[l] = at[l] /\ source'[l] = source[l] /\ asked'[l] = asked[l] /\ todo'[l] = todo[l]
  BY DEF LoaderStep, Work, StartAll, StartOne, StartSkip, Start, OpenParquet, ConversionFails,
         CloseParquet, ReadFails, ReadDataset, Commit, KillLoader, Leave
<1>2. ASSUME NEW n \in Names, parquet'[n] = "torn"
      PROVE  (parquet[n] = "torn" /\ opener'[n] = opener[n]) \/ opener'[n] = k
  <2>1. CASE OpenParquet(k)
    BY <1>2, <2>1 DEF OpenParquet
  <2>2. CASE CloseParquet(k)
    BY <1>2, <2>2 DEF CloseParquet
  <2>3. CASE ~OpenParquet(k) /\ ~CloseParquet(k)
    <3>1. UNCHANGED <<parquet, opener>>
      BY <2>3 DEF LoaderStep, Work, StartAll, StartOne, StartSkip, Start, ConversionFails,
                  ReadFails, ReadDataset, Commit, KillLoader
    <3>2. QED
      BY <1>2, <3>1
  <2>4. QED
    BY <2>1, <2>2, <2>3
<1>3. QED
  BY <1>1, <1>2 DEF Heals

\* A load begins with all that may be torn ahead of it, and takes nothing off its list that
\* it has not closed itself.
LEMMA HealsOwn ==
  ASSUME StoreInv, NEW l \in Loaders, LoaderStep(l), Heals(l)
  PROVE  Heals(l)'
<1> USE DEF TypeOK
<1>1. TypeOK
  BY DEF StoreInv
<1>2. CASE StartAll(l)
  <2>1. todo'[l] = Landed /\ parquet' = parquet
    BY <1>1, <1>2 DEF StartAll, Start
  <2>2. \A n \in Names : parquet[n] = "torn" => n \in Landed
    BY DEF StoreInv, ConvertedIsWhole, ZoneInv, SealedIsComplete, Sealed, Landed
  <2>3. QED
    BY <2>1, <2>2 DEF Heals
<1>3. ASSUME NEW n \in Names, StartOne(l, n) PROVE Heals(l)'
  <2>1. source'[l] = n /\ n # None
    BY <1>1, <1>3, StoreAssumption DEF StartOne, Start
  <2>2. QED
    BY <2>1 DEF Heals
<1>4. ASSUME NEW src \in Names \union {None}, StartSkip(l, src) PROVE Heals(l)'
  <2>1. asked'[l] = {}
    BY <1>1, <1>4 DEF StartSkip, Start
  <2>2. QED
    BY <2>1 DEF Heals
<1>5. CASE OpenParquet(l)
  <2>1. NextPath(l) \in todo[l]
    BY <1>1, <1>5, NextPathIsListed DEF OpenParquet
  <2>2. /\ parquet' = [parquet EXCEPT ![NextPath(l)] = "torn"]
        /\ opener' = [opener EXCEPT ![NextPath(l)] = l]
        /\ at[l] = "convert" /\ UNCHANGED <<todo, source, asked>>
    BY <1>5 DEF OpenParquet
  <2>3. QED
    BY <1>1, <2>1, <2>2 DEF Heals
<1>6. CASE CloseParquet(l)
  <2> DEFINE n == NextPath(l)
  <2>1. /\ at[l] = "write" /\ todo'[l] = todo[l] \ {n}
        /\ opener[n] # l => parquet' = parquet
        /\ opener[n] = l => parquet' = [parquet EXCEPT ![n] = "whole"]
        /\ UNCHANGED <<opener, source, asked>>
    BY <1>1, <1>6 DEF CloseParquet
  <2> HIDE DEF n
  <2>2. QED
    BY <1>1, <2>1 DEF Heals
<1>7. CASE ConversionFails(l) \/ ReadFails(l) \/ Commit(l) \/ KillLoader(l)
  <2>1. at'[l] = "idle"
    BY <1>1, <1>7 DEF ConversionFails, ReadFails, Commit, KillLoader, Leave
  <2>2. QED
    BY <2>1 DEF Heals
<1>8. CASE ReadDataset(l)
  <2>1. \/ at'[l] = "idle"
        \/ at[l] = "convert" /\ UNCHANGED <<todo, source, asked, parquet, opener>>
    BY <1>1, <1>8 DEF ReadDataset, Leave
  <2>2. QED
    BY <2>1 DEF Heals
<1>9. QED
  BY <1>2, <1>3, <1>4, <1>5, <1>6, <1>7, <1>8 DEF LoaderStep, Work

\* For any number of loaders that are killed and tear each other's files, a load of all landings
\* has every torn file still ahead of it that nobody else has opened since (cli.py:160-180;
\* parquet_writer.py:153-166), so repeating a load that was killed mends what it left.
THEOREM RepeatedLoadsHeal == Spec => []RetriesHeal
<1> DEFINE Inv == StoreInv /\ \A l \in Loaders : Heals(l)
<1>1. Init => Inv
  BY StoreInvInit DEF Init, Heals
<1>2. Inv /\ [Next]_vars => Inv'
  <2> SUFFICES ASSUME StoreInv, \A l \in Loaders : Heals(l), [Next]_vars, NEW l \in Loaders
               PROVE  Heals(l)'
    BY StoreInvStep
  <2>1. ASSUME NEW k \in Loaders, LoaderStep(k) PROVE Heals(l)'
    BY <2>1, HealsStays, HealsOwn DEF StoreInv
  <2>2. CASE UNCHANGED <<at, source, asked, parquet, todo, opener>>
    BY <2>2 DEF Heals
  <2>3. QED
    BY <2>1, <2>2 DEF Next, LandingStep, vars, loadVars
<1>3. Inv => RetriesHeal
  BY DEF Heals, RetriesHeal
<1>4. QED
  BY <1>1, <1>2, <1>3, PTL DEF Spec

\* A load that commits has stored every landing it listed.
THEOREM CommittedLoadsAreComplete == Spec => CommitIsComplete
<1>1. StoreInv /\ [Next]_vars =>
        [\A l \in Loaders :
           at[l] = "insert" /\ at'[l] = "idle" /\ kills' = kills
             => asked[l] \subseteq Stored']_vars
  <2> SUFFICES ASSUME StoreInv, Next, NEW l \in Loaders,
                      at[l] = "insert", at'[l] = "idle", kills' = kills
               PROVE  asked[l] \subseteq Stored'
    OBVIOUS
  <2>1. TypeOK
    BY DEF StoreInv
  <2>2. ASSUME NEW k \in Loaders, LoaderStep(k) PROVE Commit(l)
    <3>1. ~KillLoader(k)
      BY <2>1 DEF KillLoader, TypeOK
    <3>2. ASSUME at'[l] # at[l] PROVE k = l
      BY <2>1, <2>2, <3>2
         DEF LoaderStep, Work, StartAll, StartOne, StartSkip, Start, OpenParquet,
             ConversionFails, CloseParquet, ReadFails, ReadDataset, Commit, KillLoader,
             Leave, TypeOK
    <3>3. QED
      BY <2>2, <3>1, <3>2
         DEF LoaderStep, Work, StartAll, StartOne, StartSkip, Start, OpenParquet,
             ConversionFails, CloseParquet, ReadFails, ReadDataset
  <2>3. Commit(l)
    BY <2>2 DEF Next, LandingStep, loadVars
  <2>4. /\ bronze' = bronze \union image[l] /\ content' = content
        /\ \A n \in asked[l] : n \in Sealed /\ RowsOf(n) \subseteq image[l]
    BY <2>3 DEF Commit, StoreInv, Progress, zoneVars
  <2>5. ASSUME NEW n \in asked[l] PROVE n \in Stored'
    <3>1. n \in Sealed /\ n \in Names /\ content[n] \in Contents
      BY <2>4 DEF StoreInv, ZoneInv, SealedIsComplete, ContentsKnown, Landed, Sealed
    <3>2. RowsOf(n) # {}
      <4>1. content[n] # None
        BY <3>1, LandingAssumption
      <4>2. PICK o \in Objects : o \in Holds[content[n]]
        BY <3>1, StoreAssumption
      <4>3. <<n, o>> \in RowsOf(n)
        BY <4>1, <4>2 DEF RowsOf
      <4>4. QED
        BY <4>3
    <3>3. RowsOf(n)' = RowsOf(n)
      BY <2>4 DEF RowsOf
    <3>4. QED
      BY <2>4, <3>1, <3>2, <3>3 DEF Stored
  <2>6. QED
    BY <2>5
<1>2. QED
  BY <1>1, StoreInvInit, StoreInvStep, PTL DEF Spec, CommitIsComplete

\* A landing that is sealed was not sealed before, and nothing else is.
LEMMA SealStep ==
  ASSUME StoreInv, NEW p \in Procs, ZoneStep(p)
  PROVE  Sealed' = Sealed
         \/ \E n \in Names : n \notin Sealed /\ Sealed' = Sealed \union {n}
<1> USE DEF StoreInv, ZoneInv, ZoneTypeOK, WritersOwnTheirFiles, Sealed
<1>1. CASE CloseSidecar(p)
  <2>1. held[p] \in Names /\ held[p] \notin Sealed
    BY <1>1 DEF CloseSidecar
  <2>2. Sealed' = Sealed \union {held[p]}
    BY <1>1 DEF CloseSidecar
  <2>3. QED
    BY <2>1, <2>2
<1>2. CASE OpenSidecar(p)
  BY <1>2 DEF OpenSidecar
<1>3. CASE ~CloseSidecar(p) /\ ~OpenSidecar(p)
  BY <1>3 DEF ZoneStep, ClosePayload, Abandon, OpenPayload
<1>4. QED
  BY <1>1, <1>2, <1>3

\* What is stored stays so while only the zone moves, and nothing is stored by it.
LEMMA ZoneStoresNothing ==
  ASSUME StoreInv, [ZoneNext]_zoneVars, bronze' = bronze
  PROVE  Stored' = Stored
<1>1. ASSUME NEW n \in Stored PROVE n \in Stored'
  <2>1. n \in Sealed
    BY <1>1, WholeInTable DEF Stored
  <2>2. QED
    BY <1>1, <2>1, SealedStays DEF Stored
<1>2. ASSUME NEW n \in Names, n \in Stored' PROVE n \in Stored
  <2>1. RowsOf(n)' # {} /\ RowsOf(n)' \subseteq bronze
    BY <1>2 DEF Stored
  <2>2. PICK o \in Objects : <<n, o>> \in bronze
    BY <2>1 DEF RowsOf, StoreInv, TypeOK, Keys
  <2>3. n \in Sealed
    BY <2>2 DEF StoreInv, WholeIn
  <2>4. RowsOf(n)' = RowsOf(n)
    BY <2>3, SealedStays
  <2>5. QED
    BY <1>2, <2>1, <2>4 DEF Stored
<1>3. QED
  BY <1>1, <1>2 DEF Stored

\* Files, partitions, transactions and kills implement the log: every step seals one
\* landing, stores attributed landings whole, or changes nothing the log can see.
THEOREM StoreImplementsLog == Spec => ImplementsLog
<1>1. Init => Log!LogInit
  BY DEF Init, ZoneInit, Log!LogInit, Sealed, Stored
<1>2. StoreInv /\ [Next]_vars => [Log!LogNext]_Log!logVars
  <2> SUFFICES ASSUME StoreInv, [Next]_vars
               PROVE  Log!LogNext \/ UNCHANGED <<Sealed, Stored>>
    BY DEF Log!logVars
  <2>1. CASE UNCHANGED vars
    BY <2>1 DEF vars, loadVars, zoneVars, Sealed, Stored, RowsOf
  <2>2. ASSUME NEW p \in Procs, LandingStep(p)
        PROVE  Log!LogNext \/ UNCHANGED <<Sealed, Stored>>
    <3>1. Stored' = Stored
      BY <2>2, ZoneStoresNothing DEF LandingStep, ZoneNext, loadVars
    <3>2. Sealed' = Sealed \/ \E n \in Names : n \notin Sealed /\ Sealed' = Sealed \union {n}
      BY <2>2, SealStep DEF LandingStep
    <3>3. QED
      BY <3>1, <3>2 DEF Log!LogNext, Log!Seal
  <2>3. ASSUME NEW l \in Loaders, Commit(l) PROVE Log!LogNext
    <3>1. /\ bronze' = bronze \union image[l] /\ content' = content /\ sidecar' = sidecar
          /\ WholeIn(image[l])
      BY <2>3 DEF Commit, StoreInv, Progress, zoneVars
    <3>2. StoreInv'
      BY StoreInvStep
    <3>3. Sealed' = Sealed /\ (\A n : RowsOf(n)' = RowsOf(n))
      BY <3>1 DEF Sealed, RowsOf
    <3>4. Stored \subseteq Stored'
      BY <3>1, <3>3 DEF Stored
    <3>5. Stored' \subseteq Sealed
      <4>1. ASSUME NEW n \in Names, RowsOf(n)' # {}, RowsOf(n)' \subseteq bronze'
            PROVE  n \in Sealed
        <5>1. PICK o \in Objects : <<n, o>> \in bronze'
          BY <3>2, <4>1 DEF RowsOf, StoreInv, TypeOK, Keys
        <5>2. n \in Sealed'
          BY <3>2, <5>1 DEF StoreInv, WholeIn
        <5>3. QED
          BY <3>3, <5>2
      <4>2. QED
        BY <4>1 DEF Stored
    <3>6. Stored' \in SUBSET Sealed /\ Stored' = Stored \union Stored'
      BY <3>4, <3>5
    <3>7. Log!Store(Stored')
      BY <3>3, <3>6 DEF Log!Store
    <3>8. QED
      BY <3>6, <3>7 DEF Log!LogNext
  <2>4. ASSUME NEW l \in Loaders, LoaderStep(l), ~Commit(l) PROVE UNCHANGED <<Sealed, Stored>>
    <3>1. UNCHANGED <<zoneVars, bronze>>
      BY <2>4 DEF LoaderStep, Work, StartAll, StartOne, StartSkip, Start, OpenParquet,
                  ConversionFails, CloseParquet, ReadFails, ReadDataset, KillLoader
    <3>2. QED
      BY <3>1 DEF zoneVars, Sealed, Stored, RowsOf
  <2>5. QED
    BY <2>1, <2>2, <2>3, <2>4 DEF Next
<1>3. QED
  BY <1>1, <1>2, StoreInvInit, StoreInvStep, PTL DEF Spec, ImplementsLog, Log!LogSpec
=============================================================================
