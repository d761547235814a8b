----------------------------- MODULE BronzeStore -----------------------------
(***************************************************************************)
(* One bronze feed from its landing directory to its table: `sat-tracker-  *)
(* load`, and the --load half of `sat-tracker-ingest` and `-satcat`, over  *)
(* write_bronze_parquet (storage/parquet_writer.py) and                    *)
(* load_bronze_to_postgres (storage/postgres_loader.py).  LandingZone is   *)
(* the other half: the commands that land files while these run.           *)
(*                                                                         *)
(* Parquet files are written in place under a name that only depends on    *)
(* the landing, so two commands converting the same landing share a file.  *)
(* Postgres is modelled by what the loader uses of it: a transaction whose *)
(* rows appear together, and a primary key that drops rows it has.         *)
(***************************************************************************)
EXTENDS LandingZone, Naturals

\* The landing names are numbers, in the order sorted() gives them.
CONSTANTS
  Objects,   \* the values of norad_cat_id
  Holds,     \* the objects each content has a row for
  Legible,   \* the contents that can be read as CSV
  Loaders,   \* the commands that convert and load
  MaxKills   \* bound: kills and failed transactions of loaders

ASSUME StoreAssumption ==
  /\ Names \subseteq Nat
  /\ Holds \in [Contents -> (SUBSET Objects) \ {{}}]
  /\ Legible \subseteq Contents
  /\ None \notin Loaders \union Names \union Targets \union Contents
  /\ MaxKills \in Nat

VARIABLES
  parquet,   \* each landing's Parquet file: absent, torn or whole
  rows,      \* the objects a whole Parquet file has a row for
  opener,    \* the command that opened each Parquet file last
  at,        \* where each loader is
  todo,      \* csv_paths still to convert
  source,    \* source_file, or None for the whole dataset
  asked,     \* history: csv_paths as the command listed them
  image,     \* the rows the loader is writing or has read
  bronze,    \* the table, by its key: source_file and norad_cat_id
  kills      \* history: kills and failed transactions so far

loadVars == <<parquet, rows, opener, at, todo, source, asked, image, bronze, kills>>
vars == <<zoneVars, loadVars>>

Keys == Names \X Objects

TypeOK ==
  /\ ZoneTypeOK
  /\ parquet \in [Names -> {"absent", "torn", "whole"}]
  /\ rows \in [Names -> SUBSET Objects]
  /\ opener \in [Names -> Loaders \union {None}]
  /\ at \in [Loaders -> {"idle", "convert", "write", "insert"}]
  /\ todo \in [Loaders -> SUBSET Names]
  /\ source \in [Loaders -> Names \union {None}]
  /\ asked \in [Loaders -> SUBSET Names]
  /\ image \in [Loaders -> SUBSET Keys]
  /\ bronze \subseteq Keys
  /\ kills \in 0..MaxKills

\* The next path of the sorted list.
NextPath(l) == CHOOSE n \in todo[l] : \A m \in todo[l] : n <= m

\* What reading the payload file of n can yield: a fragment has any prefix.
Readable(n) ==
  IF payload[n] = "complete" THEN {Holds[content[n]]} ELSE SUBSET Holds[content[n]]

\* The landings that a load can convert: attributed by a sidecar, and CSV inside.
Convertible == {n \in Sealed : content[n] \in Legible}

\* The rows that n stands for.
RowsOf(n) == IF content[n] = None THEN {} ELSE {n} \X Holds[content[n]]

\* The command returns or raises.
Leave(l) ==
  /\ at' = [at EXCEPT ![l] = "idle"]
  /\ todo' = [todo EXCEPT ![l] = {}]
  /\ source' = [source EXCEPT ![l] = None]
  /\ asked' = [asked EXCEPT ![l] = {}]
  /\ image' = [image EXCEPT ![l] = {}]

Init ==
  /\ ZoneInit
  /\ parquet = [n \in Names |-> "absent"]
  /\ rows = [n \in Names |-> {}]
  /\ opener = [n \in Names |-> None]
  /\ at = [l \in Loaders |-> "idle"]
  /\ todo = [l \in Loaders |-> {}]
  /\ source = [l \in Loaders |-> None]
  /\ asked = [l \in Loaders |-> {}]
  /\ image = [l \in Loaders |-> {}]
  /\ bronze = {}
  /\ kills = 0

-----------------------------------------------------------------------------
Start(l, paths, src) ==
  /\ at[l] = "idle"
  /\ at' = [at EXCEPT ![l] = "convert"]
  /\ todo' = [todo EXCEPT ![l] = paths]
  /\ asked' = [asked EXCEPT ![l] = paths]
  /\ source' = [source EXCEPT ![l] = src]
  /\ UNCHANGED <<zoneVars, parquet, rows, opener, image, bronze, kills>>

\* sat-tracker-load: every CSV of the directory; with none it does nothing.
StartAll(l) == Landed # {} /\ Start(l, Landed, None)

\* --source-file, and the --load of an ingest command that got path n back.
StartOne(l, n) == n \in Landed /\ Start(l, {n}, n)

\* --skip-parquet loads what is converted already.
StartSkip(l, src) == Start(l, {}, src)

\* Slip: a landing is converted whether or not a sidecar attributes it.
OpenParquetUnattributed(l) ==
  /\ at[l] = "convert"
  /\ todo[l] # {}
  /\ parquet' = [parquet EXCEPT ![NextPath(l)] = "torn"]
  /\ opener' = [opener EXCEPT ![NextPath(l)] = l]
  /\ \E r \in Readable(NextPath(l)) : image' = [image EXCEPT ![l] = {NextPath(l)} \X r]
  /\ at' = [at EXCEPT ![l] = "write"]
  /\ UNCHANGED <<zoneVars, rows, todo, source, asked, bronze, kills>>

\* Slip: a file that exists is not written again.
OpenParquetOnce(l) ==
  /\ at[l] = "convert"
  /\ todo[l] # {}
  /\ NextPath(l) \in Convertible
  /\ IF parquet[NextPath(l)] = "absent"
       THEN /\ parquet' = [parquet EXCEPT ![NextPath(l)] = "torn"]
            /\ opener' = [opener EXCEPT ![NextPath(l)] = l]
            /\ \E r \in Readable(NextPath(l)) : image' = [image EXCEPT ![l] = {NextPath(l)} \X r]
            /\ at' = [at EXCEPT ![l] = "write"]
            /\ UNCHANGED todo
       ELSE /\ todo' = [todo EXCEPT ![l] = @ \ {NextPath(l)}]
            /\ UNCHANGED <<parquet, opener, at, image>>
  /\ UNCHANGED <<zoneVars, rows, source, asked, bronze, kills>>

\* write_bronze_parquet reads the sidecar and the payload, then opens the file.
OpenParquet(l) ==
  /\ at[l] = "convert"
  /\ todo[l] # {}
  /\ NextPath(l) \in Convertible
  /\ parquet' = [parquet EXCEPT ![NextPath(l)] = "torn"]
  /\ opener' = [opener EXCEPT ![NextPath(l)] = l]
  /\ \E r \in Readable(NextPath(l)) : image' = [image EXCEPT ![l] = {NextPath(l)} \X r]
  /\ at' = [at EXCEPT ![l] = "write"]
  /\ UNCHANGED <<zoneVars, rows, todo, source, asked, bronze, kills>>

\* Slip: a landing that cannot be converted is passed over.
ConversionFailsSkipped(l) ==
  /\ at[l] = "convert"
  /\ todo[l] # {}
  /\ NextPath(l) \notin Convertible
  /\ todo' = [todo EXCEPT ![l] = @ \ {NextPath(l)}]
  /\ UNCHANGED <<zoneVars, parquet, rows, opener, at, source, asked, image, bronze, kills>>

\* MissingSidecarError, or a payload that Arrow cannot read, ends the whole command: nothing
\* after it is converted and nothing at all is loaded.
ConversionFails(l) ==
  /\ at[l] = "convert"
  /\ todo[l] # {}
  /\ NextPath(l) \notin Convertible
  /\ Leave(l)
  /\ UNCHANGED <<zoneVars, parquet, rows, opener, bronze, kills>>

\* The writer is done.  If another command has emptied the file since, what is
\* in it is up to that one.
CloseParquet(l) ==
  LET n == NextPath(l) IN
  /\ at[l] = "write"
  /\ IF opener[n] = l
       THEN /\ parquet' = [parquet EXCEPT ![n] = "whole"]
            /\ rows' = [rows EXCEPT ![n] = {o \in Objects : <<n, o>> \in image[l]}]
       ELSE UNCHANGED <<parquet, rows>>
  /\ todo' = [todo EXCEPT ![l] = @ \ {n}]
  /\ image' = [image EXCEPT ![l] = {}]
  /\ at' = [at EXCEPT ![l] = "convert"]
  /\ UNCHANGED <<zoneVars, opener, source, asked, bronze, kills>>

\* _read_dataset_rows: the rows of every file, or of one source_file.
Selected(l) ==
  {k \in Keys : /\ parquet[k[1]] = "whole"
                /\ k[2] \in rows[k[1]]
                /\ source[l] \in {None, k[1]}}

\* A file that is not whole fails the read, even when the filter wants another.
ReadFails(l) ==
  /\ at[l] = "convert"
  /\ todo[l] = {}
  /\ \E n \in Names : parquet[n] = "torn"
  /\ Leave(l)
  /\ UNCHANGED <<zoneVars, parquet, rows, opener, bronze, kills>>

\* With rows to load a transaction begins; with none the command returns 0.
ReadDataset(l) ==
  /\ at[l] = "convert"
  /\ todo[l] = {}
  /\ \A n \in Names : parquet[n] # "torn"
  /\ IF Selected(l) = {}
       THEN Leave(l)
       ELSE /\ at' = [at EXCEPT ![l] = "insert"]
            /\ image' = [image EXCEPT ![l] = Selected(l)]
            /\ UNCHANGED <<todo, source, asked>>
  /\ UNCHANGED <<zoneVars, parquet, rows, opener, bronze, kills>>

\* Slip: the table is replaced instead of added to.
CommitReplaces(l) ==
  /\ at[l] = "insert"
  /\ bronze' = image[l]
  /\ Leave(l)
  /\ UNCHANGED <<zoneVars, parquet, rows, opener, kills>>

\* COPY into staging, INSERT ... ON CONFLICT DO NOTHING, commit.
Commit(l) ==
  /\ at[l] = "insert"
  /\ bronze' = bronze \union image[l]
  /\ Leave(l)
  /\ UNCHANGED <<zoneVars, parquet, rows, opener, kills>>

\* The loader is killed, or its transaction fails and rolls back.
KillLoader(l) ==
  /\ at[l] # "idle"
  /\ kills < MaxKills
  /\ kills' = kills + 1
  /\ Leave(l)
  /\ UNCHANGED <<zoneVars, parquet, rows, opener, bronze>>

Work(l) ==
  \/ OpenParquet(l) \/ ConversionFails(l) \/ CloseParquet(l)
  \/ ReadFails(l) \/ ReadDataset(l) \/ Commit(l)

LoaderStep(l) ==
  \/ StartAll(l) \/ Work(l) \/ KillLoader(l)
  \/ \E n \in Names : StartOne(l, n)
  \/ \E src \in Names \union {None} : StartSkip(l, src)

\* A step of a command that lands a file.
LandingStep(p) == ZoneStep(p) /\ UNCHANGED loadVars

Next == (\E p \in Procs : LandingStep(p)) \/ (\E l \in Loaders : LoaderStep(l))

Spec == Init /\ [][Next]_vars

-----------------------------------------------------------------------------
\* A command that is not killed goes on; the scheduler starts the load task again
\* and again, whatever else its worker runs in between.
Fairness ==
  /\ \A p \in Procs : WF_vars((ClosePayload(p) \/ OpenSidecar(p)
                                 \/ CloseSidecar(p)) /\ UNCHANGED loadVars)
  /\ \A l \in Loaders : WF_vars(Work(l)) /\ SF_vars(StartAll(l))

FairSpec == Spec /\ Fairness

Stored == {n \in Names : RowsOf(n) # {} /\ RowsOf(n) \subseteq bronze}

\* Landings that no load will ever convert: orphans, which nobody will seal, and payloads
\* that are not CSV.
Blockers == {n \in Landed \ Convertible : \A p \in Procs : held[p] # n}

\* The table holds a landing with all its rows or not at all, and only landings that
\* a sidecar attributes, however conversions overlap and are killed
\* (parquet_writer.py:78-85, 153-164; postgres_loader.py:85-103).
WholeLandings ==
  \A n \in Names : RowsOf(n) \intersect bronze # {} =>
    n \in Stored /\ n \in Sealed

\* A load that commits has stored every file it listed at its start, so a zero exit
\* code never hides a landing that was left out (cli.py:160-180).
CommitIsComplete ==
  [][\A l \in Loaders :
       at[l] = "insert" /\ at'[l] = "idle" /\ kills' = kills
         => asked[l] \subseteq Stored']_vars

\* A torn Parquet file fails every read of the dataset, and a load of all landings heals
\* those that earlier loads have left, its own killed attempt included: any that is torn is
\* still ahead of it, or another command has opened the file since it passed there
\* (parquet_writer.py:153-166; cli.py:160-180).
RetriesHeal ==
  \A l \in Loaders : at[l] # "idle" /\ source[l] = None /\ asked[l] # {} =>
    \A n \in Names : parquet[n] = "torn" => n \in todo[l] \/ opener[n] # l

\* What the bronze layer promises (BronzeLog): whole landings, appended once.
Log == INSTANCE BronzeLog WITH sealed <- Sealed, stored <- Stored

ImplementsLog == Log!LogSpec

OneAtATime == \A l, k \in Loaders : at[l] # "idle" /\ at[k] # "idle" => l = k

\* Once loads stop overlapping, every landing that was ever sealed is loaded in the end,
\* unless something stands in the directory that cannot be converted, the orphan of a killed
\* ingestion or a payload that is not CSV: the torn Parquet files of overlapping and killed
\* loads, landings in progress and failed transactions all heal (cli.py:160-180).  Two loads
\* may tear each other's files for ever.
SealedArrivesOrBlocked ==
  <>[]OneAtATime => \A n \in Names : n \in Sealed ~> (n \in Stored \/ Blockers # {})

\* "Why retries are safe here ... by construction" (sat_tracker_pipeline.py:11-21):
\* repeating the load brings every sealed landing into the warehouse.
SealedArrives == \A n \in Names : n \in Sealed ~> n \in Stored
=============================================================================
