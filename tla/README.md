# A verified model of sat-tracker

sat-tracker fetches orbital element sets and the satellite catalogue from CelesTrak, carries
them through a bronze/silver/gold warehouse, propagates every propagatable satellite with SGP4
and shows the result on a map. This directory models the parts of it where order, failure and
overlap decide whether the data is right, checks them with TLC and proves what matters most
with TLAPS. Paths below are relative to the repository (its Python package is
`src/sat_tracker/`).

## 1. The system and its components

| Component | State it keeps | Operations | Interacts with |
|---|---|---|---|
| Daily volume ledger (`ingest/celestrak_client.py:158-270`) | `download_volume.json`: date, bytes | check the budget, record a response | every command that fetches, all over one unlocked file |
| Landing zone (`celestrak_client.py:132-155, 273-319`) | payload files and `.meta.json` sidecars | write payload, then sidecar; read sidecar | read by the cache, the Parquet writer and the load |
| Cache and conditional fetch (`celestrak_client.py:93-129, 376-595`) | none of its own: mtimes of landings, ETags in sidecars | look, ask, 200 / 304 / empty / fatal, land, touch | ledger, landing zone, CelesTrak |
| SDS encoding (`celestrak_client.py:322-373`) | none | encode, decode | nothing in the warehouse reads it |
| Parquet writer (`storage/parquet_writer.py`) | one Parquet file per landing, written in place | convert one landing | landing zone; the loader reads its dataset |
| Postgres loader (`storage/postgres_loader.py`, `sql/init/02`, `03`) | `bronze.raw_gp`, `bronze.raw_satcat` | read dataset, COPY, insert what is new | Parquet dataset, Postgres |
| Warehouse (`transform/`) | silver and gold tables and one view | `dbt build` | bronze tables; read by propagate and by the map |
| SGP4 propagation (`propagate/elements.py`, `frames.py`) | none | load element sets, propagate, convert | gold view, snapshot writer, map |
| Snapshot writer (`storage/snapshot_writer.py`, `sql/init/04`) | `gold.position_snapshot` | truncate, copy, commit | other writers and every reader, through table locks |
| Pass search (`propagate/passes.py`) | none | sample, find passes | map |
| Ground tracks (`propagate/tracks.py`, `app.py:786-923`) | none | trace an orbit, cut or unwrap it | map |
| Map (`app.py`) | session state of a browser session, caches of the process | read, filter, focus, trace, draw, rerun | gold view, `gold.dim_object`, propagation |
| Scheduled pipeline (`airflow/dags/sat_tracker_pipeline.py`) | runs and the states of their tasks | run, retry, skip tasks | starts every command |
| Settings (`config.py`), containers, CI | none | - | values and images only |

What is hard here: commands are processes that share files and no lock; files are written in
place; a command may be killed at any point and is then retried by the scheduler, in whole;
the two ingests run in parallel; a load lists a directory that an ingest is writing to; a
reader may query a table while it is rewritten; the budget, the cache window and the ETag are
read before a request and used after it; the layers of the warehouse are as old as the last
command that got through, and a run may begin just inside a cache window; the map is a script
that every interaction interrupts and starts again, over caches that outlive it.

What makes each part correct, in a sentence:
the ledger never lets the real daily total run away; a sidecar vouches for a whole payload;
no request is made while a landing is fresh, and a 304 only ever renews whole, newest bytes;
the bronze table holds whole attributable landings, appended once, and in the end all of them;
the silver history tiles every satellite's timeline, only grows, and the gold view serves
nothing its catalogue calls re-entered;
the snapshot is one register that readers never see empty or mixed;
the pass search reports exactly the runs of the series above the threshold, each with its own
edges, peak and truncation mark;
an orbit is drawn whole, and no line crosses the map where the orbit does not;
what a run of the schedule puts on the map is current data of both feeds, the map's
instant never moves back, and every boundary of the schedule is served;
what the browser shows at rest is of one instant and one read of the warehouse, its highlight
is on something that is there, and reruns come to an end.

## 2. Modules

| Module | Models | State and actions against the code |
|---|---|---|
| `VolumeLedger` | the ledger | `ledger` is the file (`text` is empty while it is missing or truncated, garbled where a write has left the tail of a longer one); `phase[p]` is where a command is in `_get_celestrak`; `Check`, `Receive`, `NotModified`, `LoseAnswer`, `ReadBack`, `Truncate`, `Write`, and `Crash` and `Midnight` between any two of them; `downloaded` and `booked` are history |
| `DailyBudget` | what the budget promises of a day | the day's total; a response comes in while there is budget left (`Counted`), or is lost on its way to the ledger (`Uncounted`) |
| `LandingZone` | `_write_with_metadata` | `payload`, `sidecar` are absent, partial or complete per name; `OpenPayload`, `ClosePayload`, `OpenSidecar`, `CloseSidecar`, `Abandon` |
| `CelestrakClient` | `_fetch_and_cache` | instantiates the two above on its own variables; `older` and `age` are the mtimes: which landings of the stem were written or touched before this one, and how long ago it was; every step of a fetch is one action, `Record` and the landing steps are the steps of the instances |
| `BronzeLog` | what bronze promises | `Seal` a landing, `Store` any set of sealed landings at once |
| `BronzeStore` | Parquet writer, loader, `load` command | extends `LandingZone`; `at[l]` is where a loader is; `parquet` is absent, torn or whole per landing; a landing is `Convertible` when it is sealed and its content reads as CSV, and any other fails the load that meets it (`ConversionFails`) |
| `PositionSnapshot` | what the snapshot promises | a register: `Replace` by a whole batch, `RegRead` |
| `SnapshotWriter` | `sat-tracker-propagate` and its transaction | `lock`, `work`, `table` are Postgres' lock, the transaction's view and the committed table |
| `Warehouse` | `transform/models`, and `sat-tracker-transform` | one variable per relation that dbt keeps (`elset`, `space_object`, `dim_object`, and `fact` as whether the view exists, since a view holds no rows of its own); each model is an operator over what it `ref()`s (`Historised`, `Newest`, `Interpreted`, `Propagatable`); one action per node of a build, which may pass, fail its tests, fail to build, be skipped or be killed; `LandGp`, `LandCat`, `LoadGp`, `LoadCat` bring data in at any time and in any order |
| `PassSearch` | `look_angle_series`, `find_passes`, `_build_pass` | `Sample` is one iteration of the sampling loop, `Rise`, `Fall` and `Stay` the branches of the scan, `EndScan` and `DropInstantaneous` what follows it; `index` and `run_start` are the code's own, counted from one |
| `TrackPaths` | `orbit_track`, `orbit_tracks`, `split_at_antimeridian`, `unwrap_longitudes` | `Trace` is one sample, `Cut` and `Extend` the branches of the split, `Unwrap` one step of the other loop; `points` holds sample numbers, `segments` the first and last point of each, `shift` is the code's `offset` |
| `Pipeline` | the DAG, and the five commands reduced to what they read when they begin and write when they end | `state[s][t]` and `tries[s][t]` are Airflow's task instances of the run in slot `s`; `landing`, `bronze`, `gold`, `snapshot` hold, per feed, the hour the data of that layer was fetched or confirmed; `Begin*`, `End*` and `Fail*` are the attempts of a task, `GiveUp` an upstream failure passed on; an ingest that fails was not answered, was answered and landed nothing, or landed; a propagate that succeeds has replaced the map or found nothing to put on it; `heard` counts answers and is history |
| `MapSession` | `main` and what it calls, in one browser session | `at` is where the script is; `elsets` and `dimension` are the process's caches, `snapshot_ts` and `clicked_ids` the session's state, `keep` to `button` the widgets, `frame`, `visible`, `traced_ids` the locals, `screen` what the browser shows; one action per stretch of the script between two points where it may be interrupted, fail, return or rerun, and one per kind of interaction |
| `VolumeLedgerProofs`, `CelestrakClientProofs`, `BronzeStoreProofs`, `SnapshotWriterProofs`, `WarehouseProofs`, `SamplingProofs`, `PipelineProofs`, `MapSessionProofs` | theorems | extend the module they are about; `BronzeStoreProofs` begins with the landing zone alone, `SamplingProofs` is about `PassSearch` and `TrackPaths` |
| `MCVolumeLedger`, `MCCelestrakClient`, `MCBronzeStore`, `MCSnapshotWriter`, `MCWarehouse`, `MCPassSearch`, `MCPipeline`, `MCMapSession` | instances for TLC | give the constants small sets |

`CelestrakClient` composes `VolumeLedger` and `LandingZone`; `BronzeStore` extends `LandingZone`
and implements `BronzeLog`; `SnapshotWriter` implements `PositionSnapshot`; with one command at a
time `VolumeLedger` implements `DailyBudget`. `Pipeline` composes
the commands one level up, with the time of the data in the place of the data; what it takes of
each is what the module with the command's insides shows: a landing that is loaded is whole, a
snapshot changes in one step, a transaction has happened or has not. `MCPassSearch` runs
`PassSearch` or `TrackPaths`, the two consumers of a sampled satellite, in one instance.

In each module the operators commented "Slip:" are not part of the model. Each is the body
that a plausible mistake would give the definition after it; substituting one must break a
property, which is how every property is known to depend on the code.

Abstractions: a payload is a number or a model value, and its ETag is the payload itself (equal
ETags mean equal bytes, as HTTP promises of a strong ETag); names are values that are never
used twice (timestamp and uuid4); a response's size is a number of units that only the budget
sees; rows are a landing and an object; Postgres is what the code uses of it (a transaction's
effects appear at its commit, TRUNCATE locks out readers, a primary key drops known rows); an
epoch is a number, an orbit its satellite and its epoch; a catalogue entry is a satellite and
whether it is still in orbit; an elevation and a longitude are integers (a longitude in whole
degrees, both meridians included); in `Pipeline` the unit of time is half a period of the
schedule; in `MapSession` everything the sidebar's filters express is one set of satellites they
let through, and Streamlit is what the script relies on: an interaction interrupts the script and starts it
again, a rerun keeps the widgets' values, a run that ends drops the values of widgets it did not
render, and a widget whose options have changed may forget its value.

## 3. What the runs check

All runs are breadth-first and exhaustive within their bounds. `CHECK_DEADLOCK FALSE` is set
everywhere because each system may come to rest: bounds are used up, a search is done, nothing
is left to load.

| Run | Instance | Shows |
|---|---|---|
| `ledger_single` | one command at a time, budget 3, responses 0 to 2, three days, two lapses a day | the ledger and what the command owes account for every byte (`Accounting`); it never claims too much, across kills and midnight (`NeverOvercounts`); a spent budget halts the next request (`HaltsOnceSpent`); the file that is read, emptied and rewritten implements `DailyBudget` (`ImplementsBudget`), so the day's total stays below budget plus one response per lapse |
| `ledger_lost_update` (violation) | two commands, no kills, one day | `HaltsOnceRecorded` fails: both read the ledger before either writes, one update is lost, and with both done the next request passes the check of a budget that is spent |
| `client_cache` | one command, both feeds, windows of 1 and 2 hours, three landings, two contents, two days, two lapses | no request while a landing is inside its window, an ETag revalidates only whole landings of the same stem, the newest file holds the newest content; the whole fetch takes ledger and landing zone through steps of their own modules only (`KeepsTheParts`) |
| `bronze_store` | one ingestion, two loaders, two landings, of which one may not read as CSV, two objects, one kill, fair | a sidecar vouches for a whole payload, the table holds whole attributable landings, a commit has stored all the command listed, the store implements `BronzeLog`; whatever Parquet file is torn is still ahead of a full load that runs, unless another command has opened it since (`RetriesHeal`); while loads do not overlap, every sealed landing reaches the table or one that cannot be converted stands in the directory (`SealedArrivesOrBlocked`) |
| `bronze_orphan` (violation) | one loader, contents that all read | `SealedArrives`, without the exception for what cannot be converted, fails: a killed ingestion's orphan stops every later load |
| `snapshot` | two writers, one reader, two satellites, three runs | the table is a register (no mixture, no blank) that changes only to the whole batch of the command that commits; the lock is with a command that can go on and give it up (`HolderCanFinish`), and it is released |
| `warehouse` | one docked satellite, two epochs, two landings of each feed, one failure or kill | intervals tile, history only grows, the decay gate holds over whole builds and keeps nothing back that is in orbit (`ServesWhatIsInOrbit`), the view converges to what the landings say |
| `warehouse_keys` (violation) | two satellites, one landing of each feed | a satellite launched between the catalogue and the GP landing has an element set and no dimension row, and is dropped without an error |
| `pass_search` | six instants, elevations below, at and above the threshold, declined instants; five samples at four longitudes, declined samples, both projections | every run of two samples or more is found once, with its peak and its truncation mark; two neighbouring points are joined on the flat map exactly when they are no more than half the map apart, and the globe's longitudes continue without a jump |
| `pass_gaps` (violation) | four instants, declined ones among them | `GapsAreBreaks` fails: samples on either side of a declined instant make one pass |
| `pipeline` | boundaries every 2 units, windows of 2 and 4, three attempts, four units of time, three failures | what is published is computed after its run began and from both feeds inside their windows or newer (`PublishedIsCurrent`); the map's instant never moves back; nobody is answered for a feed while a landing of it is inside its window, whatever is retried (`NoAnswerInsideWindow`); a run that is not over can move (`NoRunIsStuck`) and has finitely many moves (`MovesRunOut`); every boundary is served |
| `map_session` | two satellites, two builds, one orbit at a time (`MAX_TRACKS`), five interactions at any point of the script | positions resolve in the cached dimension; orbits belong to the dots they are drawn with; the highlight is on something that is there; between two interactions every step leaves the script less to do (`RerunsRunOut`), and it comes to rest |

Bounds and why they are enough. Two commands, loaders or writers are enough for every overlap
the code can have, because each step touches one file or one transaction; the theorems of
section 5 cover any number of them. Budgets and sizes are units, chosen so that the budget is
reached both exactly and past it. `MaxDownload`, `MaxLapses`, `MaxDay`, `MaxKills`, `MaxRuns`,
`MaxEpoch`, `MaxGp`, `MaxCat`, `MaxFails`, `MaxClock`, `MaxFaults`, `MaxBuild` and `MaxMoves`
cap counters; each is a guard of the one action that would pass it. Three landings per client suffice to have an old one, a newer one and
one being written. Two landings in the bronze store suffice for one that stands in the way of
another. The warehouse runs with one satellite because every query of it partitions by
satellite, and `HOST` is the orbit centre on which the decay gate and the Earth-orbit rule meet;
the proofs cover any set of satellites. Six samples hold two passes with a gap between them
and a declined instant inside. Five samples hold two crossings in a row with a point on either
side, in both directions; the four longitudes differ by less than, exactly and more than half a
turn. Three failures exhaust one task's attempts, or spread over three tasks of a run; four units
of time are three boundaries, so that a run may be served from the cache of the one before and
the catalogue's window ends inside the instance. Two slots let a second run start if the schedule
let it. The runs that are expected to fail have the smallest bounds under which their behaviour
exists. Five interactions suffice to observe, choose, filter, refresh and click; the second build
serves a satellite that the first does not know, and the satellites take turns above the horizon,
so that a choice can leave the map and come back.

What the violations say of the code:

 - *Lost updates* (`celestrak_client.py:203-212`): the pipeline runs both ingests in parallel
   over one ledger without a lock. Two responses that are recorded at the same time may be counted
   as one, and the daily budget is passed unnoticed for the rest of the day.
 - *Orphans* (`cli.py:168-179`, `parquet_writer.py:78-85`): a payload whose ingestion was killed
   before its sidecar makes every later full load fail, until somebody removes the file.
 - *Unresolved keys* (`_gold_models.yml:24-26`, `fact_propagatable_elset.sql:71`): the dump is
   complete, but as old as its own cache window, so a key may be missing from it.
 - *Gaps* (`passes.py:134-136, 253-260`): the docstring says that gaps in the series are breaks. The
   scan walks the shortened series by position, so a pass continues across a gap of any length.
   `FindsEveryPass` says what holds: the passes are the runs of the series as it was sampled.

Where the words of the repository and its code differ without a run of their own:

 - `celestrak_client.py:42-44, 80-81` and `docs/runbook.md:650-658` say a fatal answer must not be
   retried, and `sat_tracker_pipeline.py:48-50` that a retry re-runs against the cached landing. The
   command ends with an error, and `retries: 2` (line 46) starts it twice more. After an answer that
   was rejected, held no data or was lost with its command nothing has landed, and each retry asks
   again. `NoAnswerInsideWindow` says what holds: a landing keeps its window through every retry.
 - `celestrak_client.py:27-29` says no request is made while a landing is inside its window, and line
   423 that a touch confirms bytes that are current. The directory is looked at once, before the
   request (413-419): with two fetches of one stem at once, the second may ask although the first has
   landed, its 304 may touch an older file after a newer one has landed, and an older answer may land
   after a newer one. `NoRequestWhileFresh` and `LatestIsNewest` are checked and proved for one
   fetcher of each target. The schedule keeps to that, as long as `max_active_runs=1` keeps its runs
   apart (`NoAnswerInsideWindow`); a command started by hand beside it does not.
 - `sat_tracker_pipeline.py:113-114` says the decay gate can never be built from a stale catalogue.
   The catalogue may be as old as its 24-hour window when the run begins; `PublishedIsCurrent` says what
   holds. In the same way a run that looks just under two hours after the last answer is served the
   old element sets, so the map's data may be up to two periods old when the next run begins.
 - `app.py:327-331` says a row without a dimension fails visibly with nulls. `apply_filters` keeps
   rows whose regime is among the chosen ones (628-632), so such a row is dropped without a word;
   `EveryPositionResolves` is what keeps that from happening.
 - `app.py:641` calls the caches of the warehouse reads "cached for the session". `st.cache_data`
   without a time to live is the process's, so no session sees a new build until the process is
   restarted; the same fact is what lets `OrbitsFitTheirDots` hold.
 - Two full loads that overlap for ever may tear each other's Parquet files for ever; hence the
   premise of `SealedArrivesOrBlocked` that loads do not overlap, which `max_active_runs=1` gives for
   the schedule.

One behaviour no line of the repository speaks of, and no property claims away: a propagate that finds
no element sets (`cli.py:224-226`) or none that SGP4 accepts (`snapshot_writer.py:73-78`) exits with
0 and leaves the map as it is, so a run may succeed over an old map, or none. `PublishedIsCurrent`
is about what is written.

## 4. Fairness

Safety needs none. Liveness assumes:

 - `BronzeStore`: a landing that has begun goes on, unless killed (weak fairness of the writing
   steps); a loader's work goes on (weak); a full load is started again whenever it can be
   (strong, because a loader that is busy or waiting comes and goes): the DAG runs `load` on a
   schedule (`sat_tracker_pipeline.py:44-115`). `SealedArrivesOrBlocked` is for behaviours in which
   loads do not overlap, as `max_active_runs=1` gives. Kills are bounded, and nothing is assumed of
   ingestion starting at all.
 - `SnapshotWriter`: a transaction that copies goes on or ends. It may still fail.
 - `Warehouse`: a landing is loaded in the end (what `SealedArrivesOrBlocked` says, without blockers), a
   build that runs makes progress, and whole builds are started again and again (strong, since
   partial builds by hand may stand in between).
 - `Pipeline`: some step of the active run is taken in the end (weak): the scheduler keeps
   scheduling, and a command that is not killed ends. The DAG sets no `execution_timeout`, so a
   command that hangs would hold its run for ever; that a command ends rests on the 10 seconds
   its requests may be silent (`celestrak_client.py:256-258`) and on Postgres and dbt answering. Failures are bounded by `MaxFaults` but
   never assumed to happen or not to.
 - `MapSession`: the script runs on unless it is interrupted (weak). Interactions are bounded and
   never assumed.

## 5. What is proved

TLAPS checks the following for every value of the constants that satisfies the named
assumptions of each module.

`VolumeLedgerProofs`. `TypeCorrect` and `LedgerNeverOvercounts` hold for any number of
commands; the latter needs `ReadBackIsBooked`: what a command read back plus what it is about
to add was booked today, unless it stamped an earlier day. `SingleAccounting`,
`SingleOvershootBounded` and `SingleHaltsOnceSpent` assume `Procs = {P}`; with two commands they
are false, as `ledger_lost_update` shows. Their inductive invariant is `Accounting`: the bound
on `downloaded` alone is not inductive, since it says nothing of what a command has read but not
written. Multiplication by `Ceiling` is kept in a lemma of its own. `SingleKeepsTheBudget` shows
under the same assumption that the ledger implements `DailyBudget`: from `Accounting`, a command
that has been let through (`ClearedIsInBudget`) is below the budget as far as it was counted.

`BronzeStoreProofs`. First the landing zone alone: `WritersOwnTheirFiles` adds to the types that
the stage of a writer fixes the state of its two files and that no two writers hold one name;
from it follow `SidecarVouches` and, step by step, `LandingsAreImmutable`. Every step of the
store is a step of the zone or leaves it alone (`StoreKeepsTheZone`), so both hold of the store.
Above it, `StoreInv` says that only sealed landings are converted and that a whole Parquet file
has all their rows (`ConvertedIsWhole`); that a loader writes the rows of the landing it is at,
has in the dataset whatever it has taken off its list, and inserts whole landings and all that it
was asked for (`Progress`); and that the table is made of whole landings (`WholeIn`). Without
`Progress` the invariant of the table is not inductive: it says nothing of what a loader has read
and not committed. `TableHoldsWholeLandings`, `CommittedLoadsAreComplete` and
`StoreImplementsLog` follow for any number of loaders, though their files are torn by one another:
a torn file ends a load, it never reaches the table. `RepeatedLoadsHeal` adds to `StoreInv` what a
load of all landings has ahead of it: it lists every landing that may be torn, takes one off its
list only by closing the file, and a file torn again later was opened by somebody else. Its list is
taken in the order of names, so the proof needs the least of a set of naturals to exist.

`CelestrakClientProofs`. `ClientInv` holds whatever commands run together: a landing has a target,
a content and a tag that names no other content (`LandingsFit`); a target with landings has exactly
one newest (`MtimesOrdered`), and none is younger (`AgesFit`); and what a command holds in its
locals describes landings that stay as they are (`Locals`). `EtagsNameWholePayloads` follows.
`WindowsAreKept` and `NewestFileHasNewestContent` assume `OneFetcherEach`: no target is fetched by
two commands. With two on one target both are false (section 3).
`Window` is what the assumption buys: between its look and its landing, the landing a command
looked at is still the newest of its target, and what it was answered is as new as any.
`PartsAreKept` shows, for any commands, that every step of a fetch is a step of the ledger or leaves
it alone, and the same of the landing zone. Through it the theorems about the parts become theorems
about whole fetches: `NoFetchIsHaltedEarly` and, with one command, `FetchesKeepTheBudget` come from
`VolumeLedgerProofs`, `FetchedLandingsAreSound` from the landing zone's own invariant.

`SnapshotWriterProofs`. `WriterInv` says that what a command has computed is a batch of its own
instant (`BatchesAreWhole`), that exactly the copying command holds the lock and has copied
nothing but its batch (`CopyingIsExclusive`), and that the table and every view are whole
batches (`PublishedIsWhole`). `SnapshotsNeverMix`, `MapNeverGoesBlank` and
`WholeBatchesPublished` follow, so does `LockIsNeverLeftBehind`, and `Implementation` shows
`Spec => ImplementsRegister`: a commit is `Replace`, a read is `RegRead`, everything else
stutters, because `work` is invisible until it is committed.

`WarehouseProofs`. `WarehouseInv` has five parts: types; every satellite that is known has an
epoch; `IsHistory` (one row per element set, each interval ends at the next epoch or not at all,
every row is traced to a loaded landing that holds it); `CatalogueInv` (no landing that is
loaded is empty, and what one landing calls re-entered no later one has in orbit); and
`GateInv`, which says that while the view is still to be made, the catalogue tables that are
done already know every re-entry the build began with. `IntervalsTile` needs the latest epoch
before an instant to exist, which comes from the well-foundedness of the naturals.
`RebuildsOnlyGrow` compares what two sets of loaded landings yield, the second larger.
`GateHolds` follows from the order in which dbt builds its nodes, and would fail without it.
`GateLetsThrough`, the converse, needs two parts more: `SourcedInv` (no table makes up a
re-entry) and `CoverInv` (while the view is still to be made, the catalogue tables that are done
have every satellite that was known when the build began).

`SamplingProofs`, pass search. The loop invariant has three parts: the series is increasing and holds
exactly the instants SGP4 answered (`Sampled`); the open run is above the threshold from its
start to the sample before `index`, and starts where the series rises (`OpenRun`); the passes so
far summarise exactly the runs that are complete before `index` (`Found`). That every run has a
first highest sample is by least counterexample. The four properties follow for windows of any
length, any threshold and any sky.

`SamplingProofs`, tracks. `PathInv` says of the split (`Splitting`) that everything before `first` is covered by
segments cut at crossings and that no crossing lies between `first` and `place`, and of the
unwrapping (`Unwrapping`) that the points so far are the samples' longitudes plus whole turns with no long step
between them. `CutExactly` and `Continuous` follow for orbits of any number of samples and any
longitudes.

`PipelineProofs`. `PipelineInv` adds to the types: at most one run is active and a
slot without one is idle (`Single`, `Idle`); a task has begun only when its upstreams have
succeeded (`Order`) and has used no more attempts than it may (`Attempts`); every stamp lies in the
past (`Past`); an ingest that asks found nothing fresh (`Asked`); and, stage by stage, what a task
that runs or has succeeded holds is inside the windows of the run (`IngestsFed`, `LoadFed`,
`TransformFed`, `PropagateFed`). `OnlyCurrentMaps`, `MapOnlyAdvances` and `WindowsAreKept` follow for any
period, windows, retries and failures. `Order` is why a partial load or build, whose layers are
of different age, never reaches the map: only a success opens the next task. `RunsAreNeverStuck`
goes through the task graph in its order: the first task that is not over has upstreams that are, so
it has what it waits for or waits in vain. `RunsEnd` needs `Attempts`: each task has two moves for
each attempt left and one for what it is doing, and every step of a run takes one.

`MapSessionProofs`. `SessionInv` adds to the types that no instant is in the future (`InTime`); that
the dimension is never older than the element sets, because both reads are made in one order and
kept (`CachesInOrder`); that the frame is made of the session's instant and of the cached reads for
as long as the script uses it (`OneFrame`); and that the screen's orbits, opacity and pass table
belong to what is drawn (`Drawn`). `PositionsResolve` needs the catalogue only to grow.
`RerunsEnd` weighs what is left to do: the stretches of the script ahead, and eight for every run
still to come, of which a pressed button stands for two and a click that is not merged for one. A
rerun uses up its cause, also where clearing lets go what the chart then reports again.

Every safety property that a passing run checks is a theorem. Some theorems say what no run asks
again: the types (`TypeCorrect` and the like, of every module with proofs), and what follows from a
property that is checked: `SingleOvershootBounded` from `ImplementsBudget`, `SnapshotsNeverMix` and
`MapNeverGoesBlank` from `ImplementsRegister`, `TimeOrder` from the runs that `FindsEveryPass` finds,
`LandingsAreImmutable` from names that are never used twice. Only model-checked: the liveness
properties (`SealedArrivesOrBlocked`, `LockIsReleased`, `Converges`, `EveryBoundaryIsServed`,
`RerunsSettle`), since fairness and leads-to are out of the prover's reach. What they rest on
besides fairness is proved: `NoRunIsStuck` and `MovesRunOut` say that a run of the schedule can
always move and cannot move for ever, `RerunsRunOut` that the script cannot, `HolderCanFinish` that
whoever holds the lock can give it up, `RetriesHeal` that a repeated load meets what an earlier one
tore.

## 6. What is not modelled, and why

 - Numbers: SGP4, frames, azimuths, distances and every other floating-point result. Whether
   SGP4 declines a satellite or an instant is a free choice, which covers all of them.
 - SDS FlatBuffers: a library's encoding; its fetches are the flow `CelestrakClient` has.
 - dbt and Postgres beyond what the code uses: dbt-postgres' swap of a rebuilt table, which
   drops views over the old one, is modelled as external behaviour; tests are modelled as a node
   that may fail after its table was replaced, not one by one.
 - Of the map: colours, legend, tooltips, layout, speed, staleness, the text of the pass table, the
   globe's page, the altitude slider and options beyond their effect on which satellites are let
   through. Whether Streamlit's chart reports its selection again after it has been redrawn is a
   free choice, so nothing is claimed of which satellites are traced after "Clear clicked", only that
   clearing and merging do not start each other over for ever (`RerunsRunOut`).
 - Of the schedule: Airflow itself, beyond a task following its upstreams' success, retries and
   failures passed on; commands started by hand beside it (`VolumeLedger`, `CelestrakClient`,
   `BronzeStore` and `SnapshotWriter` have those); a scheduler that loses track of a task whose
   command lives on.
 - Settings, containers, CI.
 - Columns that no property tells apart: descriptive attributes, casts of single columns.

## 7. Hazards

`PROJECT.json` lists each hazard of the code at its line with the properties that cover
it; none is left without.

## 8. Where it stands

Every component the repository's own code drives is modelled: ledger, landing zone, conditional
fetch, bronze store, snapshot writer, warehouse, pass search, ground tracks, schedule and map
session; eight modules have proofs. What would add most next:

 1. A run of `Pipeline` with a command started by hand beside the schedule, to show which of its
    properties then fail and which the commands' own modules still give.
 2. A `client_cache` instance with two commands that fetch a feed each and share the ledger over
    several days; the theorems cover it, the state space is out of a short run's reach.
