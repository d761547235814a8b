----------------------------- MODULE MapSession -----------------------------
(***************************************************************************)
(* A browser session of the map (app.py): the script that main is, run     *)
(* from the top after every interaction and after every st.rerun, over     *)
(* the process's caches and the session's state, while the pipeline        *)
(* rebuilds the warehouse.                                                 *)
(*                                                                         *)
(* Streamlit is modelled by what the script relies on: an interaction      *)
(* interrupts the script and starts it again, a rerun keeps the widgets'   *)
(* values, a run that ends drops the values of widgets it did not render,  *)
(* and a widget whose options have changed may forget its value.           *)
(***************************************************************************)
EXTENDS Integers, FiniteSets

CONSTANTS
  Sats,       \* catalogue numbers
  Served,     \* what each build of the warehouse serves
  Known,      \* what is in the dimension of each build
  Overhead,   \* the satellites above the observer's horizon at each instant
  MaxTracks,  \* MAX_TRACKS
  None,
  MaxBuild,   \* bound: builds of the warehouse
  MaxMoves    \* bound: interactions

Builds == 0..MaxBuild
Instants == 0..MaxMoves

\* The serving view joins the dimension, and the catalogue only grows.
ASSUME SessionAssumption ==
  /\ Sats \subseteq Nat /\ None \notin Sats \union Builds
  /\ None \notin {"refresh", "clear"}
  /\ MaxBuild \in Nat /\ MaxMoves \in Nat /\ MaxTracks \in Nat
  /\ Served \in [Builds -> SUBSET Sats]
  /\ Known \in [Builds -> SUBSET Sats]
  /\ Overhead \in [Instants -> SUBSET Sats]
  /\ \A b \in Builds : Served[b] \subseteq Known[b]
  /\ \A b, c \in Builds : b <= c => Known[b] \subseteq Known[c]

VARIABLES
  build,        \* the warehouse's build
  elsets,       \* load_elsets' cache: the build it was read from
  dimension,    \* load_dimension's cache
  snapshot_ts,  \* st.session_state
  clicked_ids,  \* st.session_state
  keep,         \* the satellites the sidebar's filters let through
  observe,      \* "Only what is above the horizon"
  globe,        \* the projection
  searched,     \* "Trace the orbit of"
  target,       \* PASS_TARGET_KEY
  picked,       \* the chart's selection
  button,       \* the button whose click started the run
  at,           \* where the script is
  frame,        \* main's local: the instant and the builds it is made of
  visible,      \* main's local
  traced_ids,   \* main's local
  screen,       \* what the browser shows
  moves         \* history: interactions so far

caches == <<elsets, dimension>>
session == <<snapshot_ts, clicked_ids>>
widgets == <<keep, observe, globe, searched, target, picked, button>>
locals == <<frame, visible, traced_ids>>
vars == <<build, caches, session, widgets, at, locals, screen, moves>>

\* Something computed for an instant from a build's element sets.
Computed == [when : Instants, elsets : Builds]

NoFrame == [when |-> 0, elsets |-> 0, dimension |-> 0]

Screens ==
  [sidebar : BOOLEAN, globe : BOOLEAN, clear : BOOLEAN, offers : BOOLEAN,
   dots : SUBSET Sats, full : SUBSET Sats, passes : Sats \union {None},
   of : Computed \union {None}, paths_of : Computed \union {None}]

TypeOK ==
  /\ build \in Builds
  /\ elsets \in Builds \union {None} /\ dimension \in Builds \union {None}
  /\ snapshot_ts \in Instants
  /\ clicked_ids \subseteq Sats /\ keep \subseteq Sats
  /\ observe \in BOOLEAN /\ globe \in BOOLEAN
  /\ searched \subseteq Sats /\ Cardinality(searched) <= MaxTracks
  /\ target \in Sats \union {None}
  /\ picked \subseteq Sats
  /\ button \in {None, "refresh", "clear"}
  /\ at \in {"idle", "load", "sidebar", "tracks", "draw", "passes"}
  /\ frame \in [when : Instants, elsets : Builds, dimension : Builds]
  /\ visible \subseteq Sats
  /\ traced_ids \subseteq Sats /\ Cardinality(traced_ids) <= MaxTracks
  /\ screen \in Screens
  /\ moves \in 0..MaxMoves

\* An error page, or the sidebar over a warning.
Blank(sidebar) ==
  [sidebar |-> sidebar, globe |-> FALSE, clear |-> FALSE, offers |-> FALSE,
   dots |-> {}, full |-> {}, passes |-> None, of |-> None, paths_of |-> None]

NoLocals == frame' = NoFrame /\ visible' = {} /\ traced_ids' = {}

Init ==
  /\ build = 0
  /\ elsets = None /\ dimension = None
  /\ snapshot_ts = 0 /\ clicked_ids = {}
  /\ keep = Sats /\ observe = FALSE /\ globe = FALSE
  /\ searched = {} /\ target = None /\ picked = {} /\ button = None
  /\ at = "load"
  /\ frame = NoFrame /\ visible = {} /\ traced_ids = {}
  /\ screen = Blank(FALSE)
  /\ moves = 0

-----------------------------------------------------------------------------
\* The pipeline rebuilds the warehouse.
Rebuild ==
  /\ build < MaxBuild
  /\ build' = build + 1
  /\ UNCHANGED <<caches, session, widgets, at, locals, screen, moves>>

\* The browser sends the widgets' values; a script that is running starts over.  A
\* click that its run has not come to yet may be lost.
Interact ==
  /\ moves < MaxMoves
  /\ moves' = moves + 1
  /\ at' = "load"
  /\ NoLocals
  /\ UNCHANGED <<build, caches, screen>>

Set(values) == Interact /\ screen.sidebar /\ button' \in {button, None} /\ UNCHANGED <<session, values>>

Filter ==
  /\ keep' \in SUBSET Sats
  /\ Set(<<observe, globe, searched, target, picked>>)

Observe ==
  /\ observe' = ~observe
  /\ Set(<<keep, globe, searched, target, picked>>)

Project ==
  /\ globe' = ~globe
  /\ Set(<<keep, observe, searched, target, picked>>)

Search ==
  /\ searched' \in {s \in SUBSET screen.dots : Cardinality(s) <= MaxTracks}
  /\ Set(<<keep, observe, globe, target, picked>>)

ChooseTarget ==
  /\ screen.offers
  /\ target' \in screen.dots \union {None}
  /\ Set(<<keep, observe, globe, searched, picked>>)

\* A click on the chart selects one more satellite, or nothing at all.
Pick ==
  /\ screen.dots # {} /\ ~screen.globe
  /\ picked' \in {{}} \union {picked \union {n} : n \in screen.dots}
  /\ Set(<<keep, observe, globe, searched, target>>)

Press ==
  /\ Interact /\ screen.sidebar
  /\ button' \in {"refresh"} \union (IF screen.clear THEN {"clear"} ELSE {})
  /\ UNCHANGED <<session, keep, observe, globe, searched, target, picked>>

\* Another session of the same process, later.
Reopen ==
  /\ Interact
  /\ snapshot_ts' = snapshot_ts + 1 /\ clicked_ids' = {}
  /\ keep' = Sats /\ observe' = FALSE /\ globe' = FALSE
  /\ searched' = {} /\ target' = None /\ picked' = {} /\ button' = None

User ==
  \/ Filter \/ Observe \/ Project \/ Search \/ ChooseTarget \/ Pick
  \/ Press \/ Reopen

-----------------------------------------------------------------------------
\* load_elsets, not cached yet.
LoadElsets ==
  /\ at = "load" /\ elsets = None
  /\ elsets' = build
  /\ UNCHANGED <<build, dimension, session, widgets, at, locals, screen, moves>>

\* Slip: the two are read in any order.
LoadDimensionFirst ==
  /\ at = "load" /\ dimension = None
  /\ dimension' = build
  /\ UNCHANGED <<build, elsets, session, widgets, at, locals, screen, moves>>

\* load_dimension, when the element sets are there.
LoadDimension ==
  /\ at = "load" /\ elsets # None /\ dimension = None
  /\ dimension' = build
  /\ UNCHANGED <<build, elsets, session, widgets, at, locals, screen, moves>>

\* Postgres does not answer: the exception is shown instead of the page.
LoadFails ==
  /\ at = "load" /\ None \in {elsets, dimension}
  /\ at' = "idle" /\ button' = None
  /\ screen' = Blank(FALSE)
  /\ UNCHANGED <<build, caches, session, keep, observe, globe, searched, target, picked, locals, moves>>

\* snapshot_frame of the session's instant.
MakeFrame ==
  /\ at = "load" /\ elsets # None /\ dimension # None
  /\ frame' = [when |-> snapshot_ts, elsets |-> elsets, dimension |-> dimension]
  /\ at' = "sidebar"
  /\ UNCHANGED <<build, caches, session, widgets, visible, traced_ids, screen, moves>>

\* st.rerun
Rerun == at' = "load" /\ NoLocals /\ button' = None

\* Slip: the run that was pressed goes on.
RefreshStays ==
  /\ at = "sidebar" /\ button = "refresh"
  /\ snapshot_ts' = snapshot_ts + 1
  /\ button' = None
  /\ UNCHANGED <<build, caches, clicked_ids, keep, observe, globe, searched, target, picked,
                 at, locals, screen, moves>>

\* "Refresh positions"
Refresh ==
  /\ at = "sidebar" /\ button = "refresh"
  /\ snapshot_ts' = snapshot_ts + 1
  /\ Rerun
  /\ UNCHANGED <<build, caches, clicked_ids, keep, observe, globe, searched, target, picked, screen, moves>>

\* attach_dimension, apply_filters and filter_visible: a row without a dimension has no
\* regime, and no choice of regimes lets it through.
Visible(filters) ==
  {n \in Served[frame.elsets] :
     n \in Known[frame.dimension] /\ n \in filters /\ (observe => n \in Overhead[frame.when])}

\* The filters' options come from the frame.
Sidebar ==
  /\ at = "sidebar" /\ button # "refresh"
  /\ keep' \in {keep, Sats}
  /\ visible' = Visible(keep')
  /\ visible' # {}
  /\ at' = "tracks"
  /\ screen' = [screen EXCEPT !.sidebar = TRUE]
  /\ UNCHANGED <<build, caches, session, observe, globe, searched, target, picked, button,
                 frame, traced_ids, moves>>

\* "No objects match these filters": the widgets below are not rendered.
NothingVisible ==
  /\ at = "sidebar" /\ button # "refresh"
  /\ keep' \in {keep, Sats}
  /\ Visible(keep') = {}
  /\ searched' = {} /\ target' = None /\ picked' = {} /\ button' = None
  /\ at' = "idle" /\ NoLocals
  /\ screen' = Blank(TRUE)
  /\ UNCHANGED <<build, caches, session, observe, globe, moves>>

\* A choice among options that may have changed.
StillSearched == IF searched \subseteq visible THEN {searched, {}} ELSE {{}}

ClearClicked ==
  /\ at = "tracks" /\ button = "clear" /\ clicked_ids # {}
  /\ clicked_ids' = {}
  /\ searched' \in StillSearched
  /\ Rerun
  /\ UNCHANGED <<build, caches, snapshot_ts, keep, observe, globe, target, picked, screen, moves>>

\* Slip: only what is searched for is limited.
AllOf(chosen) == chosen

\* sorted(...)[:MAX_TRACKS]
FirstOf(chosen) == {n \in chosen : Cardinality({k \in chosen : k < n}) < MaxTracks}

Tracks ==
  /\ at = "tracks" /\ (button = "clear" => clicked_ids = {})
  /\ searched' \in StillSearched
  /\ traced_ids' = FirstOf(searched' \union clicked_ids)
  /\ at' = "draw"
  /\ UNCHANGED <<build, caches, session, keep, observe, globe, target, picked, button,
                 frame, visible, screen, moves>>

\* Slip: what is chosen is highlighted wherever it is.
FocusAnything == traced_ids \union ({target} \ {None})

\* focus_set
Focus == (traced_ids \union {target}) \intersect visible

\* apply_focus: with nothing in focus nothing is faded.
FullAlpha == IF Focus = {} THEN visible ELSE Focus \intersect visible

\* _selected_paths, traced_orbits: the session's instant and the cached element sets.
Paths == IF traced_ids = {} THEN None ELSE [when |-> snapshot_ts, elsets |-> elsets]

\* The map: its dots, how they are faded, and the orbits.
Draw ==
  screen' = [screen EXCEPT
    !.globe = globe, !.clear = clicked_ids # {}, !.dots = visible, !.full = FullAlpha,
    !.of = [when |-> frame.when, elsets |-> frame.elsets], !.paths_of = Paths]

\* Slip: every selection reruns the script.
AnyClick(chosen) == chosen # {}

NewClick(chosen) == chosen # {} /\ ~(chosen \subseteq clicked_ids)

\* The chart's selection, or nothing from a chart that has changed.
Reported == IF globe THEN {picked} ELSE {picked, {}}

\* The globe reports no clicks, the chart none that is new.
DrawMap ==
  /\ at = "draw"
  /\ Draw
  /\ picked' \in Reported
  /\ globe \/ ~NewClick(picked')
  /\ at' = "passes"
  /\ UNCHANGED <<build, caches, session, keep, observe, globe, searched, target, button,
                 locals, moves>>

\* A click is merged into the session's state, and the script starts over.
MergeClick ==
  /\ at = "draw" /\ ~globe
  /\ NewClick(picked)
  /\ Draw
  /\ clicked_ids' = clicked_ids \union picked
  /\ Rerun
  /\ UNCHANGED <<build, caches, snapshot_ts, keep, observe, globe, searched, target, picked, moves>>

\* The run ends with _render_passes; the values of widgets that were not rendered go.
RenderPasses ==
  /\ at = "passes"
  /\ target' \in IF observe /\ target \in visible THEN {target, None} ELSE {None}
  /\ screen' = [screen EXCEPT !.offers = observe, !.passes = target']
  /\ picked' = IF globe THEN {} ELSE picked
  /\ at' = "idle" /\ button' = None /\ NoLocals
  /\ UNCHANGED <<build, caches, session, keep, observe, globe, searched, moves>>

Script ==
  \/ LoadElsets \/ LoadDimension \/ LoadFails \/ MakeFrame
  \/ Refresh \/ Sidebar \/ NothingVisible
  \/ ClearClicked \/ Tracks
  \/ DrawMap \/ MergeClick \/ RenderPasses

Next == Rebuild \/ User \/ Script

Spec == Init /\ [][Next]_vars

\* The script runs on unless it is interrupted.
FairSpec == Spec /\ WF_vars(Script)

-----------------------------------------------------------------------------
\* Every propagated satellite has its row in the dimension, though the two are read one
\* after the other, are cached for as long as the process lives, and either read may fail
\* while the pipeline rebuilds the warehouse (app.py:327-331, 641-661, 735-736).
EveryPositionResolves ==
  at \in {"sidebar", "tracks", "draw", "passes"} =>
    Served[frame.elsets] \subseteq Known[frame.dimension]

\* The orbits on the map are computed for the instant and from the element sets of the
\* dots, whatever was refreshed, cached or interrupted before: Refresh "re-traces rather
\* than serving stale paths" (app.py:674-676).
OrbitsFitTheirDots ==
  /\ screen.paths_of # None => screen.paths_of = screen.of
  /\ at = "idle" /\ screen.of # None => screen.of.when = snapshot_ts

\* Something is at full opacity whenever there is anything on the map (app.py:524-529), and
\* at rest that includes the satellite whose passes are shown (app.py:1542-1545), although
\* the map is drawn before the table and filters change under a stored choice.
FocusIsSeen ==
  /\ screen.dots # {} => screen.full # {}
  /\ at = "idle" /\ screen.passes # None => screen.passes \in screen.full

\* The script comes to rest: a selection that the chart goes on reporting, and the reruns
\* of buttons and clicks, never set each other off for ever (app.py:1577-1582).
RerunsSettle == at # "idle" ~> at = "idle"

\* The steps ahead of the run, when nothing starts it over.
StepsAhead ==
  CASE at = "load" -> 5 + (IF elsets = None THEN 1 ELSE 0) + (IF dimension = None THEN 1 ELSE 0)
    [] at = "sidebar" -> 4
    [] at = "tracks" -> 3
    [] at = "draw" -> 2
    [] at = "passes" -> 1
    [] at = "idle" -> 0

\* The runs that may follow it: one that merges what is picked, two when a button is pressed,
\* because what clearing lets go the chart may report once more.
RunsToCome == (IF button = None THEN 0 ELSE 2) + (IF picked \subseteq clicked_ids THEN 0 ELSE 1)

Remaining == 8 * RunsToCome + StepsAhead

\* A rerun always has a cause that is used up: between two interactions, every step of the
\* script leaves less to do, also where "Clear clicked" empties what a selection that is
\* still reported has filled and each of them starts the script over (app.py:1533-1537,
\* 1577-1582), and a rebuild of the warehouse adds nothing.
RerunsRunOut ==
  [][moves' = moves =>
       IF build' = build THEN Remaining' \in 0..(Remaining - 1) ELSE Remaining' = Remaining]_vars
=============================================================================
