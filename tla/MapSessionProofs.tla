-------------------------- MODULE MapSessionProofs --------------------------
(***************************************************************************)
(* The map for any catalogue, any builds, any limit of tracks and any      *)
(* number of interactions: whatever is cached, refreshed, clicked and      *)
(* interrupted, what the browser shows belongs together.                   *)
(***************************************************************************)
EXTENDS MapSession, FiniteSetTheorems, TLAPS

\* Every new instant is an interaction's.
InTime == snapshot_ts <= moves /\ (button = "refresh" => snapshot_ts < moves)

\* The element sets are read first, and both caches once.
CachesInOrder ==
  /\ dimension # None => elsets # None /\ elsets <= dimension /\ dimension <= build
  /\ elsets # None => elsets <= build

UnderWay == {"sidebar", "tracks", "draw", "passes"}

\* A run that is past its loads has one instant and one build of each cache.
OneFrame ==
  at \in UnderWay =>
    /\ elsets # None /\ dimension # None
    /\ frame = [when |-> snapshot_ts, elsets |-> elsets, dimension |-> dimension]

\* What has been drawn: one computation, at rest the session's, its target among the highlighted.
Drawn ==
  /\ screen.paths_of # None => screen.paths_of = screen.of
  /\ screen.dots # {} => screen.full # {}
  /\ at \in {"passes", "idle"} /\ screen.of # None => screen.of.when = snapshot_ts
  /\ at = "passes" /\ target \in visible => target \in screen.full
  /\ at = "idle" /\ screen.passes # None => screen.passes \in screen.full

SessionInv == TypeOK /\ InTime /\ CachesInOrder /\ OneFrame /\ Drawn

-----------------------------------------------------------------------------
\* Those that sorted() puts before n.
Before(chosen, n) == {k \in chosen : k < n}

LEMMA BeforeIsFinite ==
  ASSUME NEW chosen \in SUBSET Nat, NEW n \in Nat
  PROVE  IsFiniteSet(Before(chosen, n)) /\ Cardinality(Before(chosen, n)) \in Nat
<1>1. Before(chosen, n) \in SUBSET (0..n)
  <2>1. \A k : k \in Before(chosen, n) => k \in Nat /\ k < n
    BY DEF Before
  <2>2. \A k : k \in Before(chosen, n) => k \in 0..n
    BY <2>1
  <2>3. QED
    BY <2>2
<1>2. IsFiniteSet(0..n)
  BY FS_Interval
<1>3. IsFiniteSet(Before(chosen, n))
  BY <1>1, <1>2, FS_Subset
<1>4. QED
  BY <1>3, FS_CardinalityType

LEMMA BeforeGrows ==
  ASSUME NEW chosen \in SUBSET Nat, NEW n \in chosen, NEW k \in chosen, n < k
  PROVE  Cardinality(Before(chosen, n)) < Cardinality(Before(chosen, k))
<1>1. n \in Nat /\ k \in Nat
  OBVIOUS
<1>2. n \notin Before(chosen, n) /\ (Before(chosen, n) \union {n}) \in SUBSET Before(chosen, k)
  <2>1. \A i : i \in Before(chosen, n) <=> i \in chosen /\ i < n
    BY DEF Before
  <2>2. \A i : i \in Before(chosen, k) <=> i \in chosen /\ i < k
    BY DEF Before
  <2>3. n \notin Before(chosen, n)
    BY <1>1, <2>1
  <2>4. \A i : i \in Before(chosen, n) \union {n} => i \in Before(chosen, k)
    <3>1. \A i \in Nat : i < n => i < k
      BY <1>1
    <3>2. QED
      BY <1>1, <2>1, <2>2, <3>1
  <2>5. QED
    BY <2>3, <2>4
<1>3. /\ IsFiniteSet(Before(chosen, n)) /\ Cardinality(Before(chosen, n)) \in Nat
      /\ IsFiniteSet(Before(chosen, k)) /\ Cardinality(Before(chosen, k)) \in Nat
  BY <1>1, BeforeIsFinite
<1>4. Cardinality(Before(chosen, n) \union {n}) = Cardinality(Before(chosen, n)) + 1
  BY <1>2, <1>3, FS_AddElement
<1>5. Cardinality(Before(chosen, n) \union {n}) <= Cardinality(Before(chosen, k))
  BY <1>2, <1>3, FS_Subset
<1>6. QED
  BY <1>3, <1>4, <1>5

\* The satellites with fewer than MaxTracks chosen ones before them are MaxTracks at most:
\* counting those before it numbers them.
LEMMA FirstOfIsShort ==
  ASSUME NEW chosen \in SUBSET Nat
  PROVE  Cardinality(FirstOf(chosen)) <= MaxTracks
<1> DEFINE place == [n \in FirstOf(chosen) |-> Cardinality(Before(chosen, n))]
<1>1. MaxTracks \in Nat
  BY SessionAssumption
<1>2. FirstOf(chosen) \subseteq chosen
  BY DEF FirstOf
<1>3. \A n \in FirstOf(chosen) : Cardinality(Before(chosen, n)) \in 0..(MaxTracks - 1)
  BY <1>1, <1>2, BeforeIsFinite DEF FirstOf, Before
<1>4. place \in [FirstOf(chosen) -> 0..(MaxTracks - 1)]
  BY <1>3
<1>5. \A n, k \in FirstOf(chosen) : place[n] = place[k] => n = k
  <2> SUFFICES ASSUME NEW n \in FirstOf(chosen), NEW k \in FirstOf(chosen), n # k
               PROVE  Cardinality(Before(chosen, n)) # Cardinality(Before(chosen, k))
    OBVIOUS
  <2> HIDE DEF place
  <2>1. n \in chosen /\ k \in chosen /\ n \in Nat /\ k \in Nat
    BY <1>2
  <2>2. /\ Cardinality(Before(chosen, n)) \in Nat
        /\ Cardinality(Before(chosen, k)) \in Nat
    BY <2>1, BeforeIsFinite
  <2>3. n < k \/ k < n
    BY <2>1
  <2>4. \/ Cardinality(Before(chosen, n)) < Cardinality(Before(chosen, k))
        \/ Cardinality(Before(chosen, k)) < Cardinality(Before(chosen, n))
    BY <2>1, <2>3, BeforeGrows
  <2>5. QED
    BY <2>2, <2>4
<1> HIDE DEF place
<1>6. place \in Injection(FirstOf(chosen), 0..(MaxTracks - 1))
  BY <1>4, <1>5 DEF Injection, IsInjective
<1>7. IsFiniteSet(0..(MaxTracks - 1)) /\ Cardinality(0..(MaxTracks - 1)) = MaxTracks
  BY <1>1, FS_Interval
<1>8. QED
  BY <1>6, <1>7, FS_Injection

-----------------------------------------------------------------------------
LEMMA EmptySetFits == Cardinality({}) <= MaxTracks
BY FS_EmptySet, SessionAssumption

LEMMA BlankTyped == \A sidebar \in BOOLEAN : Blank(sidebar) \in Screens
BY DEF Blank, Screens

LEMMA Initial == Init => SessionInv
<1> SUFFICES ASSUME Init PROVE SessionInv
  OBVIOUS
<1>1. 0 \in Builds /\ 0 \in Instants /\ 0 \in 0..MaxMoves /\ 0 \in Nat
  BY SessionAssumption DEF Builds, Instants
<1>2. screen \in Screens
  BY BlankTyped DEF Init
<1>3. TypeOK
  BY <1>1, <1>2, EmptySetFits DEF Init, TypeOK, NoFrame
<1>4. InTime
  BY <1>1, SessionAssumption DEF Init, InTime
<1>5. CachesInOrder /\ OneFrame
  BY DEF Init, CachesInOrder, OneFrame, UnderWay
<1>6. Drawn
  BY DEF Init, Drawn, Blank
<1>7. QED
  BY <1>3, <1>4, <1>5, <1>6 DEF SessionInv

-----------------------------------------------------------------------------
\* Types, action by action.
LEMMA Interrupted ==
  ASSUME TypeOK, InTime, Interact
  PROVE  /\ moves \in Nat /\ snapshot_ts \in Nat
         /\ moves' \in 0..MaxMoves /\ moves' = moves + 1 /\ snapshot_ts + 1 <= moves'
         /\ snapshot_ts + 1 \in Instants
         /\ at' = "load"
         /\ frame' \in [when : Instants, elsets : Builds, dimension : Builds]
         /\ visible' = {} /\ traced_ids' = {}
         /\ UNCHANGED <<build, caches, screen>>
<1>1. /\ moves \in Nat /\ snapshot_ts \in Nat /\ moves' \in 0..MaxMoves /\ moves' = moves + 1
      /\ snapshot_ts + 1 <= moves' /\ snapshot_ts + 1 \in Instants
  BY SessionAssumption DEF TypeOK, InTime, Interact, Instants
<1>2. frame' \in [when : Instants, elsets : Builds, dimension : Builds]
  BY SessionAssumption DEF Interact, NoLocals, NoFrame, Instants, Builds
<1>3. QED
  BY <1>1, <1>2 DEF Interact, NoLocals

LEMMA TypeInteract ==
  ASSUME TypeOK, InTime, Interact,
         snapshot_ts' \in {snapshot_ts, snapshot_ts + 1}, clicked_ids' \subseteq Sats,
         keep' \subseteq Sats, observe' \in BOOLEAN, globe' \in BOOLEAN,
         searched' \subseteq Sats, Cardinality(searched') <= MaxTracks,
         target' \in Sats \union {None}, picked' \subseteq Sats,
         button' \in {None, "refresh", "clear"},
         snapshot_ts' = snapshot_ts \/ button' = None
  PROVE  TypeOK' /\ InTime'
<1>1. TypeOK'
  BY Interrupted, EmptySetFits DEF TypeOK, caches
<1>2. InTime'
  BY Interrupted, SessionAssumption DEF InTime
<1>3. QED
  BY <1>1, <1>2

LEMMA TypeUser == TypeOK /\ InTime /\ User => TypeOK' /\ InTime'
<1> SUFFICES ASSUME TypeOK, InTime, User PROVE TypeOK' /\ InTime'
  OBVIOUS
<1>1. screen.dots \subseteq Sats
  BY DEF TypeOK, Screens
<1>2. CASE Filter
  BY <1>2, TypeInteract DEF Filter, Set, TypeOK, session
<1>3. CASE Observe
  BY <1>3, TypeInteract DEF Observe, Set, TypeOK, session
<1>4. CASE Project
  BY <1>4, TypeInteract DEF Project, Set, TypeOK, session
<1>5. CASE Search
  BY <1>1, <1>5, TypeInteract DEF Search, Set, TypeOK, session
<1>6. CASE ChooseTarget
  BY <1>1, <1>6, TypeInteract DEF ChooseTarget, Set, TypeOK, session
<1>7. CASE Pick
  <2>1. picked' \subseteq Sats
    BY <1>1, <1>7 DEF Pick, TypeOK
  <2>2. QED
    BY <1>7, <2>1, TypeInteract DEF Pick, Set, TypeOK, session
<1>8. CASE Press
  <2>1. button' \in {None, "refresh", "clear"}
    BY <1>8 DEF Press
  <2>2. QED
    BY <1>8, <2>1, TypeInteract DEF Press, TypeOK, session
<1>9. CASE Reopen
  BY <1>9, TypeInteract, EmptySetFits DEF Reopen, TypeOK
<1>10. QED
  BY <1>2, <1>3, <1>4, <1>5, <1>6, <1>7, <1>8, <1>9 DEF User

LEMMA VisibleTyped == TypeOK => \A filters : Visible(filters) \in SUBSET Sats
<1> SUFFICES ASSUME TypeOK, NEW filters PROVE Visible(filters) \in SUBSET Sats
  OBVIOUS
<1>1. frame.elsets \in Builds
  BY DEF TypeOK
<1>2. Served[frame.elsets] \in SUBSET Sats
  BY <1>1, SessionAssumption
<1>3. QED
  BY <1>2 DEF Visible

LEMMA StillSearchedTyped ==
  TypeOK => \A chosen \in StillSearched :
              chosen \in SUBSET Sats /\ Cardinality(chosen) <= MaxTracks
BY EmptySetFits DEF TypeOK, StillSearched

LEMMA TypeLoads ==
  TypeOK /\ (Rebuild \/ LoadElsets \/ LoadDimension \/ LoadFails \/ MakeFrame) => TypeOK'
<1> SUFFICES ASSUME TypeOK, Rebuild \/ LoadElsets \/ LoadDimension \/ LoadFails \/ MakeFrame
             PROVE  TypeOK'
  OBVIOUS
<1>1. CASE Rebuild
  <2>1. build' \in Builds
    BY <1>1, SessionAssumption DEF Rebuild, TypeOK, Builds
  <2>2. QED
    BY <1>1, <2>1 DEF Rebuild, TypeOK, caches, session, widgets, locals
<1>2. CASE LoadElsets
  BY <1>2 DEF LoadElsets, TypeOK, session, widgets, locals
<1>3. CASE LoadDimension
  BY <1>3 DEF LoadDimension, TypeOK, session, widgets, locals
<1>4. CASE LoadFails
  BY <1>4, BlankTyped DEF LoadFails, TypeOK, caches, session, locals
<1>5. CASE MakeFrame
  <2>1. frame' \in [when : Instants, elsets : Builds, dimension : Builds]
    BY <1>5 DEF MakeFrame, TypeOK
  <2>2. QED
    BY <1>5, <2>1 DEF MakeFrame, TypeOK, caches, session, widgets
<1>6. QED
  BY <1>1, <1>2, <1>3, <1>4, <1>5

LEMMA LocalsTyped ==
  NoLocals => /\ frame' \in [when : Instants, elsets : Builds, dimension : Builds]
              /\ visible' \in SUBSET Sats
              /\ traced_ids' \in SUBSET Sats /\ Cardinality(traced_ids') <= MaxTracks
BY EmptySetFits, SessionAssumption DEF NoLocals, NoFrame, Instants, Builds

LEMMA TypeSidebar ==
  TypeOK /\ InTime /\ (Refresh \/ Sidebar \/ NothingVisible \/ ClearClicked \/ Tracks) => TypeOK'
<1> SUFFICES ASSUME TypeOK, InTime,
                    Refresh \/ Sidebar \/ NothingVisible \/ ClearClicked \/ Tracks
             PROVE  TypeOK'
  OBVIOUS
<1>1. CASE Refresh
  <2>1. snapshot_ts' \in Instants
    BY <1>1, SessionAssumption DEF Refresh, TypeOK, InTime, Instants
  <2>2. QED
    BY <1>1, <2>1, LocalsTyped DEF Refresh, Rerun, TypeOK, caches
<1>2. CASE Sidebar
  <2>1. keep' \in SUBSET Sats
    BY <1>2 DEF Sidebar, TypeOK
  <2>2. visible' \in SUBSET Sats
    BY <1>2, VisibleTyped DEF Sidebar
  <2>3. screen' \in Screens
    BY <1>2 DEF Sidebar, TypeOK, Screens
  <2>4. QED
    BY <1>2, <2>1, <2>2, <2>3 DEF Sidebar, TypeOK, caches, session
<1>3. CASE NothingVisible
  BY <1>3, LocalsTyped, BlankTyped, EmptySetFits DEF NothingVisible, TypeOK, caches, session
<1>4. CASE ClearClicked
  <2>1. searched' \in SUBSET Sats /\ Cardinality(searched') <= MaxTracks
    BY <1>4, StillSearchedTyped DEF ClearClicked
  <2>2. QED
    BY <1>4, <2>1, LocalsTyped DEF ClearClicked, Rerun, TypeOK, caches
<1>5. CASE Tracks
  <2>1. searched' \in SUBSET Sats /\ Cardinality(searched') <= MaxTracks
    BY <1>5, StillSearchedTyped DEF Tracks
  <2>2. searched' \union clicked_ids \in SUBSET Nat
    BY <2>1, SessionAssumption DEF TypeOK
  <2>3. traced_ids' \subseteq Sats /\ Cardinality(traced_ids') <= MaxTracks
    <3>1. traced_ids' = FirstOf(searched' \union clicked_ids)
      BY <1>5 DEF Tracks
    <3>2. FirstOf(searched' \union clicked_ids) \subseteq searched' \union clicked_ids
      BY DEF FirstOf
    <3>3. QED
      BY <2>1, <2>2, <3>1, <3>2, FirstOfIsShort DEF TypeOK
  <2>4. QED
    BY <1>5, <2>1, <2>3 DEF Tracks, TypeOK, caches, session
<1>6. QED
  BY <1>1, <1>2, <1>3, <1>4, <1>5

\* What is drawn has its type, and its parts are what Draw says.
LEMMA DrawTyped ==
  ASSUME TypeOK, OneFrame, at = "draw", Draw
  PROVE  /\ screen' \in Screens
         /\ screen'.dots = visible
         /\ screen'.full = (IF Focus = {} THEN visible ELSE Focus \intersect visible)
         /\ screen'.of = [when |-> frame.when, elsets |-> frame.elsets]
         /\ screen'.paths_of = (IF traced_ids = {} THEN None ELSE screen'.of)
<1>1. frame = [when |-> snapshot_ts, elsets |-> elsets, dimension |-> dimension]
  BY DEF OneFrame, UnderWay
<1>2. /\ [when |-> frame.when, elsets |-> frame.elsets] \in Computed
      /\ [when |-> frame.when, elsets |-> frame.elsets] = [when |-> snapshot_ts, elsets |-> elsets]
  BY <1>1 DEF TypeOK, Computed
<1>3. (IF Focus = {} THEN visible ELSE Focus \intersect visible) \in SUBSET Sats
  BY DEF TypeOK
<1>4. (clicked_ids # {}) \in BOOLEAN /\ globe \in BOOLEAN
  BY DEF TypeOK
<1>5. screen' = [sidebar |-> screen.sidebar, globe |-> globe, clear |-> clicked_ids # {},
                 offers |-> screen.offers, dots |-> visible,
                 full |-> IF Focus = {} THEN visible ELSE Focus \intersect visible,
                 passes |-> screen.passes,
                 of |-> [when |-> frame.when, elsets |-> frame.elsets],
                 paths_of |-> IF traced_ids = {} THEN None
                                                 ELSE [when |-> snapshot_ts, elsets |-> elsets]]
  BY DEF Draw, FullAlpha, Paths, TypeOK, Screens
<1>6. QED
  BY <1>2, <1>3, <1>4, <1>5 DEF TypeOK, Screens

LEMMA TypeDraw ==
  TypeOK /\ OneFrame /\ (DrawMap \/ MergeClick \/ RenderPasses) => TypeOK'
<1> SUFFICES ASSUME TypeOK, OneFrame, DrawMap \/ MergeClick \/ RenderPasses
             PROVE  TypeOK'
  OBVIOUS
<1>1. CASE DrawMap
  <2>1. screen' \in Screens
    BY <1>1, DrawTyped DEF DrawMap
  <2>2. picked' \in SUBSET Sats
    BY <1>1 DEF DrawMap, Reported, TypeOK
  <2>3. QED
    BY <1>1, <2>1, <2>2 DEF DrawMap, TypeOK, caches, session, locals
<1>2. CASE MergeClick
  <2>1. screen' \in Screens
    BY <1>2, DrawTyped DEF MergeClick
  <2>2. QED
    BY <1>2, <2>1, LocalsTyped DEF MergeClick, Rerun, TypeOK, caches
<1>3. CASE RenderPasses
  <2>1. target' \in Sats \union {None}
    BY <1>3 DEF RenderPasses, TypeOK
  <2>2. screen' \in Screens
    BY <1>3, <2>1 DEF RenderPasses, TypeOK, Screens
  <2>3. picked' \in SUBSET Sats
    BY <1>3 DEF RenderPasses, TypeOK
  <2>4. QED
    BY <1>3, <2>1, <2>2, <2>3, LocalsTyped DEF RenderPasses, TypeOK, caches, session
<1>4. QED
  BY <1>1, <1>2, <1>3

LEMMA TypeKeeps == SessionInv /\ [Next]_vars => TypeOK'
<1> SUFFICES ASSUME SessionInv, [Next]_vars PROVE TypeOK'
  OBVIOUS
<1>1. CASE UNCHANGED vars
  BY <1>1 DEF SessionInv, TypeOK, vars, caches, session, widgets, locals
<1>2. QED
  BY <1>1, TypeUser, TypeLoads, TypeSidebar, TypeDraw DEF SessionInv, Next, Script

-----------------------------------------------------------------------------
\* No step of the script is an interaction, and only Refresh takes a new instant.
LEMMA InTimeKeeps == SessionInv /\ [Next]_vars => InTime'
<1> SUFFICES ASSUME SessionInv, [Next]_vars PROVE InTime'
  OBVIOUS
<1>1. CASE User
  BY <1>1, TypeUser DEF SessionInv
<1>2. CASE Refresh
  <2>1. snapshot_ts \in Nat /\ moves \in Nat
    BY SessionAssumption DEF SessionInv, TypeOK, Instants
  <2>2. snapshot_ts' = snapshot_ts + 1 /\ moves' = moves /\ snapshot_ts < moves
    BY <1>2 DEF SessionInv, InTime, Refresh
  <2>3. button' = None
    BY <1>2 DEF Refresh, Rerun
  <2>4. QED
    BY <2>1, <2>2, <2>3, SessionAssumption DEF InTime
<1>3. CASE (Script /\ ~Refresh) \/ Rebuild \/ UNCHANGED vars
  <2>1. UNCHANGED <<snapshot_ts, moves>> /\ button' \in {button, None}
    BY <1>3
       DEF Script, Rebuild, LoadElsets, LoadDimension, LoadFails, MakeFrame, Sidebar,
           NothingVisible, ClearClicked, Tracks, DrawMap, MergeClick, RenderPasses, Rerun, vars,
           caches, session, widgets, locals
  <2>2. QED
    BY <2>1, SessionAssumption DEF SessionInv, InTime
<1>4. QED
  BY <1>1, <1>2, <1>3 DEF Next, Script

LEMMA CachesKeep == SessionInv /\ [Next]_vars => CachesInOrder'
<1> SUFFICES ASSUME SessionInv, [Next]_vars PROVE CachesInOrder'
  OBVIOUS
<1>1. /\ build \in Nat
      /\ elsets # None => elsets \in Nat
      /\ dimension # None => dimension \in Nat
  BY SessionAssumption DEF SessionInv, TypeOK, Builds
<1>2. CASE Rebuild
  BY <1>1, <1>2 DEF SessionInv, CachesInOrder, Rebuild, caches
<1>3. CASE LoadElsets
  BY <1>1, <1>3 DEF SessionInv, CachesInOrder, LoadElsets
<1>4. CASE LoadDimension
  BY <1>1, <1>4 DEF SessionInv, CachesInOrder, LoadDimension
<1>5. CASE ~Rebuild /\ ~LoadElsets /\ ~LoadDimension
  <2>1. UNCHANGED <<build, elsets, dimension>>
    BY <1>5
       DEF Next, User, Filter, Observe, Project, Search, ChooseTarget, Pick, Press, Reopen, Set,
           Interact, Script, LoadFails, MakeFrame, Refresh, Sidebar, NothingVisible,
           ClearClicked, Tracks, DrawMap, MergeClick, RenderPasses, vars, caches
  <2>2. QED
    BY <2>1 DEF SessionInv, CachesInOrder
<1>6. QED
  BY <1>2, <1>3, <1>4, <1>5

LEMMA FrameKeeps == SessionInv /\ [Next]_vars => OneFrame'
<1> SUFFICES ASSUME SessionInv, [Next]_vars PROVE OneFrame'
  OBVIOUS
<1>1. CASE User \/ Refresh \/ NothingVisible \/ ClearClicked \/ MergeClick \/ RenderPasses \/ LoadFails
  <2>1. at' \in {"load", "idle"}
    BY <1>1
       DEF User, Filter, Observe, Project, Search, ChooseTarget, Pick, Press, Reopen, Set,
           Interact, LoadFails, Refresh, NothingVisible, ClearClicked, MergeClick, RenderPasses,
           Rerun
  <2>2. QED
    BY <2>1 DEF OneFrame, UnderWay
<1>2. CASE LoadElsets \/ LoadDimension
  BY <1>2 DEF LoadElsets, LoadDimension, OneFrame, UnderWay
<1>3. CASE MakeFrame
  BY <1>3 DEF MakeFrame, OneFrame, caches, session
<1>4. CASE Sidebar \/ Tracks \/ DrawMap \/ Rebuild \/ UNCHANGED vars
  <2>1. UNCHANGED <<elsets, dimension, snapshot_ts, frame>> /\ (at' \in UnderWay => at \in UnderWay)
    BY <1>4 DEF Sidebar, Tracks, DrawMap, Rebuild, UnderWay, vars, caches, session, locals
  <2>2. QED
    BY <2>1 DEF SessionInv, OneFrame
<1>5. QED
  BY <1>1, <1>2, <1>3, <1>4 DEF Next, Script

\* The highlighted are never nobody, and the target is one of them when it is on the map.
LEMMA FocusOnMap ==
  LET full == IF Focus = {} THEN visible ELSE Focus \intersect visible
  IN  /\ visible # {} => full # {}
      /\ target \in visible => target \in full
<1>1. Focus \intersect visible = Focus
  BY DEF Focus
<1>2. target \in visible => target \in Focus
  BY DEF Focus
<1>3. QED
  BY <1>1, <1>2

LEMMA DrawKeeps ==
  ASSUME SessionInv, at = "draw", Draw
  PROVE  /\ screen'.paths_of # None => screen'.paths_of = screen'.of
         /\ screen'.dots # {} => screen'.full # {}
         /\ screen'.of.when = snapshot_ts
         /\ target \in visible => target \in screen'.full
<1>1. /\ screen'.dots = visible
      /\ screen'.full = (IF Focus = {} THEN visible ELSE Focus \intersect visible)
      /\ screen'.of = [when |-> frame.when, elsets |-> frame.elsets]
      /\ screen'.paths_of = (IF traced_ids = {} THEN None ELSE screen'.of)
  BY DrawTyped DEF SessionInv
<1>2. frame.when = snapshot_ts
  BY DEF SessionInv, OneFrame, UnderWay
<1>3. QED
  BY <1>1, <1>2, FocusOnMap

LEMMA BlankDrawn ==
  \A sidebar : /\ Blank(sidebar).paths_of = None /\ Blank(sidebar).dots = {}
               /\ Blank(sidebar).of = None /\ Blank(sidebar).passes = None
BY DEF Blank

LEMMA DrawnKeeps == SessionInv /\ [Next]_vars => Drawn'
<1> SUFFICES ASSUME SessionInv, [Next]_vars PROVE Drawn'
  OBVIOUS
<1>1. CASE User \/ Refresh \/ ClearClicked \/ LoadElsets \/ LoadDimension \/ MakeFrame \/ Tracks
  <2>1. screen' = screen /\ at' \in {"load", "sidebar", "draw"}
    BY <1>1
       DEF User, Filter, Observe, Project, Search, ChooseTarget, Pick, Press, Reopen, Set,
           Interact, Refresh, ClearClicked, LoadElsets, LoadDimension, MakeFrame, Tracks, Rerun
  <2>2. QED
    BY <2>1 DEF SessionInv, Drawn
<1>2. CASE Rebuild \/ UNCHANGED vars
  <2>1. UNCHANGED <<screen, at, snapshot_ts, target, visible>>
    BY <1>2 DEF Rebuild, vars, session, widgets, locals
  <2>2. QED
    BY <2>1 DEF SessionInv, Drawn
<1>3. CASE Sidebar
  <2>1. at' = "tracks" /\ screen' = [screen EXCEPT !.sidebar = TRUE]
    BY <1>3 DEF Sidebar
  <2>2. /\ screen'.paths_of = screen.paths_of /\ screen'.of = screen.of
        /\ screen'.dots = screen.dots /\ screen'.full = screen.full
    BY <2>1 DEF SessionInv, TypeOK, Screens
  <2>3. QED
    BY <2>1, <2>2 DEF SessionInv, Drawn
<1>4. CASE LoadFails \/ NothingVisible
  <2>1. (\E sidebar \in BOOLEAN : screen' = Blank(sidebar)) /\ at' = "idle"
    BY <1>4 DEF LoadFails, NothingVisible
  <2>2. QED
    BY <2>1, BlankDrawn DEF Drawn
<1>5. CASE DrawMap
  <2>1. at = "draw" /\ Draw /\ at' = "passes" /\ UNCHANGED <<snapshot_ts, target, visible>>
    BY <1>5 DEF DrawMap, session, locals
  <2>2. QED
    BY <2>1, DrawKeeps DEF Drawn
<1>6. CASE MergeClick
  <2>1. at = "draw" /\ Draw /\ at' = "load"
    BY <1>6 DEF MergeClick, Rerun
  <2>2. QED
    BY <2>1, DrawKeeps DEF Drawn
<1>7. CASE RenderPasses
  <2>1. /\ at = "passes" /\ at' = "idle" /\ UNCHANGED snapshot_ts
        /\ screen' = [screen EXCEPT !.offers = observe, !.passes = target']
        /\ target' # None => target' = target /\ target \in visible
    BY <1>7 DEF RenderPasses, session
  <2>2. /\ screen'.paths_of = screen.paths_of /\ screen'.of = screen.of
        /\ screen'.dots = screen.dots /\ screen'.full = screen.full
        /\ screen'.passes = target'
    BY <2>1 DEF SessionInv, TypeOK, Screens
  <2>3. QED
    BY <2>1, <2>2 DEF SessionInv, Drawn
<1>8. QED
  BY <1>1, <1>2, <1>3, <1>4, <1>5, <1>6, <1>7 DEF Next, Script

-----------------------------------------------------------------------------
LEMMA SessionInvariant == Spec => []SessionInv
<1>1. SessionInv /\ [Next]_vars => SessionInv'
  BY TypeKeeps, InTimeKeeps, CachesKeep, FrameKeeps, DrawnKeeps DEF SessionInv
<1>2. QED
  BY <1>1, Initial, PTL DEF Spec

\* TypeOK: among the rest, never more than MAX_TRACKS orbits are traced, however many
\* satellites are searched for and clicked (app.py:1518-1531), and an instant of the
\* session is an interaction's.
THEOREM TypeCorrect == Spec => []TypeOK
<1>1. SessionInv => TypeOK
  BY DEF SessionInv
<1>2. QED
  BY <1>1, SessionInvariant, PTL

\* EveryPositionResolves: the caches are read in the order in which the warehouse grows.
THEOREM PositionsResolve == Spec => []EveryPositionResolves
<1>1. SessionInv => EveryPositionResolves
  <2> SUFFICES ASSUME SessionInv, at \in UnderWay
               PROVE  Served[frame.elsets] \subseteq Known[frame.dimension]
    BY DEF EveryPositionResolves, UnderWay
  <2>1. frame.elsets = elsets /\ frame.dimension = dimension /\ elsets <= dimension
    BY DEF SessionInv, OneFrame, CachesInOrder
  <2>2. elsets \in Builds /\ dimension \in Builds
    BY DEF SessionInv, OneFrame, TypeOK
  <2>3. Served[elsets] \subseteq Known[elsets] /\ Known[elsets] \subseteq Known[dimension]
    BY <2>1, <2>2, SessionAssumption
  <2>4. QED
    BY <2>1, <2>3
<1>2. QED
  BY <1>1, SessionInvariant, PTL

\* OrbitsFitTheirDots: dots and orbits of a screen come from one run of the script.
THEOREM OrbitsMatchDots == Spec => []OrbitsFitTheirDots
<1>1. SessionInv => OrbitsFitTheirDots
  BY DEF SessionInv, Drawn, OrbitsFitTheirDots
<1>2. QED
  BY <1>1, SessionInvariant, PTL

\* FocusIsSeen: nothing is dimmed without something at full opacity, and the satellite of
\* the table is one of those.
THEOREM FocusStaysSeen == Spec => []FocusIsSeen
<1>1. SessionInv => FocusIsSeen
  BY DEF SessionInv, Drawn, FocusIsSeen
<1>2. QED
  BY <1>1, SessionInvariant, PTL
-----------------------------------------------------------------------------
\* What is left to do, counted.
LEMMA StepsCounted == TypeOK => StepsAhead \in 0..7
BY DEF TypeOK, StepsAhead

LEMMA RunsCounted == TypeOK => RunsToCome \in 0..3
BY DEF RunsToCome

LEMMA NowCounted == TypeOK' => StepsAhead' \in 0..7 /\ RunsToCome' \in 0..3
BY DEF TypeOK, StepsAhead, RunsToCome

\* Weighed: a run is worth more than the steps of another.
LEMMA RunsOutweighSteps ==
  ASSUME NEW r \in 0..3, NEW s \in 0..7, NEW q \in 0..3, NEW p \in 0..7,
         q < r \/ (q <= r /\ p < s)
  PROVE  8 * q + p \in 0..((8 * r + s) - 1)
OBVIOUS

\* Reading, and leaving the script early: no new cause of a run.
LEMMA LoadsRunOut ==
  ASSUME SessionInv, LoadElsets \/ LoadDimension \/ LoadFails \/ MakeFrame
  PROVE  RunsToCome' <= RunsToCome /\ StepsAhead' < StepsAhead
<1>1. CASE LoadElsets
  <2>1. elsets = None /\ elsets' # None /\ at = "load" /\ UNCHANGED <<at, dimension, button, picked, clicked_ids>>
    BY <1>1, SessionAssumption DEF SessionInv, TypeOK, LoadElsets, session, widgets
  <2>2. QED
    BY <2>1 DEF RunsToCome, StepsAhead
<1>2. CASE LoadDimension
  <2>1. dimension = None /\ dimension' # None /\ at = "load" /\ UNCHANGED <<at, elsets, button, picked, clicked_ids>>
    BY <1>2, SessionAssumption DEF SessionInv, TypeOK, LoadDimension, session, widgets
  <2>2. QED
    BY <2>1 DEF RunsToCome, StepsAhead
<1>3. CASE LoadFails
  <2>1. at = "load" /\ at' = "idle" /\ button' = None /\ UNCHANGED <<picked, clicked_ids>>
    BY <1>3 DEF LoadFails, session
  <2>2. QED
    BY <2>1 DEF RunsToCome, StepsAhead
<1>4. CASE MakeFrame
  <2>1. at = "load" /\ at' = "sidebar" /\ UNCHANGED <<button, picked, clicked_ids>>
    BY <1>4 DEF MakeFrame, session, widgets
  <2>2. QED
    BY <2>1 DEF RunsToCome, StepsAhead
<1>5. QED
  BY <1>1, <1>2, <1>3, <1>4

\* Going on: at most a selection is forgotten, or taken over without being new.
LEMMA StepsRunOut ==
  ASSUME SessionInv, Sidebar \/ NothingVisible \/ Tracks \/ DrawMap \/ RenderPasses
  PROVE  RunsToCome' <= RunsToCome /\ StepsAhead' < StepsAhead
<1>1. StepsAhead' < StepsAhead
  <2>1. \/ at = "sidebar" /\ at' \in {"tracks", "idle"}
        \/ at = "tracks" /\ at' = "draw"
        \/ at = "draw" /\ at' = "passes"
        \/ at = "passes" /\ at' = "idle"
    BY DEF Sidebar, NothingVisible, Tracks, DrawMap, RenderPasses
  <2>2. QED
    BY <2>1 DEF StepsAhead
<1>2. /\ button' \in {button, None} /\ clicked_ids' = clicked_ids
      /\ picked \subseteq clicked_ids => picked' \subseteq clicked_ids
  <2>1. CASE DrawMap
    BY <2>1 DEF DrawMap, Reported, session
  <2>2. CASE Sidebar \/ NothingVisible \/ Tracks \/ RenderPasses
    BY <2>2 DEF Sidebar, NothingVisible, Tracks, RenderPasses, session
  <2>3. QED
    BY <2>1, <2>2
<1>3. RunsToCome' <= RunsToCome
  BY <1>2 DEF RunsToCome
<1>4. QED
  BY <1>1, <1>3

\* Starting over: a button is used up, or what was picked is merged.
LEMMA RerunsUseUp ==
  ASSUME SessionInv, Refresh \/ ClearClicked \/ MergeClick
  PROVE  RunsToCome' < RunsToCome
<1>1. CASE Refresh
  <2>1. button = "refresh" /\ button' = None /\ UNCHANGED <<picked, clicked_ids>>
    BY <1>1 DEF Refresh, Rerun
  <2>2. button # None
    BY <2>1, SessionAssumption
  <2>3. QED
    BY <2>1, <2>2 DEF RunsToCome
<1>2. CASE ClearClicked
  <2>1. button = "clear" /\ button' = None
    BY <1>2 DEF ClearClicked, Rerun
  <2>2. button # None
    BY <2>1, SessionAssumption
  <2>3. QED
    BY <2>1, <2>2 DEF RunsToCome
<1>3. CASE MergeClick
  <2>1. /\ button' = None
        /\ ~(picked \subseteq clicked_ids) /\ picked' \subseteq clicked_ids'
    BY <1>3 DEF MergeClick, NewClick, Rerun
  <2>2. QED
    BY <2>1 DEF RunsToCome
<1>4. QED
  BY <1>1, <1>2, <1>3

\* Between two interactions every step of the script leaves less to do (app.py:1533-1537,
\* 1577-1582): a step within a run brings its end nearer, and a rerun uses up the button or the
\* click that caused it, which together are worth more than the run that follows.
THEOREM RerunsEnd == Spec => RerunsRunOut
<1> DEFINE A == moves' = moves =>
                  IF build' = build THEN Remaining' \in 0..(Remaining - 1)
                                    ELSE Remaining' = Remaining
<1>1. SessionInv /\ [Next]_vars => [A]_vars
  <2> SUFFICES ASSUME SessionInv, TypeOK', Next PROVE A
    BY TypeKeeps
  <2>1. build \in Nat /\ moves \in Nat
    BY SessionAssumption DEF SessionInv, TypeOK, Builds
  <2>2. CASE User
    <3>1. moves' # moves
      BY <2>1, <2>2
         DEF User, Filter, Observe, Project, Search, ChooseTarget, Pick, Press, Reopen, Set,
             Interact
    <3>2. QED
      BY <3>1
  <2>3. CASE Rebuild
    <3>1. build' # build /\ UNCHANGED <<elsets, dimension, at, button, picked, clicked_ids>>
      BY <2>1, <2>3 DEF Rebuild, caches, session, widgets
    <3>2. Remaining' = Remaining
      BY <3>1 DEF Remaining, RunsToCome, StepsAhead
    <3>3. QED
      BY <3>1, <3>2
  <2>4. CASE Script
    <3>1. build' = build
      BY <2>4
         DEF Script, LoadElsets, LoadDimension, LoadFails, MakeFrame, Refresh, Sidebar,
             NothingVisible, ClearClicked, Tracks, DrawMap, MergeClick, RenderPasses
    <3>2. \/ RunsToCome' < RunsToCome
          \/ RunsToCome' <= RunsToCome /\ StepsAhead' < StepsAhead
      BY <2>4, LoadsRunOut, StepsRunOut, RerunsUseUp DEF Script
    <3>3. /\ RunsToCome \in 0..3 /\ StepsAhead \in 0..7
          /\ RunsToCome' \in 0..3 /\ StepsAhead' \in 0..7
      BY StepsCounted, RunsCounted, NowCounted DEF SessionInv
    <3>4. Remaining' \in 0..(Remaining - 1)
      <4>1. 8 * RunsToCome' + StepsAhead' \in 0..((8 * RunsToCome + StepsAhead) - 1)
        BY <3>2, <3>3, RunsOutweighSteps
      <4>2. QED
        BY <4>1 DEF Remaining
    <3>5. QED
      BY <3>1, <3>4
  <2>5. QED
    BY <2>2, <2>3, <2>4 DEF Next
<1>2. QED
  BY <1>1, SessionInvariant, PTL DEF Spec, RerunsRunOut
=============================================================================
