-------------------------- MODULE AppRunnerProofs ---------------------------
(***************************************************************************)
(* What the interface of AppRunner keeps, for every swarm and any number   *)
(* of starts.                                                              *)
(*                                                                         *)
(* AppInv needs no fact about the swarm: the network thread may take any   *)
(* step of it.  The numbers on the dashboard do.  They come from the       *)
(* theorems about SwarmManager, since every behaviour of the program is    *)
(* one of the swarm it shows (InterfaceRunsSwarm).                         *)
(***************************************************************************)
EXTENDS AppRunner, SwarmManagerProofs

\* A thread runs only while the dashboard is shown, on the manager that is owned.
ThreadInv ==
  ui # "killed" /\ threads # {} =>
    /\ active_tab = 1
    /\ ui \notin {"starting", "left", "closed"}
    /\ threads = {swarm_manager}

\* Until main returns, the dashboard points to the manager that is owned.
PointerInv ==
  /\ swarm_manager \in Nat
  /\ ui \notin {"closed", "killed"} => manager = swarm_manager

\* The dashboard is shown without an error, and has a manager once it is drawn.
TabInv ==
  /\ active_tab \in {0, 1}
  /\ ui \in {"starting", "stats"} => active_tab = 1
  /\ active_tab = 1 => error_message = "none"
  /\ active_tab = 1 /\ ui \in {"draw", "stats", "loop"} => manager # 0
  /\ ui = "loop" => screen = IF active_tab = 0 THEN "title" ELSE "dashboard"

AppInv == ThreadInv /\ PointerInv /\ TabInv

\* The initial state has the invariant.
LEMMA AppInitInv == AppInit => AppInv
BY DEF AppInit, AppInv, ThreadInv, PointerInv, TabInv

\* A path that is turned down leaves the title, and one that is accepted no thread.
LEMMA EnterInv == AppInv /\ Enter => AppInv'
<1> SUFFICES ASSUME AppInv, Enter PROVE AppInv'
  OBVIOUS
<1> USE DEF AppInv, ThreadInv, PointerInv, TabInv, shared, drawn
<1>1. CASE \E error \in {"empty", "suffix"} : EnterInvalid(error)
  BY <1>1 DEF EnterInvalid
<1>2. CASE EnterPath
  BY <1>2 DEF EnterPath
<1> QED BY <1>1, <1>2 DEF Enter

\* A start, and the two ways it fails: only a start that succeeds adds a thread, and
\* no thread runs as it begins.
LEMMA StartInv == AppInv /\ (StartFails \/ ThreadFails \/ Start) => AppInv'
<1> SUFFICES ASSUME AppInv, StartFails \/ ThreadFails \/ Start PROVE AppInv'
  OBVIOUS
<1> USE DEF AppInv, ThreadInv, PointerInv, TabInv, shared, drawn
<1>1. CASE StartFails
  BY <1>1 DEF StartFails, start_failed
<1>2. CASE ThreadFails
  BY <1>2 DEF ThreadFails, start_failed, attach
<1>3. CASE Start
  BY <1>3 DEF Start, attach
<1> QED BY <1>1, <1>2, <1>3

\* Drawing shows the tab that is active.
LEMMA DrawingInv == AppInv /\ (AnyEvent \/ Drawing) => AppInv'
<1> SUFFICES ASSUME AppInv, AnyEvent \/ Drawing PROVE AppInv'
  OBVIOUS
<1> USE DEF AppInv, ThreadInv, PointerInv, TabInv, shared, drawn
<1>1. CASE AnyEvent
  BY <1>1 DEF AnyEvent
<1>2. CASE Draw
  BY <1>2 DEF Draw
<1>3. CASE DrawDashboard
  BY <1>3 DEF DrawDashboard
<1>4. CASE StatsDone
  BY <1>4 DEF StatsDone
<1>5. CASE StatsCrash
  BY <1>5 DEF StatsCrash
<1>6. CASE \E w \in Worker : CountWorker(w)
  BY <1>6 DEF CountWorker
<1> QED BY <1>1, <1>2, <1>3, <1>4, <1>5, <1>6 DEF Drawing

\* Escape is taken where no thread runs.
LEMMA LeavingInv == AppInv /\ (Escape \/ CtrlC \/ AppDestroyed) => AppInv'
<1> SUFFICES ASSUME AppInv, Escape \/ CtrlC \/ AppDestroyed PROVE AppInv'
  OBVIOUS
<1> USE DEF AppInv, ThreadInv, PointerInv, TabInv, shared, drawn
<1>1. CASE Escape
  BY <1>1 DEF Escape
<1>2. CASE CtrlC
  BY <1>2 DEF CtrlC
<1>3. CASE AppDestroyed
  BY <1>3 DEF AppDestroyed
<1> QED BY <1>1, <1>2, <1>3

\* The network thread leaves everything alone that the interface owns.
LEMMA NetworkInv == AppInv /\ (Network \/ NetworkEnds \/ NetworkThrows) => AppInv'
<1> SUFFICES ASSUME AppInv, Network \/ NetworkEnds \/ NetworkThrows PROVE AppInv'
  OBVIOUS
<1> USE DEF AppInv, ThreadInv, PointerInv, TabInv, shared, drawn
<1>1. CASE Network
  BY <1>1 DEF Network
<1>2. CASE NetworkEnds
  BY <1>2 DEF NetworkEnds
<1>3. CASE NetworkThrows
  BY <1>3 DEF NetworkThrows, Ended
<1> QED BY <1>1, <1>2, <1>3

\* The invariant is inductive.
THEOREM AppInvariant == AppSpec => []AppInv
<1>1. ASSUME AppInv, [AppNext]_appVars PROVE AppInv'
  <2>1. CASE UNCHANGED appVars
    BY <1>1, <2>1
    DEF appVars, shared, drawn, AppInv, ThreadInv, PointerInv, TabInv
  <2> QED BY <1>1, <2>1, EnterInv, StartInv, DrawingInv, LeavingInv, NetworkInv
          DEF AppNext
<1> QED BY <1>1, AppInitInv, PTL DEF AppSpec

\* No second start and no Escape takes the swarm away from a thread that runs it.
THEOREM ThreadsKeepTheirSwarm == AppSpec => []SwarmOutlivesThread
<1>1. AppInv => SwarmOutlivesThread
  BY DEF AppInv, ThreadInv, PointerInv, SwarmOutlivesThread
<1> QED BY <1>1, AppInvariant, PTL

\* After a start that failed the title is shown with the error, and a dashboard that
\* is shown has its manager.
THEOREM FailuresAreShown == AppSpec => []FailureIsShown
<1>1. AppInv => FailureIsShown
  BY DEF AppInv, PointerInv, TabInv, FailureIsShown
<1> QED BY <1>1, AppInvariant, PTL

-----------------------------------------------------------------------------
(* The numbers on the dashboard.                                           *)

\* Whatever the user and the main thread do, the swarm on the dashboard behaves as
\* SwarmManager says: what is proved of it holds under the interface.
THEOREM InterfaceRunsSwarm == AppSpec => Spec
<1>1. AppInit => Init
  BY DEF AppInit
<1>2. ASSUME [AppNext]_appVars
      PROVE  [Next]_vars
  BY <1>2
     DEF AppNext, appVars, Enter, EnterInvalid, EnterPath, StartFails, ThreadFails, Start,
         AnyEvent, Drawing, Draw, DrawDashboard, StatsDone, StatsCrash, CountWorker,
         Escape, CtrlC, AppDestroyed, Network, NetworkEnds, NetworkThrows
<1> QED
  BY <1>1, <1>2, PTL DEF AppSpec, Spec

\* A manager is made only where the bound leaves room for it.
RoomToStart == ui = "starting" => swarm_manager < MaxStarts

\* The workers get_stats has counted and those it will fit the slots, since they
\* were registered together when it began.
CountFits ==
  ui = "stats" => /\ IsFiniteSet(unseen)
                  /\ counted + Cardinality(unseen) <= NumConnections

\* What the dashboard shows as downloaded has been downloaded.
ShownIsStored == current_stats.downloaded <= pieces_downloaded

StatsInv == AppTypeOK /\ RoomToStart /\ CountFits /\ ShownIsStored

\* What the swarm contributes to the numbers.
SwarmFacts == IInv /\ ActiveBounded

\* The numbers on the dashboard begin at 0.
LEMMA StatsInit == AppInit => StatsInv
<1> SUFFICES ASSUME AppInit
             PROVE  StatsInv
  OBVIOUS
<1>1. NumConnections \in Nat /\ TotalPieces \in Nat /\ MaxStarts \in Nat
  BY SwarmAssumption, AppAssumption DEF SwarmAssumption, AppAssumption
<1>2. [active |-> 0, downloaded |-> 0]
        \in [active : 0 .. NumConnections, downloaded : 0 .. TotalPieces]
  BY <1>1
<1>3. AppTypeOK
  <2>1. /\ counted \in 0 .. NumConnections
        /\ swarm_manager \in 0 .. MaxStarts /\ manager \in 0 .. MaxStarts
    BY <1>1 DEF AppInit
  <2>2. current_stats \in [active : 0 .. NumConnections, downloaded : 0 .. TotalPieces]
    BY <1>2 DEF AppInit
  <2>3. ui \in UiStates
    BY DEF AppInit, UiStates
  <2> QED
    BY <2>1, <2>2, <2>3 DEF AppInit, AppTypeOK
<1>4. ShownIsStored
  BY DEF AppInit, Init, ShownIsStored
<1> QED
  BY <1>3, <1>4 DEF AppInit, StatsInv, RoomToStart, CountFits

\* Steps of the main thread that neither count nor show a number.
LEMMA StatsQuiet ==
  ASSUME StatsInv, SwarmFacts,
         \/ Enter \/ StartFails \/ ThreadFails \/ Start \/ AnyEvent \/ Draw
         \/ StatsCrash \/ Escape \/ CtrlC \/ AppDestroyed
  PROVE  StatsInv'
<1> USE DEF StatsInv, AppTypeOK, RoomToStart, CountFits, ShownIsStored, UiStates, Ended,
            shared, drawn, reading_stats, vars, board
<1>1. MaxStarts \in Nat
  BY AppAssumption DEF AppAssumption
<1>2. CASE Enter
  BY <1>2 DEF Enter, EnterInvalid, EnterPath
<1>3. CASE StartFails
  BY <1>3 DEF StartFails, start_failed
<1>4. CASE ThreadFails
  BY <1>1, <1>4 DEF ThreadFails, start_failed, attach
<1>5. CASE Start
  BY <1>1, <1>5 DEF Start, attach
<1>6. CASE AnyEvent \/ Draw
  BY <1>6 DEF AnyEvent, Draw
<1>7. CASE StatsCrash \/ Escape \/ CtrlC
  BY <1>7 DEF StatsCrash, Escape, CtrlC
<1>8. CASE AppDestroyed
  BY <1>1, <1>8 DEF AppDestroyed
<1> QED
  BY <1>2, <1>3, <1>4, <1>5, <1>6, <1>7, <1>8

\* get_stats begins with the registered workers, of which there are no more than slots.
LEMMA StatsBegin ==
  ASSUME StatsInv, SwarmFacts, DrawDashboard
  PROVE  StatsInv'
<1> USE DEF StatsInv, shared, drawn, vars, board
<1>1. /\ unseen' = active_workers /\ counted' = 0 /\ torn' = FALSE /\ ui' = "stats"
      /\ UNCHANGED <<active_tab, error_message, swarm_manager, manager, threads,
                     screen, current_stats, pieces_downloaded>>
  BY DEF DrawDashboard
<1>2. /\ active_workers \subseteq Worker
      /\ IsFiniteSet(active_workers)
      /\ Cardinality(active_workers) <= NumConnections
  BY DEF SwarmFacts, ActiveBounded, IInv, PoolInv, PoolTypes
<1>3. NumConnections \in Nat /\ Cardinality(active_workers) \in Nat
  BY <1>2, FS_CardinalityType, SwarmAssumption DEF SwarmAssumption
<1>4. AppTypeOK'
  <2>1. counted' \in 0 .. NumConnections /\ unseen' \subseteq Worker
    BY <1>1, <1>2, <1>3
  <2>2. torn' \in BOOLEAN /\ ui' \in UiStates
    BY <1>1 DEF UiStates
  <2> QED
    BY <1>1, <2>1, <2>2 DEF AppTypeOK
<1>5. CountFits'
  BY <1>1, <1>2, <1>3 DEF CountFits
<1> QED
  BY <1>1, <1>4, <1>5 DEF RoomToStart, ShownIsStored

\* A worker is counted once.
LEMMA StatsCount ==
  ASSUME StatsInv, NEW w \in Worker, CountWorker(w)
  PROVE  StatsInv'
<1> USE DEF StatsInv, shared, drawn, vars, board
<1>1. /\ ui = "stats" /\ w \in unseen
      /\ unseen' = unseen \ {w}
      /\ counted' \in {counted, counted + 1}
      /\ UNCHANGED <<ui, active_tab, error_message, swarm_manager, manager, threads, torn,
                     screen, current_stats, pieces_downloaded>>
  BY DEF CountWorker
<1>2. /\ IsFiniteSet(unseen) /\ counted \in Nat /\ NumConnections \in Nat
      /\ counted + Cardinality(unseen) <= NumConnections
  BY <1>1, SwarmAssumption DEF CountFits, AppTypeOK, SwarmAssumption
<1>3. /\ IsFiniteSet(unseen \ {w})
      /\ Cardinality(unseen \ {w}) = Cardinality(unseen) - 1
  BY <1>1, <1>2, FS_RemoveElement
<1>4. Cardinality(unseen \ {w}) \in Nat /\ Cardinality(unseen) \in Nat
  BY <1>2, <1>3, FS_CardinalityType
<1>5. CountFits' /\ counted' \in 0 .. NumConnections
  BY <1>1, <1>2, <1>3, <1>4 DEF CountFits
<1>6. AppTypeOK'
  BY <1>1, <1>5 DEF AppTypeOK
<1> QED
  BY <1>1, <1>5, <1>6 DEF RoomToStart, ShownIsStored

\* The dashboard shows the count, and pieces_downloaded_ as it is read.
LEMMA StatsShown ==
  ASSUME StatsInv, SwarmFacts, StatsDone
  PROVE  /\ StatsInv'
         /\ current_stats'.downloaded = pieces_downloaded
<1> USE DEF StatsInv, shared, vars, board
<1>1. PICK n \in IF torn THEN 0 .. NumConnections ELSE {counted} :
        current_stats' = [active |-> n, downloaded |-> pieces_downloaded]
  BY DEF StatsDone, downloaded_pieces
<1>2. n \in 0 .. NumConnections
  BY <1>1 DEF AppTypeOK
<1>3. /\ screen' = "dashboard" /\ ui' = "loop" /\ unseen' = {} /\ torn' = FALSE
      /\ UNCHANGED <<active_tab, error_message, swarm_manager, manager, threads,
                     counted, pieces_downloaded>>
  BY DEF StatsDone
<1>4. pieces_downloaded \in 0 .. TotalPieces
  BY DEF SwarmFacts, IInv, BoardInv, BoardTypes
<1>5. current_stats'.downloaded = pieces_downloaded
  BY <1>1
<1>6. AppTypeOK'
  BY <1>1, <1>2, <1>3, <1>4 DEF AppTypeOK, UiStates
<1>7. ShownIsStored'
  BY <1>3, <1>4, <1>5 DEF ShownIsStored
<1> QED
  BY <1>3, <1>5, <1>6, <1>7 DEF RoomToStart, CountFits

\* The network thread moves pieces_downloaded_ up only, and the numbers not at all.
LEMMA StatsNetwork ==
  ASSUME StatsInv, SwarmFacts, Network \/ NetworkEnds \/ NetworkThrows
  PROVE  StatsInv' /\ UNCHANGED current_stats
<1> USE DEF StatsInv, shared, drawn, reading_stats, vars, board
<1>1. pieces_downloaded \in Nat
  BY SwarmAssumption DEF SwarmFacts, IInv, BoardInv, BoardTypes, SwarmAssumption
<1>2. current_stats.downloaded \in Nat /\ current_stats.downloaded <= pieces_downloaded
  BY SwarmAssumption DEF AppTypeOK, ShownIsStored, SwarmAssumption
<1>3. CASE Network
  <2>1. pieces_downloaded' \in {pieces_downloaded, pieces_downloaded + 1}
    BY <1>3, CounterClimbs DEF Network, SwarmFacts
  <2>2. /\ torn' = (torn \/ (ui = "stats" /\ active_workers' # active_workers))
        /\ UNCHANGED <<ui, active_tab, error_message, swarm_manager, manager, threads,
                       unseen, counted, screen, current_stats>>
    BY <1>3 DEF Network
  <2>3. torn' \in BOOLEAN
    BY <2>2
  <2>4. AppTypeOK'
    BY <2>2, <2>3 DEF AppTypeOK
  <2>5. ShownIsStored'
    BY <1>1, <1>2, <2>1, <2>2 DEF ShownIsStored
  <2> QED
    BY <2>2, <2>4, <2>5 DEF RoomToStart, CountFits
<1>4. CASE NetworkEnds
  BY <1>4 DEF NetworkEnds, AppTypeOK, RoomToStart, CountFits, ShownIsStored
<1>5. CASE NetworkThrows
  BY <1>5 DEF NetworkThrows, AppTypeOK, RoomToStart, CountFits, ShownIsStored, UiStates,
              Ended
<1> QED
  BY <1>3, <1>4, <1>5

\* Every step keeps the numbers sound, and none takes the progress back.
LEMMA StatsStep ==
  ASSUME StatsInv, SwarmFacts, [AppNext]_appVars
  PROVE  /\ StatsInv'
         /\ current_stats'.downloaded >= current_stats.downloaded
<1>1. /\ current_stats.downloaded \in Nat /\ pieces_downloaded \in Nat
      /\ current_stats.downloaded <= pieces_downloaded
  BY SwarmAssumption DEF StatsInv, AppTypeOK, ShownIsStored, SwarmFacts, IInv, BoardInv,
                         BoardTypes, SwarmAssumption
<1>2. CASE \/ Enter \/ StartFails \/ ThreadFails \/ Start \/ AnyEvent \/ Draw
           \/ StatsCrash \/ Escape \/ CtrlC \/ AppDestroyed
  <2>1. UNCHANGED current_stats
    BY <1>2 DEF Enter, EnterInvalid, EnterPath, StartFails, ThreadFails, Start, AnyEvent,
                Draw, StatsCrash, Escape, CtrlC, AppDestroyed, drawn
  <2> QED
    BY <1>1, <1>2, <2>1, StatsQuiet
<1>3. CASE DrawDashboard
  <2>1. UNCHANGED current_stats
    BY <1>3 DEF DrawDashboard, drawn
  <2> QED
    BY <1>1, <1>3, <2>1, StatsBegin
<1>4. CASE \E w \in Worker : CountWorker(w)
  BY <1>1, <1>4, StatsCount DEF CountWorker, drawn
<1>5. CASE StatsDone
  BY <1>1, <1>5, StatsShown
<1>6. CASE Network \/ NetworkEnds \/ NetworkThrows
  BY <1>1, <1>6, StatsNetwork
<1>7. CASE UNCHANGED appVars
  BY <1>1, <1>7
     DEF appVars, shared, drawn, reading_stats, vars, board, StatsInv, AppTypeOK,
         RoomToStart, CountFits, ShownIsStored
<1> QED
  BY <1>2, <1>3, <1>4, <1>5, <1>6, <1>7 DEF AppNext, Drawing

\* The swarm under the interface keeps what the numbers need.
LEMMA SwarmFactsHold == AppSpec => []SwarmFacts
<1>1. IInv /\ ActiveBounded => SwarmFacts
  BY DEF SwarmFacts
<1> QED
  BY <1>1, InterfaceRunsSwarm, Invariance, ActiveInSlots, PTL

\* The numbers are sound in every reachable state, however often active_workers_
\* changes while get_stats counts.
THEOREM StatsInvariant == AppSpec => []StatsInv
<1>1. StatsInv /\ SwarmFacts /\ [AppNext]_appVars => StatsInv'
  BY StatsStep
<1> QED
  BY <1>1, StatsInit, SwarmFactsHold, PTL DEF AppSpec

\* Every variable of the interface keeps its type: the dashboard shows no more active
\* connections than slots and no more pieces than there are.
THEOREM InterfaceTyped == AppSpec => []AppTypeOK
<1>1. StatsInv => AppTypeOK
  BY DEF StatsInv
<1> QED
  BY <1>1, StatsInvariant, PTL

\* The progress on the dashboard never falls, whatever the network thread does while
\* get_stats reads.
THEOREM ProgressClimbs == AppSpec => ProgressNeverFalls
<1>1. /\ StatsInv /\ SwarmFacts /\ [AppNext]_appVars
      => [current_stats'.downloaded >= current_stats.downloaded]_appVars
  BY StatsStep
<1> QED
  BY <1>1, StatsInvariant, SwarmFactsHold, PTL DEF AppSpec, ProgressNeverFalls
=============================================================================
