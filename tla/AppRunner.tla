----------------------------- MODULE AppRunner ------------------------------
(***************************************************************************)
(* The terminal interface (src/ui): class AppRunner with its TitleScreen   *)
(* and DashScreen, run by the main thread, and the detached thread that    *)
(* runs SwarmManager::start_download for it.  The two threads share the    *)
(* SwarmManager without a lock.                                            *)
(*                                                                         *)
(* FTXUI, the library that draws, is external: it draws once at the start, *)
(* hands each event to the component of the active tab, draws again after  *)
(* each event, and leaves its loop on Ctrl-C.  Nothing in the program      *)
(* posts an event.                                                         *)
(*                                                                         *)
(* A SwarmManager is known by its number; the variables of the module      *)
(* SwarmManager are those of the one that swarm_manager_ points to.  A     *)
(* manager that never gets a thread leaves them in their initial state.    *)
(***************************************************************************)
EXTENDS SwarmManager

CONSTANT MaxStarts   \* bound on the SwarmManagers that are made

ASSUME AppAssumption == MaxStarts \in Nat

VARIABLES
  ui,             \* where the main thread is
  active_tab,     \* active_tab_: 0 is the title, 1 the dashboard
  error_message,  \* error_message_ of the title: "none", or its kind
  swarm_manager,  \* the manager swarm_manager_ owns, 0 for none
  manager,        \* manager_, the dashboard's pointer to it
  threads,        \* the managers whose start_download some thread is running
  unseen,         \* the workers get_stats has not looked at yet
  counted,        \* and how many of those it has were downloading
  torn,           \* active_workers_ has changed since it began
  screen,         \* what has been drawn last
  current_stats   \* current_stats_: the numbers on the dashboard

shared  == <<swarm_manager, manager, threads>>
reading_stats == <<unseen, counted, torn>>
drawn   == <<screen, current_stats>>
appVars == <<ui, active_tab, error_message, shared, reading_stats, drawn, vars>>

\* The process ends "closed" by Escape, "killed" by Ctrl-C, "crashed" by undefined
\* behaviour or "terminated" by an exception that nobody catches.
Ended    == {"closed", "killed", "crashed", "terminated"}
UiStates == {"loop", "starting", "draw", "stats", "left", "interrupted"} \cup Ended

AppTypeOK ==
  /\ ui \in UiStates
  /\ active_tab \in {0, 1}
  /\ error_message \in {"none", "empty", "suffix", "failed"}
  /\ swarm_manager \in 0 .. MaxStarts
  /\ manager \in 0 .. MaxStarts
  /\ threads \subseteq 1 .. MaxStarts
  /\ unseen \subseteq Worker
  /\ counted \in 0 .. NumConnections
  /\ torn \in BOOLEAN
  /\ screen \in {"blank", "title", "loading", "dashboard"}
  /\ current_stats \in [active : 0 .. NumConnections, downloaded : 0 .. TotalPieces]

AppInit ==
  /\ Init
  /\ ui = "draw"
  /\ active_tab = 0
  /\ error_message = "none"
  /\ swarm_manager = 0 /\ manager = 0 /\ threads = {}
  /\ unseen = {} /\ counted = 0 /\ torn = FALSE
  /\ screen = "blank"
  /\ current_stats = [active |-> 0, downloaded |-> 0]

-----------------------------------------------------------------------------
(* The title screen: Enter, with what has been typed.                      *)

\* TitleScreen::validate_input turns the path down.
EnterInvalid(error) ==
  /\ ui = "loop" /\ active_tab = 0
  /\ error_message' = error
  /\ ui' = "draw"
  /\ UNCHANGED <<active_tab, shared, reading_stats, drawn, vars>>

\* It accepts the path: AppRunner's callback goes on to start_download.
EnterPath ==
  /\ ui = "loop" /\ active_tab = 0
  /\ swarm_manager < MaxStarts
  /\ error_message' = "none"
  /\ active_tab' = 1
  /\ ui' = "starting"
  /\ UNCHANGED <<shared, reading_stats, drawn, vars>>

\* Mutant of start_failed: the dashboard stays.
start_failed_there ==
  /\ UNCHANGED active_tab
  /\ error_message' = "failed"
  /\ ui' = "draw"

\* The catch clause of start_download.
start_failed ==
  /\ active_tab' = 0
  /\ error_message' = "failed"
  /\ ui' = "draw"

\* TorrentFile, fetch_peers or the constructor of SwarmManager throws.
StartFails ==
  /\ ui = "starting"
  /\ start_failed
  /\ UNCHANGED <<shared, reading_stats, drawn, vars>>

\* make_unique, which destroys the manager before it, and attach_swarm.
attach ==
  /\ swarm_manager' = swarm_manager + 1
  /\ manager' = swarm_manager'

\* std::thread throws: the manager is there, and nobody runs it.
ThreadFails ==
  /\ ui = "starting"
  /\ attach
  /\ start_failed
  /\ UNCHANGED <<threads, reading_stats, drawn, vars>>

Start ==
  /\ ui = "starting"
  /\ attach
  /\ threads' = threads \cup {swarm_manager'}
  /\ active_tab' = 1
  /\ ui' = "draw"
  /\ UNCHANGED <<error_message, reading_stats, drawn, vars>>

-----------------------------------------------------------------------------
(* Drawing.                                                                *)

\* Mutant of AnyEvent: only the title is drawn anew.
AnyEventOnTitle ==
  /\ ui = "loop" /\ active_tab = 0
  /\ ui' = "draw"
  /\ UNCHANGED <<active_tab, error_message, shared, reading_stats, drawn, vars>>

\* A key, a move of the mouse or a new size of the terminal that nobody takes.
AnyEvent ==
  /\ ui = "loop"
  /\ ui' = "draw"
  /\ UNCHANGED <<active_tab, error_message, shared, reading_stats, drawn, vars>>

\* The title, or the dashboard without a manager.
Draw ==
  /\ ui = "draw"
  /\ active_tab = 0 \/ manager = 0
  /\ screen' = IF active_tab = 0 THEN "title" ELSE "loading"
  /\ ui' = "loop"
  /\ UNCHANGED <<active_tab, error_message, shared, reading_stats,
                 current_stats, vars>>

\* Mutant of DrawDashboard: the count goes on from the last one.
DrawDashboardOn ==
  /\ ui = "draw"
  /\ active_tab = 1 /\ manager # 0
  /\ unseen' = active_workers
  /\ torn' = FALSE
  /\ ui' = "stats"
  /\ UNCHANGED <<active_tab, error_message, shared, counted, drawn, vars>>

\* get_stats begins to count over active_workers_.
DrawDashboard ==
  /\ ui = "draw"
  /\ active_tab = 1 /\ manager # 0
  /\ unseen' = active_workers
  /\ counted' = 0
  /\ torn' = FALSE
  /\ ui' = "stats"
  /\ UNCHANGED <<active_tab, error_message, shared, drawn, vars>>

is_actively_downloading(w) == socket[w] = "open" /\ active_piece[w] # NoPiece

CountWorker(w) ==
  /\ ui = "stats" /\ ~ torn
  /\ w \in unseen
  /\ unseen' = unseen \ {w}
  /\ counted' = IF is_actively_downloading(w) THEN counted + 1 ELSE counted
  /\ UNCHANGED <<ui, active_tab, error_message, shared, torn, drawn, vars>>

\* Mutant of downloaded_pieces: claimed pieces count.
downloaded_pieces_claimed == Cardinality({p \in Piece : piece_checklist[p]})

\* get_stats reads pieces_downloaded_ after it has counted.
downloaded_pieces == pieces_downloaded

\* The dashboard is drawn with what get_stats returns.  Counting over a vector that
\* changes is undefined: the count may be any that fits.
StatsDone ==
  /\ ui = "stats"
  /\ torn \/ unseen = {}
  /\ \E n \in IF torn THEN 0 .. NumConnections ELSE {counted} :
       current_stats' = [active |-> n, downloaded |-> downloaded_pieces]
  /\ screen' = "dashboard"
  /\ unseen' = {} /\ torn' = FALSE
  /\ ui' = "loop"
  /\ UNCHANGED <<active_tab, error_message, shared, counted, vars>>

\* Or it ends the process.
StatsCrash ==
  /\ ui = "stats" /\ torn
  /\ ui' = "crashed"
  /\ UNCHANGED <<active_tab, error_message, shared, reading_stats, drawn, vars>>

-----------------------------------------------------------------------------
(* Leaving.                                                                *)

\* Mutant of Escape: it is caught on every tab.
EscapeAnywhere ==
  /\ ui = "loop"
  /\ ui' = "left"
  /\ UNCHANGED <<active_tab, error_message, shared, reading_stats, drawn, vars>>

\* The handler that CatchEvent adds in build_ui.
Escape ==
  /\ ui = "loop" /\ active_tab = 0
  /\ ui' = "left"
  /\ UNCHANGED <<active_tab, error_message, shared, reading_stats, drawn, vars>>

\* FTXUI's own way out of the loop, which no component takes.
CtrlC ==
  /\ ui = "loop"
  /\ ui' = "interrupted"
  /\ UNCHANGED <<active_tab, error_message, shared, reading_stats, drawn, vars>>

\* AppRunner::run returns to main, whose AppRunner is destroyed, with the swarm it
\* owns; then the process ends, with its detached threads.
AppDestroyed ==
  /\ ui \in {"left", "interrupted"}
  /\ swarm_manager' = 0
  /\ ui' = IF ui = "left" THEN "closed" ELSE "killed"
  /\ UNCHANGED <<active_tab, error_message, manager, threads, reading_stats,
                 drawn, vars>>

-----------------------------------------------------------------------------
(* The detached thread.                                                    *)

\* A handler, or another step of start_download.
Network ==
  /\ threads # {} /\ ui \notin Ended
  /\ main \notin {"complete", "depleted", "aborted", "crashed"}
  /\ Next
  /\ torn' = (torn \/ (ui = "stats" /\ active_workers' # active_workers))
  /\ UNCHANGED <<ui, active_tab, error_message, shared, unseen, counted, drawn>>

\* start_download returns.
NetworkEnds ==
  /\ threads # {} /\ ui \notin Ended
  /\ main \in {"complete", "depleted"}
  /\ threads' = {}
  /\ UNCHANGED <<ui, active_tab, error_message, swarm_manager, manager,
                 reading_stats, drawn, vars>>

\* What leaves run() is caught by nobody, and ends the process.
NetworkThrows ==
  /\ threads # {} /\ ui \notin Ended
  /\ main \in {"aborted", "crashed"}
  /\ ui' = IF main = "aborted" THEN "terminated" ELSE "crashed"
  /\ UNCHANGED <<active_tab, error_message, shared, reading_stats, drawn, vars>>

-----------------------------------------------------------------------------
Enter ==
  \/ \E error \in {"empty", "suffix"} : EnterInvalid(error)
  \/ EnterPath

Drawing == Draw \/ DrawDashboard \/ StatsDone \/ StatsCrash
             \/ \E w \in Worker : CountWorker(w)

AppNext ==
  \/ Enter \/ StartFails \/ ThreadFails \/ Start
  \/ AnyEvent \/ Drawing
  \/ Escape \/ CtrlC \/ AppDestroyed
  \/ Network \/ NetworkEnds \/ NetworkThrows
  \/ ui \in Ended /\ UNCHANGED appVars

AppSpec == AppInit /\ [][AppNext]_appVars

\* The main thread goes on drawing; and, an assumption on the user, there is always
\* another event.
MainThread == WF_appVars(Drawing)
EventsCome == WF_appVars(AnyEvent)

AppFairSpec == AppSpec /\ MainThread /\ EventsCome

-----------------------------------------------------------------------------
(* Properties.                                                             *)

\* As long as a thread runs start_download, swarm_manager_ owns the manager it runs
\* on, and the dashboard points to that one: no second start replaces it, and
\* Escape does not destroy it.  (Ctrl-C does: ThreadKeepsItsSwarm.)
SwarmOutlivesThread ==
  ui # "killed" =>
    \A g \in threads : g = swarm_manager /\ g = manager

\* The same, whatever ends the interface.
ThreadKeepsItsSwarm ==
  \A g \in threads : g = swarm_manager /\ g = manager

\* "Failed to start swarm: ..." (app.cpp:78): after a start that failed, at whatever
\* point, the user sees the title with the error and may try again; the dashboard
\* never waits for a manager that does not come.
FailureIsShown ==
  ui = "loop" =>
    /\ error_message # "none" => screen = "title" /\ active_tab = 0
    /\ active_tab = 1 => screen = "dashboard" /\ manager = swarm_manager

\* The progress on the dashboard never falls, although pieces are claimed and given
\* back, workers come and go, and the numbers are read while they change.
ProgressNeverFalls ==
  [][current_stats'.downloaded >= current_stats.downloaded]_appVars

\* When start_download has completed, the dashboard comes to show every piece.
CompletionIsShown ==
  main = "complete" ~> \/ current_stats.downloaded = TotalPieces
                       \/ ui \in Ended \cup {"left", "interrupted"}

\* "Loading Torrent Engine..." (dash_screen.cpp:29): the tab is changed before the
\* torrent is loaded and the trackers are asked, in the same event.
LoadingIsShown == ui = "starting" => screen = "loading"

\* "Determine Swarm Status indicator" (dash_screen.cpp:48)
RunningShown ==
  screen = "dashboard" /\ (current_stats.active > 0 \/ current_stats.downloaded > 0)

\* A swarm that has given up is not for ever shown as RUNNING.
DepletionIsShown ==
  main = "depleted" ~> ~ RunningShown \/ ui \in Ended \cup {"left", "interrupted"}

\* "Fatal Error: " (cli/src/main.cpp:31) is what an error of the network comes to in
\* the CLI; it does not end the process of the interface either.
NetworkErrorIsCaught == ui # "terminated"

\* The numbers on the dashboard were true together: who downloads a piece, and the
\* pieces that are stored.
StatsFitTogether == current_stats.active + current_stats.downloaded <= TotalPieces
=============================================================================
