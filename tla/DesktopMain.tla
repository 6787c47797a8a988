----------------------------- MODULE DesktopMain -----------------------------
(***************************************************************************)
(* The Electron main process of the desktop coordinator                   *)
(* (src/desktop/main.js): the main window's lifecycle, the tray, the      *)
(* get-shift IPC handler and the 15-minute cron heartbeat, against the    *)
(* UTC shift getCurrentShift() reads from the clock.                      *)
(*                                                                         *)
(* Every handler runs on the main process's one thread, so each is one     *)
(* action.  `window` is mainWindow: "none" (null), "loading" (created,    *)
(* hidden), "early" (shown by the tray before ready-to-show) or "shown"   *)
(* (ready-to-show has run).  `loaded` says the page has loaded and its    *)
(* listeners are registered: a message sent to the page before that is   *)
(* lost.  `sent` is the shift the renderer last received (shift-update,   *)
(* heartbeat or a get-shift reply), Null for a page that has none.        *)
(*                                                                         *)
(* Time is abstracted to the shift.  The UTC hour turns (HourTurns) apart *)
(* from the cron callback (Quarter), which reads the shift of the moment   *)
(* it runs; a firing node-cron misses is a Quarter that does not happen.  *)
(* The agent table and the open-* handlers only pass URLs to the browser  *)
(* and are left out.                                                      *)
(***************************************************************************)
EXTENDS Integers

CONSTANTS
    Darwin,       \* process.platform === 'darwin'
    Null,
    MaxWindows    \* windows created in a behaviour

ASSUME Darwin \in BOOLEAN /\ MaxWindows \in Nat \ {0}

VARIABLES
    shift,        \* getCurrentShift(): 1 ALPHA (0-8 UTC), 2 BETA, 3 GAMMA
    appReady,     \* app.whenReady() has resolved
    window, loaded, sent,
    trayShift,    \* the shift in the tray's "Current Shift" label, Null before the tray
    windows,      \* windows created so far
    quit          \* app.quit() was called

desktopVars == <<shift, appReady, window, loaded, sent, trayShift, windows, quit>>

Shifts == {1, 2, 3}
NextShift(s) == (s % 3) + 1

\* What webContents.send(..., shift) leaves the page holding.
Deliver(s) == IF loaded THEN s ELSE sent

\* createWindow(): a new hidden window loading its page.
CreateWindow ==
    /\ windows < MaxWindows
    /\ window' = "loading" /\ loaded' = FALSE /\ sent' = Null
    /\ windows' = windows + 1

\* app.whenReady().then(...): createWindow(), then createTray().
WhenReady ==
    /\ ~appReady /\ appReady' = TRUE
    /\ CreateWindow
    /\ trayShift' = shift
    /\ UNCHANGED <<shift, quit>>

\* The renderer finishes loading index.html and registers its listeners.
PageLoaded ==
    /\ window \in {"loading", "early"} /\ ~loaded /\ ~quit
    /\ loaded' = TRUE
    /\ UNCHANGED <<shift, appReady, window, sent, trayShift, windows, quit>>

\* 'ready-to-show', once per window, after the page has rendered: show it,
\* send shift-update and agents-update.
ReadyToShow ==
    /\ window \in {"loading", "early"} /\ loaded /\ ~quit
    /\ window' = "shown" /\ sent' = shift
    /\ UNCHANGED <<shift, appReady, loaded, trayShift, windows, quit>>

\* The user closes the visible window: 'closed' sets mainWindow = null, then
\* 'window-all-closed' quits except on macOS.
Closed ==
    /\ window \in {"early", "shown"} /\ ~quit
    /\ window' = "none" /\ loaded' = FALSE /\ sent' = Null
    /\ quit' = ~Darwin
    /\ UNCHANGED <<shift, appReady, trayShift, windows>>

\* Tray "Open Commander" or double-click: show the window, or create one.
TrayOpen ==
    /\ trayShift # Null /\ ~quit
    /\ IF window = "none"
       THEN CreateWindow
       ELSE /\ window' = IF window = "loading" THEN "early" ELSE window
            /\ UNCHANGED <<loaded, sent, windows>>
    /\ UNCHANGED <<shift, appReady, trayShift, quit>>

\* 'activate' (macOS): create a window when there is none.
Activate ==
    /\ Darwin /\ appReady /\ window = "none" /\ ~quit
    /\ CreateWindow
    /\ UNCHANGED <<shift, appReady, trayShift, quit>>

\* The loaded page invokes get-shift and receives getCurrentShift().
GetShift ==
    /\ window # "none" /\ loaded /\ ~quit
    /\ sent' = shift
    /\ UNCHANGED <<shift, appReady, window, loaded, trayShift, windows, quit>>

\* The UTC hour crosses 8, 16 or 0.
HourTurns ==
    /\ ~quit
    /\ shift' = NextShift(shift)
    /\ UNCHANGED <<appReady, window, loaded, sent, trayShift, windows, quit>>

\* Fault-injection variant: the heartbeat goes only to a window
\* ready-to-show has shown.
QuarterToShownOnly ==
    /\ ~quit
    /\ sent' = IF window = "shown" THEN Deliver(shift) ELSE sent
    /\ UNCHANGED <<shift, appReady, window, loaded, trayShift, windows, quit>>

\* The cron callback at a quarter hour: if mainWindow is set, send a
\* heartbeat with getCurrentShift().
Quarter ==
    /\ ~quit
    /\ sent' = IF window # "none" THEN Deliver(shift) ELSE sent
    /\ UNCHANGED <<shift, appReady, window, loaded, trayShift, windows, quit>>

DesktopInit ==
    /\ shift \in Shifts
    /\ appReady = FALSE /\ window = "none" /\ loaded = FALSE /\ sent = Null
    /\ trayShift = Null /\ windows = 0 /\ quit = FALSE

DesktopNext ==
    \/ WhenReady \/ PageLoaded \/ ReadyToShow \/ Closed \/ TrayOpen
    \/ Activate \/ GetShift \/ HourTurns \/ Quarter

(***************************************************************************)
(* The renderer finishes loading a page, Electron fires ready-to-show for  *)
(* a hidden window that has rendered (for a window shown before that it   *)
(* does not promise the event), and node-cron fires while the process     *)
(* lives.  The clock, the user's clicks and the renderer's requests get   *)
(* no fairness.                                                           *)
(***************************************************************************)
DesktopFairness ==
    /\ WF_desktopVars(PageLoaded)
    /\ WF_desktopVars(ReadyToShow /\ window = "loading")
    /\ WF_desktopVars(Quarter)

-----------------------------------------------------------------------------
(* Properties *)

\* Every open window, the one the tray showed before ready-to-show
\* included, comes to hold the shift of the moment unless it is closed
\* first, although a heartbeat sent before its page has loaded is lost:
\* the heartbeat goes to any window mainWindow names.
WindowCatchesUp == (window # "none") ~> (sent = shift \/ window = "none")

=============================================================================
