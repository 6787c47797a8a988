----------------------------- MODULE MCServices -----------------------------
(***************************************************************************)
(* The two processes around the loop that share no state: the            *)
(* sovereignty HTTP API over the PAX kernel, and the desktop coordinator's *)
(* main process.  Running side by side, their composition is the          *)
(* interleaving of their steps, each leaving the other's state alone.    *)
(***************************************************************************)
EXTENDS Integers

CONSTANTS ClientKeys, ClientValues, Modes, Missions, Null, Undefined, Missing,
          MaxRequests, MaxMs, Darwin, MaxWindows

VARIABLES
    pulseCount, intensity, codex, quadStack, chain, lastToken, vault,
    now, booted, requests, resp,
    shift, appReady, window, loaded, sent, trayShift, windows, quit

API  == INSTANCE SovereigntyAPI
Desk == INSTANCE DesktopMain

serviceVars == <<pulseCount, intensity, codex, quadStack, chain, lastToken, vault,
                 now, booted, requests, resp>>
desktopVars == <<shift, appReady, window, loaded, sent, trayShift, windows, quit>>
vars == <<serviceVars, desktopVars>>

Init == API!Init /\ Desk!DesktopInit

Next == \/ API!Next /\ UNCHANGED desktopVars
        \/ Desk!DesktopNext /\ UNCHANGED serviceVars

\* The API serves requests as callers send them: no fairness.
Spec == Init /\ [][Next]_vars /\ Desk!DesktopFairness

\* Every open window comes to hold the current shift unless it is closed.
WindowCatchesUp == Desk!WindowCatchesUp

=============================================================================
