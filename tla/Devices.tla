------------------------------ MODULE Devices ------------------------------
(* The applications that serve a device, a display or a peer that talks to   *)
(* them at its own pace.  Each is a system of its own; scene says which of   *)
(* them is running, the others stay as they were started.                    *)
EXTENDS PicoClients, Utilization, SerialClients, Console, Terminal, CharDevices, Timers

CONSTANT Scenes        \* the applications that are started, one at a time

ASSUME ScenesAssumption ==
  Scenes \subseteq {"text", "util", "serial", "console", "terminal", "chars", "timers"}

VARIABLE scene

vars == <<scene, clientVars, utilVars, serialVars, consoleVars, terminalVars, deviceVars,
          timerVars>>

\* An application that is not running is started in one way only.
Init ==
  /\ scene \in Scenes
  /\ ClientsInit /\ UtilInit /\ SerialInit /\ ConsoleInit /\ TerminalInit
  /\ CharDevicesInit /\ TimersInit
  /\ scene = "text" \/ app = "picoserver"
  /\ scene = "serial" \/ sApp = "ring"
  /\ scene = "chars" \/ dApp = "uart"
  /\ scene = "timers" \/ tApp = "pit"

Next ==
  \/ /\ scene = "text" /\ ClientsNext
     /\ UNCHANGED <<scene, utilVars, serialVars, consoleVars, terminalVars, deviceVars, timerVars>>
  \/ /\ scene = "util" /\ UtilNext
     /\ UNCHANGED <<scene, clientVars, serialVars, consoleVars, terminalVars, deviceVars, timerVars>>
  \/ /\ scene = "serial" /\ SerialNext
     /\ UNCHANGED <<scene, clientVars, utilVars, consoleVars, terminalVars, deviceVars, timerVars>>
  \/ /\ scene = "console" /\ ConsoleNext
     /\ UNCHANGED <<scene, clientVars, utilVars, serialVars, terminalVars, deviceVars, timerVars>>
  \/ /\ scene = "terminal" /\ TerminalNext
     /\ UNCHANGED <<scene, clientVars, utilVars, serialVars, consoleVars, deviceVars, timerVars>>
  \/ /\ scene = "chars" /\ CharDevicesNext
     /\ UNCHANGED <<scene, clientVars, utilVars, serialVars, consoleVars, terminalVars, timerVars>>
  \/ /\ scene = "timers" /\ TimersNext
     /\ UNCHANGED <<scene, clientVars, utilVars, serialVars, consoleVars, terminalVars, deviceVars>>

Spec == Init /\ [][Next]_vars
=============================================================================
