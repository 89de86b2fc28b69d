------------------------------- MODULE Console -------------------------------
(* aeroplage: a keyboard, a switch, two pass-through Linuxes and a display.  *)
(* The driver decodes scan codes and sends each character through a ring to  *)
(* the switch, which sends it on to the low or the high Linux; the display   *)
(* polls a ring of each and draws what arrives in that one's window.         *)
EXTENDS Integers, Sequences, FiniteSetsExt

CONSTANTS
  WIDTH, HEIGHT,            \* of a window, in pixels: 312 and 300
  CHAR_WIDTH, CHAR_HEIGHT,  \* of a character: 14 and 26
  MaxKeys                   \* bound: keys pressed

\* Characters fill the columns between the borders, and not the rows: were there
\* no pixels left over, the last row would count as outside the window.
ASSUME ConsoleAssumption ==
  /\ WIDTH \in Nat /\ HEIGHT \in Nat
  /\ CHAR_WIDTH \in Nat \ {0, 1} /\ CHAR_HEIGHT \in Nat \ {0}
  /\ WIDTH >= CHAR_WIDTH + 4 /\ HEIGHT >= 2 * CHAR_HEIGHT + 4
  /\ (WIDTH - 4) % CHAR_WIDTH = 0 /\ (HEIGHT - 4) % CHAR_HEIGHT # 0

VARIABLES
  held, presses,      \* the user: keys down, and how many were pressed
  port,               \* scan codes the driver has not read yet
  escape_code, escape_state, break_code,
  toSwitch, selected, \* the ring char_out, and where the switch sends
  toLinux, toVesa,    \* the rings to and from each Linux
  inputs, pen,        \* which ring is polled next, where each window goes on
  drawn,              \* the characters of each window, with their places
  meantFor, meant     \* histories: what the user chose, and typed for each

driverVars == <<port, escape_code, escape_state, break_code>>
ringVarsC == <<toSwitch, selected, toLinux, toVesa>>
userVars == <<held, presses, meantFor, meant>>
vesaVars == <<inputs, pen, drawn>>
consoleVars == <<userVars, driverVars, ringVarsC, vesaVars>>

LOW == "low"
HIGH == "high"
Windows == {LOW, HIGH}
Other(w) == IF w = LOW THEN HIGH ELSE LOW
SWITCH_CHAR == "tab"
NoCode == "none"
NoChar == "NUL"
-----------------------------------------------------------------------------
(* The keyboard (external): the cursor key "up" is key "8" escaped by e0, and *)
(* "pause" sends all its codes, escaped by e1, when it is pressed.           *)
PlainKeys == {"a", "8", ".", SWITCH_CHAR}
KeyNames == PlainKeys \cup {"up", "pause"}

DownCodes(k) ==
  CASE k \in PlainKeys -> <<k>>
    [] k = "up" -> <<"e0", "8">>
    [] OTHER -> <<"e1", "ctrl", "num", "e1", "f0", "ctrl", "f0", "num">>

UpCodes(k) ==
  CASE k \in PlainKeys -> <<"f0", k>>
    [] k = "up" -> <<"e0", "f0", "8">>
    [] OTHER -> <<>>

\* sel4keyboard_code_to_char (external)
CodeToChar(c) == IF c \in PlainKeys THEN c ELSE NoChar
-----------------------------------------------------------------------------
(* VESADriver                                                                *)
LeftEdge(w) == IF w = LOW THEN 100 ELSE 200 + WIDTH
FirstPen(w) == [x |-> LeftEdge(w) + 2, y |-> 100 + 4 + CHAR_HEIGHT]

printable(c) == c \in {"a", "8"}

\* to_pixels: a bitmap for each letter, each digit and the space, or NULL, on
\* which draw asserts.
HasPixels(c) == c \in {"a", "8"}

\* The pen after a character, which wraps near the right border.
NextPen(w, p) ==
  IF p.x + CHAR_WIDTH >= LeftEdge(w) + WIDTH - 3
  THEN [x |-> LeftEdge(w) + 2, y |-> p.y + CHAR_HEIGHT]
  ELSE [p EXCEPT !.x = @ + CHAR_WIDTH]

\* draw: the character's CHAR_WIDTH by CHAR_HEIGHT pixels, at the pen.
draw(w, c) ==
  /\ HasPixels(c)
  /\ drawn' = [drawn EXCEPT ![w] = Append(@, [char |-> c, at |-> pen[w]])]

\* write_low and write_high: nothing if it cannot be displayed or the window
\* is full.
Write(w, c) ==
  IF ~printable(c) \/ pen[w].y >= 100 + HEIGHT - CHAR_HEIGHT
  THEN UNCHANGED <<pen, drawn>>
  ELSE /\ draw(w, c)
       /\ pen' = [pen EXCEPT ![w] = NextPen(w, @)]

\* run: both inputs in turn; a ring with nothing in it gives 0.
PollInput ==
  /\ inputs' = Other(inputs)
  /\ IF toVesa[inputs] = <<>> THEN UNCHANGED <<pen, drawn, toVesa>>
     ELSE /\ Write(inputs, Head(toVesa[inputs]))
          /\ toVesa' = [toVesa EXCEPT ![inputs] = Tail(@)]
  /\ UNCHANGED <<userVars, driverVars, toSwitch, selected, toLinux>>
-----------------------------------------------------------------------------
ConsoleInit ==
  /\ held = {} /\ presses = 0 /\ meantFor = LOW /\ meant = [w \in Windows |-> <<>>]
  /\ port = <<>> /\ escape_code = NoCode /\ escape_state = 0 /\ break_code = FALSE
  /\ toSwitch = <<>> /\ selected = LOW
  /\ toLinux = [w \in Windows |-> <<>>] /\ toVesa = [w \in Windows |-> <<>>]
  /\ inputs = LOW /\ pen = [w \in Windows |-> FirstPen(w)]
  /\ drawn = [w \in Windows |-> <<>>]

\* The user; codes wait in order, so it is enough to let them be read first.
Press(k) ==
  /\ port = <<>> /\ k \notin held /\ presses < MaxKeys
  /\ held' = held \cup {k} /\ presses' = presses + 1
  /\ port' = DownCodes(k)
  /\ UNCHANGED <<meantFor, meant, escape_code, escape_state, break_code, ringVarsC, vesaVars>>

Release(k) ==
  /\ port = <<>> /\ k \in held
  /\ held' = held \ {k}
  /\ port' = UpCodes(k)
  /\ meantFor' = IF k = SWITCH_CHAR THEN Other(meantFor) ELSE meantFor
  /\ meant' = IF k \in PlainKeys \ {SWITCH_CHAR}
              THEN [meant EXCEPT ![meantFor] = Append(@, k)] ELSE meant
  /\ UNCHANGED <<presses, escape_code, escape_state, break_code, ringVarsC, vesaVars>>

\* KeyboardDriver: a code after e0 and two codes after e1 are skipped.
\* Mutant: the key-up mark of an escaped key stays set.
Skipped_marked ==
  /\ \/ escape_code = "e1" /\ escape_state' = escape_state + 1
     \/ escape_code = "e0" /\ UNCHANGED escape_state
  /\ IF escape_code = "e1" /\ escape_state' # 2 THEN UNCHANGED <<escape_code, break_code>>
     ELSE escape_code' = NoCode /\ UNCHANGED break_code
Skipped ==
  /\ \/ escape_code = "e1" /\ escape_state' = escape_state + 1
     \/ escape_code = "e0" /\ UNCHANGED escape_state
  /\ IF escape_code = "e1" /\ escape_state' # 2 THEN UNCHANGED <<escape_code, break_code>>
     ELSE escape_code' = NoCode /\ break_code' = FALSE

\* A character is sent when its key goes up.
Plain(c) ==
  /\ escape_code = NoCode /\ break_code' = FALSE
  /\ toSwitch' = IF break_code /\ CodeToChar(c) # NoChar
                 THEN Append(toSwitch, CodeToChar(c)) ELSE toSwitch
  /\ UNCHANGED <<escape_code, escape_state>>

ScanCode ==
  /\ port # <<>> /\ port' = Tail(port)
  /\ \/ Head(port) = "f0" /\ break_code' = TRUE
        /\ UNCHANGED <<escape_code, escape_state, toSwitch>>
     \/ Head(port) \in {"e0", "e1"} /\ escape_code' = Head(port) /\ escape_state' = 0
        /\ UNCHANGED <<break_code, toSwitch>>
     \/ /\ Head(port) \notin {"f0", "e0", "e1"}
        /\ (Skipped /\ UNCHANGED toSwitch) \/ Plain(Head(port))
  /\ UNCHANGED <<userVars, selected, toLinux, toVesa, vesaVars>>

\* Switch: tab changes the output, any other character goes to it.
SwitchRun ==
  LET c == Head(toSwitch)
  IN  /\ toSwitch # <<>> /\ toSwitch' = Tail(toSwitch)
      /\ IF c = SWITCH_CHAR THEN selected' = Other(selected) /\ UNCHANGED toLinux
         ELSE toLinux' = [toLinux EXCEPT ![selected] = Append(@, c)] /\ UNCHANGED selected
      /\ UNCHANGED <<userVars, driverVars, toVesa, vesaVars>>

\* MockLinux
PassThrough(w) ==
  /\ toLinux[w] # <<>>
  /\ toVesa' = [toVesa EXCEPT ![w] = Append(@, Head(toLinux[w]))]
  /\ toLinux' = [toLinux EXCEPT ![w] = Tail(@)]
  /\ UNCHANGED <<userVars, driverVars, toSwitch, selected, vesaVars>>

ConsoleNext ==
  \/ \E k \in KeyNames : Press(k) \/ Release(k)
  \/ ScanCode \/ SwitchRun \/ PollInput
  \/ \E w \in Windows : PassThrough(w)
-----------------------------------------------------------------------------
\* Characters a window has room for.
Columns == (WIDTH - 4) \div CHAR_WIDTH
Rows == (HEIGHT - 4 - CHAR_HEIGHT) \div CHAR_HEIGHT
Room == Columns * Rows
Arrived == port = <<>> /\ toSwitch = <<>> /\ \A w \in Windows : toLinux[w] = <<>> /\ toVesa[w] = <<>>

\* Which of the first n characters typed for a window can be displayed.
Displayable(w, n) == {i \in 1..n : printable(meant[w][i])}

\* Each window shows the printable characters typed for it, in order and each
\* once, whatever other keys are down and whichever way its ring is late, and
\* all of them, up to the room it has, once they have arrived (driver.c:63-104,
\* switch.c:44-62, vesadriver.c:131-168).  No character is drawn over another
\* or over a border.
WindowsFaithful ==
  \A w \in Windows :
    LET want == Displayable(w, Len(meant[w]))
        got == drawn[w]
    IN  /\ Len(got) <= Cardinality(want)
        /\ \A i \in want : LET rank == Cardinality(Displayable(w, i))
                           IN  rank <= Len(got) => got[rank].char = meant[w][i]
        /\ \A i \in 1..Len(got) :
             /\ got[i].at.x > LeftEdge(w)
             /\ got[i].at.x + CHAR_WIDTH - 1 < LeftEdge(w) + WIDTH
             /\ got[i].at.y >= 104 + CHAR_HEIGHT
             /\ got[i].at.y + CHAR_HEIGHT - 1 < 100 + HEIGHT
             /\ \A j \in 1..(i - 1) : got[i].at # got[j].at
        /\ Arrived => Len(got) = Min({Cardinality(want), Room})
=============================================================================
