------------------------------ MODULE Terminal ------------------------------
(* terminal and vgatest: text displays.                                      *)
(* The display manager serves each client from a thread of its own.  A       *)
(* put_char draws the domain's border the first time, then sets the colour,  *)
(* writes the character at its place and resets the colour, each with a      *)
(* printf of its own; nothing keeps the threads apart.  A delay loop in      *)
(* client 1 is meant to let client 2 finish first, and does not order them.  *)
(* vgatest writes a string to a screen of its own.                           *)
EXTENDS Integers, Sequences

CONSTANTS
  DomainX, DomainY, DomainWidth, DomainHeight,  \* functions of the domain
  TERMINAL_WIDTH, TERMINAL_HEIGHT,
  MESSAGE,                                      \* what each client prints
  VGA_WIDTH, VGA_HEIGHT, Welcome                \* 80, 25; a string with its end

Domains == {1, 2}
ESC == "ESC"
StringEnd == "0"

ASSUME TerminalAssumption ==
  \* A terminal's rows count from 1; row 0 would be drawn over the first.
  /\ \A d \in Domains : /\ DomainX[d] \in Nat /\ DomainY[d] \in Nat \ {0, 1}
                         /\ DomainWidth[d] \in Nat /\ DomainHeight[d] \in Nat
  \* There is room for a border between the regions.
  /\ \A d, e \in Domains : d # e =>
       \/ DomainX[d] + DomainWidth[d] < DomainX[e] \/ DomainX[e] + DomainWidth[e] < DomainX[d]
       \/ DomainY[d] + DomainHeight[d] < DomainY[e] \/ DomainY[e] + DomainHeight[e] < DomainY[d]
  /\ TERMINAL_WIDTH \in Nat /\ TERMINAL_HEIGHT \in Nat
  /\ VGA_WIDTH \in Nat \ {0} /\ VGA_HEIGHT \in Nat \ {0}

VARIABLES
  colour,             \* the terminal's current colour
  cells,              \* what was written since it was blanked, and by whom
  border,             \* of each domain: was it begun?
  todo,               \* of each domain: the printf calls its request has left
  printedBy,          \* of each client: the i of print
  clientEnd,          \* ... and was its last character refused?
  mixed, tinted,      \* histories: two requests were served at a time; a
                      \* character was written in a colour not its domain's
  terminal_row, terminal_column, terminal_buffer, vgaNext

vgaVars == <<terminal_row, terminal_column, terminal_buffer, vgaNext>>
ttyVars == <<colour, cells, border, todo, printedBy, clientEnd, mixed, tinted>>
terminalVars == <<ttyVars, vgaVars>>
-----------------------------------------------------------------------------
Put(x, y, c) == [at |-> <<x, y>>, char |-> c]
Colour(d) == [at |-> <<>>, char |-> d]
RESET_ATTRIBUTES == Colour(0)
NoCall == Colour(-1)

\* A part of a border is drawn only if it passes borderise's test.
OnTerminal(x, y) == x \in 0..TERMINAL_WIDTH /\ y \in 0..TERMINAL_HEIGHT
Edge(x, y, c) == IF OnTerminal(x, y) THEN Put(x, y, c) ELSE NoCall

Row(x, y, n, c) == [i \in 1..n |-> Edge(x + i - 1, y, c)]
Column(x, y, n, c) == [j \in 1..n |-> Edge(x, y + j - 1, c)]

\* A terminal (external) moves the cursor no further than its last column and
\* row.  Columns are counted from 0 here, rows from 1.
Lands(at) == <<IF at[1] < TERMINAL_WIDTH THEN at[1] ELSE TERMINAL_WIDTH - 1,
               IF at[2] <= TERMINAL_HEIGHT THEN at[2] ELSE TERMINAL_HEIGHT>>

\* borderise: corners, top, left, bottom, right.
borderise(d) ==
  LET x == DomainX[d]
      y == DomainY[d]
      w == DomainWidth[d]
      h == DomainHeight[d]
  IN  <<Colour(d), Edge(x - 1, y - 1, "+"), Edge(x + w, y - 1, "+"),
                   Edge(x - 1, y + h, "+"), Edge(x + w, y + h, "+")>>
      \o Row(x, y - 1, w, "-") \o Column(x - 1, y, h, "|")
      \o Row(x, y + h, w, "-") \o Column(x + w, y, h, "|")
      \o <<RESET_ATTRIBUTES>>

\* The place is inside the region and on the terminal, so far as the column goes:
\* the last test adds the region's height where its row is meant, so that rows
\* below the terminal's last are let through, or all rows refused.
\* Mutant: the column just past the region is let through.
InBounds_wide(d, x, y) ==
  /\ x >= 0 /\ y >= 0 /\ x <= DomainWidth[d] /\ y < DomainHeight[d]
  /\ x + DomainX[d] < TERMINAL_WIDTH /\ y + DomainHeight[d] < TERMINAL_HEIGHT
InBounds(d, x, y) ==
  /\ x >= 0 /\ y >= 0 /\ x < DomainWidth[d] /\ y < DomainHeight[d]
  /\ x + DomainX[d] < TERMINAL_WIDTH /\ y + DomainHeight[d] < TERMINAL_HEIGHT

Accepted(d, x, y, c) == c # ESC /\ InBounds(d, x, y)

\* domain1_put_char, domain2_put_char
put_char(d, x, y, c) ==
  (IF border[d] THEN <<>> ELSE borderise(d))
  \o (IF Accepted(d, x, y, c)
      THEN <<Colour(d), Put(DomainX[d] + x, DomainY[d] + y, c), RESET_ATTRIBUTES>>
      ELSE <<>>)
-----------------------------------------------------------------------------
\* domain1__init has blanked the terminal.
DisplayInit ==
  /\ colour = 0 /\ cells = <<>> /\ border = [d \in Domains |-> FALSE]
  /\ todo = [d \in Domains |-> <<>>] /\ printedBy = [d \in Domains |-> 0]
  /\ clientEnd = [d \in Domains |-> FALSE] /\ mixed = FALSE /\ tinted = FALSE

terminal_initialize ==
  /\ terminal_row = 0 /\ terminal_column = 0 /\ vgaNext = 1
  /\ terminal_buffer = [i \in 0..(VGA_WIDTH * VGA_HEIGHT - 1) |-> " "]

TerminalInit == DisplayInit /\ terminal_initialize

\* print: the next character, at column i of row 0, unless the last was refused.
PrintChar(d) ==
  LET i == printedBy[d]
  IN  /\ ~clientEnd[d] /\ todo[d] = <<>> /\ i < Len(MESSAGE[d])
      /\ todo' = [todo EXCEPT ![d] = put_char(d, i, 0, MESSAGE[d][i + 1])]
      /\ border' = [border EXCEPT ![d] = TRUE]
      /\ printedBy' = [printedBy EXCEPT ![d] = i + 1]
      /\ clientEnd' = [clientEnd EXCEPT ![d] = ~Accepted(d, i, 0, MESSAGE[d][i + 1])]
      /\ mixed' = (mixed \/ \E e \in Domains : todo[e] # <<>>)
      /\ UNCHANGED <<colour, cells, tinted, vgaVars>>

\* One printf of the manager: a colour, or write_char, which has no test.
Printf(d) ==
  LET p == Head(todo[d])
  IN  /\ todo[d] # <<>>
      /\ todo' = [todo EXCEPT ![d] = Tail(@)]
      /\ IF p.at = <<>>
         THEN /\ colour' = IF p = NoCall THEN colour ELSE p.char
              /\ UNCHANGED <<cells, tinted>>
         ELSE /\ cells' = [q \in DOMAIN cells \cup {Lands(p.at)} |->
                            IF q = Lands(p.at) THEN [char |-> p.char, by |-> d] ELSE cells[q]]
              /\ tinted' = (tinted \/ colour # d)
              /\ UNCHANGED colour
      /\ UNCHANGED <<border, printedBy, clientEnd, mixed, vgaVars>>

\* terminal_putchar: the row after the last one is the first.
NextRow(r) == IF r + 1 = VGA_HEIGHT THEN 0 ELSE r + 1

terminal_putchar(c) ==
  /\ terminal_buffer' =
       [terminal_buffer EXCEPT ![terminal_row * VGA_WIDTH + terminal_column] = c]
  /\ IF terminal_column + 1 = VGA_WIDTH
     THEN terminal_column' = 0 /\ terminal_row' = NextRow(terminal_row)
     ELSE terminal_column' = terminal_column + 1 /\ UNCHANGED terminal_row

\* terminal_writestring: each character up to the end of the string.
terminal_write ==
  /\ Welcome[vgaNext] # StringEnd
  /\ terminal_putchar(Welcome[vgaNext])
  /\ vgaNext' = vgaNext + 1
  /\ UNCHANGED ttyVars

TerminalNext == (\E d \in Domains : PrintChar(d) \/ Printf(d)) \/ terminal_write
-----------------------------------------------------------------------------
RegionOf(d) == {<<DomainX[d] + x, DomainY[d] + y>> :
                  x \in 0..(DomainWidth[d] - 1), y \in 0..(DomainHeight[d] - 1)}

\* The regions are within the terminal's columns, and their first rows within
\* its rows; they may run off the bottom.
RegionsFit ==
  \A d \in Domains : /\ DomainX[d] + DomainWidth[d] < TERMINAL_WIDTH
                     /\ DomainY[d] <= TERMINAL_HEIGHT /\ DomainHeight[d] < TERMINAL_HEIGHT

\* The i-th character of d's text fits its region, and no control character is
\* before it; and it is shown where it belongs.
TextFits(d, i) == /\ i <= DomainWidth[d] /\ DomainHeight[d] > 0
                  /\ \A j \in 1..i : MESSAGE[d][j] # ESC
TextPlace(d, i) == <<DomainX[d] + i - 1, DomainY[d]>>
Shows(d, i) == /\ TextPlace(d, i) \in DOMAIN cells
               /\ cells[TextPlace(d, i)] = [char |-> MESSAGE[d][i], by |-> d]

\* On a terminal the regions fit, each client's text is shown in its own region,
\* whatever the other one does, as far as it fits and up to a control character
\* (display.c:94-143), and nothing else is shown there; a character is refused
\* only if it does not fit; the borders survive.  As long as two requests are not
\* served at a time each cell has its domain's colour.
TerminalKept ==
  /\ tinted => mixed
  /\ RegionsFit =>
       /\ \A d \in Domains :
            /\ todo[d] = <<>> => \A i \in 1..printedBy[d] : TextFits(d, i) => Shows(d, i)
            /\ clientEnd[d] => ~TextFits(d, printedBy[d])
       /\ \A q \in DOMAIN cells :
            LET d == cells[q].by
                x == q[1] - DomainX[d]
            IN  /\ q \in RegionOf(d) => /\ q[2] = DomainY[d]
                                        /\ cells[q].char = MESSAGE[d][x + 1]
                                        /\ \A i \in 1..(x + 1) : MESSAGE[d][i] # ESC
                /\ q \notin RegionOf(d) => cells[q].char \in {"+", "-", "|"}
                /\ \A e \in Domains \ {d} : q \notin RegionOf(e)

\* "Write a character to the display at position (x,y).  Returns 0 on success and
\* non-zero on failure" (Display.idl4).  Violated on a terminal with fewer rows
\* than a region starts at: the test of the row (display.c:108) lets the
\* character through, and it lands on the terminal's last row.
AcceptedIsShown ==
  \A d \in Domains : todo[d] = <<>> =>
    \A i \in 1..printedBy[d] : i < printedBy[d] \/ ~clientEnd[d] => Shows(d, i)

\* The string goes over the screen row by row, and on from the top when it is
\* full (vgadriver.c:91-100).
VgaKept ==
  \A i \in DOMAIN terminal_buffer :
    LET last == {n \in 1..(vgaNext - 1) : (n - 1) % (VGA_WIDTH * VGA_HEIGHT) = i}
    IN  terminal_buffer[i] = IF last = {} THEN " "
                             ELSE Welcome[CHOOSE n \in last : \A m \in last : m <= n]

\* Both text displays show what was written to them, where it was written.
TextDisplays == TerminalKept /\ VgaKept
=============================================================================
