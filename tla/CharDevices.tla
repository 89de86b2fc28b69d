----------------------------- MODULE CharDevices -----------------------------
(* keyboard, uart and uart_cogent: drivers of character devices and their    *)
(* clients.  The keyboard driver reads the data port in its interrupt        *)
(* handler, and once more when the client, told by an event, asks for the    *)
(* scan code.  The UART's client writes a message and prints what it reads   *)
(* until a 'q'; the driver of uart_cogent puts a carriage return before each *)
(* line feed of the message, and does not wait for a character.              *)
EXTENDS Integers, Sequences, FiniteSets

CONSTANTS
  UartMessage,        \* the string the client writes
  MaxCodes            \* bound: keys, and characters that reach the UART

ASSUME CharDevicesAssumption == MaxCodes \in Nat /\ UartMessage \in Seq(STRING)

VARIABLES
  dApp,               \* "keyboard", "uart" or "uart_cogent"
  keyCodes,           \* history: how many codes, numbered 1, 2 .., were sent
  dataPort, dataFull, \* the controller: the byte in it, and is it unread?
  kIrq, kMasked,      \* the interrupt, and is it not acknowledged?
  driver,             \* "idle", "emit", "ack"
  keypress,           \* the event
  callback,           \* the client: "none", "set", "run"
  seenByDriver, seenByClient,
  txReady, sent,      \* the UART: can it take a character; what it has sent
  rx, arrivedU,       \* its input, and a history of it
  uPc, uNext, crSent, \* the client; has uart_put_char called itself with '\r'?
  printedU

keyVars == <<keyCodes, dataPort, dataFull, kIrq, kMasked, driver, keypress,
             callback, seenByDriver, seenByClient>>
uartVars == <<txReady, sent, rx, arrivedU, uPc, uNext, crSent, printedU>>
deviceVars == <<dApp, keyVars, uartVars>>

Quit == "q"
Blank == "-1"         \* the character 0xff, -1 as a signed char
UartChars == {"x", Quit, Blank}
LineFeed == "LF"
Return == "CR"

\* kbd__init enables the keyboard, run registers the callback; uart__init only
\* prints.
CharDevicesInit ==
  /\ dApp \in {"keyboard", "uart", "uart_cogent"}
  /\ keyCodes = 0 /\ dataPort = 0 /\ dataFull = FALSE /\ kIrq = FALSE /\ kMasked = FALSE
  /\ driver = "idle" /\ keypress = FALSE /\ callback = "none"
  /\ seenByDriver = <<>> /\ seenByClient = <<>>
  /\ txReady = TRUE /\ sent = <<>> /\ rx = <<>> /\ arrivedU = <<>>
  /\ uPc = "write" /\ uNext = 1 /\ crSent = FALSE /\ printedU = <<>>
-----------------------------------------------------------------------------
(* keyboard                                                                  *)

\* The controller (external) takes a code when the last was read.
KeyCode ==
  /\ dApp = "keyboard" /\ keyCodes < MaxCodes /\ ~dataFull
  /\ keyCodes' = keyCodes + 1 /\ dataPort' = keyCodes + 1 /\ dataFull' = TRUE
  /\ kIrq' = TRUE
  /\ UNCHANGED <<dApp, kMasked, driver, keypress, callback, seenByDriver, seenByClient, uartVars>>

\* read_scancode: a read of an empty port gives the last byte again.
read_scancode == dataFull' = FALSE /\ UNCHANGED dataPort

\* interrupt_handle: read, emit, acknowledge.
interrupt_handle ==
  /\ dApp = "keyboard"
  /\ \/ /\ driver = "idle" /\ kIrq /\ ~kMasked
        /\ kIrq' = FALSE /\ kMasked' = TRUE /\ driver' = "emit"
        /\ read_scancode /\ seenByDriver' = Append(seenByDriver, dataPort)
        /\ UNCHANGED keypress
     \/ driver = "emit" /\ driver' = "ack" /\ keypress' = TRUE
        /\ UNCHANGED <<dataPort, dataFull, kIrq, kMasked, seenByDriver>>
     \/ driver = "ack" /\ driver' = "idle" /\ kMasked' = FALSE
        /\ UNCHANGED <<dataPort, dataFull, kIrq, keypress, seenByDriver>>
  /\ UNCHANGED <<dApp, keyCodes, callback, seenByClient, uartVars>>

\* keypress_reg_callback: an event that is there already is taken at once, a
\* later one runs the callback when it comes.
\* Mutant: the client drops an event of before its registration.
Register_fresh == callback = "none" /\ callback' = "set" /\ keypress' = FALSE
Register == callback = "none" /\ callback' = "set" /\ UNCHANGED keypress

KeyClient ==
  /\ dApp = "keyboard"
  /\ \/ Register /\ UNCHANGED <<dataPort, dataFull, seenByClient>>
     \/ callback = "set" /\ keypress /\ keypress' = FALSE /\ callback' = "run"
        /\ UNCHANGED <<dataPort, dataFull, seenByClient>>
     \/ callback = "run" /\ callback' = "none" /\ read_scancode
        /\ seenByClient' = Append(seenByClient, dataPort) /\ UNCHANGED keypress
  /\ UNCHANGED <<dApp, keyCodes, kIrq, kMasked, driver, seenByDriver, uartVars>>
-----------------------------------------------------------------------------
(* uart and uart_cogent                                                      *)

\* The device (external): it sends what it was given, and receives.
UartSends ==
  /\ ~txReady /\ txReady' = TRUE
  /\ UNCHANGED <<dApp, keyVars, sent, rx, arrivedU, uPc, uNext, crSent, printedU>>

UartReceives(c) ==
  /\ dApp # "keyboard" /\ Len(arrivedU) < MaxCodes
  /\ rx' = Append(rx, c) /\ arrivedU' = Append(arrivedU, c)
  /\ UNCHANGED <<dApp, keyVars, txReady, sent, uPc, uNext, crSent, printedU>>

\* uart's uart_put_char: wait for room, and send.
Transmit(c) == txReady /\ txReady' = FALSE /\ sent' = Append(sent, c)

\* The uart_put_char of uart_cogent first calls itself with a carriage return.
EndsLine(c) == dApp = "uart_cogent" /\ c = LineFeed
uart_put_char(c) ==
  \/ EndsLine(c) /\ ~crSent /\ Transmit(Return) /\ crSent' = TRUE /\ UNCHANGED uNext
  \/ (EndsLine(c) => crSent) /\ Transmit(c) /\ crSent' = FALSE /\ uNext' = uNext + 1

\* uart_write
UartWrite ==
  /\ dApp # "keyboard" /\ uPc = "write"
  /\ \/ uNext > Len(UartMessage) /\ uPc' = "read" /\ UNCHANGED <<txReady, sent, uNext, crSent>>
     \/ uNext <= Len(UartMessage) /\ uart_put_char(UartMessage[uNext]) /\ UNCHANGED uPc
  /\ UNCHANGED <<dApp, keyVars, rx, arrivedU, printedU>>

\* uart_get_char waits for a character.
uart_get_char == rx # <<>> /\ rx' = Tail(rx)

\* That of uart_cogent gives -1 when there is none.
NoCharacter == dApp = "uart_cogent" /\ rx = <<>> /\ UNCHANGED rx

\* The client of uart_cogent prints no -1.
Printed(c) ==
  printedU' = IF dApp = "uart_cogent" /\ c = Blank THEN printedU ELSE Append(printedU, c)

UartRead ==
  /\ uPc = "read"
  /\ \/ /\ uart_get_char
        /\ Printed(Head(rx))
        /\ uPc' = IF Head(rx) = Quit THEN "exit" ELSE "read"
     \/ NoCharacter /\ Printed(Blank) /\ UNCHANGED uPc
  /\ UNCHANGED <<dApp, keyVars, txReady, sent, arrivedU, uNext, crSent>>

CharDevicesNext ==
  \/ KeyCode \/ interrupt_handle \/ KeyClient
  \/ UartSends \/ UartWrite \/ UartRead \/ (\E c \in UartChars : UartReceives(c))
-----------------------------------------------------------------------------
Ordered(s) == \A i \in 1..(Len(s) - 1) : s[i] <= s[i + 1]
Quiet == driver = "idle" /\ ~kIrq /\ ~keypress /\ callback = "set"

\* Which of the first n characters that came are printed.
ToPrint(n) == {i \in 1..n : dApp # "uart_cogent" \/ arrivedU[i] # Blank}
TakenU == Len(arrivedU) - Len(rx)

\* Where the i-th character of the message is among those sent, when each line
\* feed has a carriage return of its own before it.
LineEndsUpTo(n) == {i \in 1..n : EndsLine(UartMessage[i])}
SentAt(i) == i + Cardinality(LineEndsUpTo(i))

\* What was sent is the message up to a character, or to the carriage return of
\* the next line feed, and nothing else; all of it before the client reads.
MessageOnLine ==
  /\ Len(sent) = SentAt(uNext - 1) + (IF crSent THEN 1 ELSE 0)
  /\ \A i \in 1..(uNext - 1) : sent[SentAt(i)] = UartMessage[i]
  /\ \A i \in LineEndsUpTo(uNext - 1) : sent[SentAt(i) - 1] = Return
  /\ crSent => sent[Len(sent)] = Return /\ EndsLine(UartMessage[uNext])
  /\ uPc # "write" => uNext = Len(UartMessage) + 1 /\ ~crSent

\* Although both the handler and the client read the data port, and may each
\* take a code the other was woken for, neither reports keys out of order, and
\* once nothing is under way the client has shown the last key pressed
\* (keyboard driver.c:57-75, main.c:10-16).  The UART's client has its whole
\* message sent, each line feed after one carriage return in uart_cogent
\* (serial.ac:145-155) and as it is in uart, then prints the characters that
\* came, in order, and stops at the first 'q'.
DevicesInOrder ==
  /\ Ordered(seenByDriver) /\ Ordered(seenByClient)
  /\ Quiet /\ keyCodes > 0 => /\ seenByClient # <<>>
                              /\ seenByClient[Len(seenByClient)] = keyCodes
  /\ MessageOnLine
  /\ Len(printedU) = Cardinality(ToPrint(TakenU))
  /\ \A i \in ToPrint(TakenU) : printedU[Cardinality(ToPrint(i))] = arrivedU[i]
  /\ \A i \in 1..Len(printedU) : printedU[i] = Quit => i = Len(printedU) /\ uPc = "exit"
=============================================================================
