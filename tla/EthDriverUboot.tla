--------------------------- MODULE EthDriverUboot ---------------------------
(* The U-Boot ethernet driver component of the security demo, and its twin   *)
(* in picoserver_uboot: one network device shared by several clients, each   *)
(* with a ring of received frames.  The component is single threaded, so     *)
(* each RPC is one step.  A client (external: PicoServer) waits for its      *)
(* notification and then calls client_rx until it no longer answers 1.       *)
EXTENDS Integers, Sequences, FiniteSets

CONSTANTS
  NumClients,
  CLIENT_RX_BUFS,   \* slots of a client's ring (128 in the code)
  FrameKinds,       \* frames that may arrive: records [mac, group, len]
  Configs,          \* MAC attributes the clients may be configured with
  HwMac,            \* the device's own address
  TxLens,           \* lengths clients ask client_tx to send
  MaxFrames         \* bound: how many frames arrive

BUF_SIZE == 2048
NoMac == "default"
BroadcastMac == "broadcast"
Clients == 1..NumClients

ASSUME SizesAssumption ==
  /\ NumClients \in Nat \ {0} /\ CLIENT_RX_BUFS \in Nat \ {0, 1} /\ MaxFrames \in Nat
  /\ TxLens \subseteq Int

VARIABLES
  config,      \* the MAC attribute of each client, or NoMac
  mac,         \* clients[i].mac
  done_init,
  halted,      \* server_init met a fatal error
  device,      \* frames received by the device and not read yet
  frameCount,  \* how many frames have arrived
  pending_rx,  \* each client's ring, oldest first
  notified,    \* the pending bit of each client's notification
  polling,     \* the client is going to call client_rx
  delivered,   \* history: frames handed to each client
  wire         \* history: what client_tx sent last, as <<client, length>>

ringVars == <<pending_rx, delivered>>
clientVars == <<notified, polling>>
initVars == <<config, mac, done_init, halted>>
driverVars == <<initVars, device, frameCount, ringVars, clientVars, wire>>

DriverInit ==
  /\ config \in Configs
  /\ mac = [c \in Clients |-> NoMac]
  /\ done_init = FALSE /\ halted = FALSE
  /\ device = <<>> /\ frameCount = 0
  /\ pending_rx = [c \in Clients |-> <<>>]
  /\ delivered = [c \in Clients |-> <<>>]
  /\ notified = [c \in Clients |-> FALSE]
  /\ polling = [c \in Clients |-> FALSE]
  /\ wire = <<>>
-----------------------------------------------------------------------------
\* server_init: the clients' addresses, at most one of them the device's own,
\* then a first notification to everybody.
server_init ==
  /\ ~done_init /\ ~halted
  /\ IF Cardinality({c \in Clients : config[c] = NoMac}) > 1
     THEN /\ halted' = TRUE
          /\ UNCHANGED <<mac, done_init, notified>>
     ELSE /\ mac' = [c \in Clients |->
                       IF config[c] = NoMac THEN HwMac ELSE config[c]]
          /\ done_init' = TRUE
          /\ notified' = [c \in Clients |-> TRUE]
          /\ UNCHANGED halted
  /\ UNCHANGED <<config, device, frameCount, ringVars, polling, wire>>

\* The device receives a frame (external); frames carry a serial number.
FrameArrives(kind) ==
  /\ frameCount < MaxFrames
  /\ frameCount' = frameCount + 1
  /\ device' = Append(device, [kind |-> kind, id |-> frameCount + 1])
  /\ UNCHANGED <<initVars, ringVars, clientVars, wire>>
-----------------------------------------------------------------------------
\* The clients whose address the frame carries; the code takes the first.
detect_client(k) ==
  IF k.len < 6 THEN {} ELSE {c \in Clients : mac[c] = k.mac}

is_broadcast(k) == k.len >= 6 /\ k.mac = BroadcastMac

\* A frame long enough for an IPv4 header whose destination is 224.0.0.0/4.
is_multicast(k) == k.len >= 34 /\ k.group

\* The clients whose ring a frame is offered to.
Targets(k) ==
  LET matching == detect_client(k)
  IN  IF matching # {} THEN {CHOOSE c \in matching : \A d \in matching : c <= d}
      ELSE IF is_broadcast(k) \/ is_multicast(k) THEN Clients
      ELSE {}

\* A frame that finds the ring full is dropped.
Offer(ring, frame) ==
  IF Len(ring) < CLIENT_RX_BUFS - 1 THEN Append(ring, frame) ELSE ring

Dispatch(rings, frame) ==
  [c \in Clients |-> IF c \in Targets(frame.kind) THEN Offer(rings[c], frame)
                                                  ELSE rings[c]]

\* How many frames the read loop takes: it ends on an empty device, and also
\* on a frame that is too long, which it frees.
TooLong(frame) == frame.kind.len > BUF_SIZE
LongAt == {i \in 1..Len(device) : TooLong(device[i])}
ReadCount ==
  IF LongAt = {} THEN Len(device) ELSE CHOOSE i \in LongAt : \A j \in LongAt : i <= j

\* The rings after the read loop of client_rx.
RingsAfterRead ==
  LET rings[i \in 0..ReadCount] ==
        IF i = 0 THEN pending_rx
        ELSE IF TooLong(device[i]) THEN rings[i - 1]
        ELSE Dispatch(rings[i - 1], device[i])
  IN  rings[ReadCount]

\* Mutant: a too long frame makes the loop free the frames behind it as well.
DeviceAfterRead_flushed == <<>>
DeviceAfterRead == SubSeq(device, ReadCount + 1, Len(device))

\* client_rx's answers.
Nothing == -1
LastFrame == 0
MoreFrames == 1

Answer(ring) == CASE ring = <<>>   -> Nothing
                  [] Len(ring) = 1 -> LastFrame
                  [] OTHER         -> MoreFrames

\* Mutant: no notification when the caller's ring was empty.
Emits_not_on_nothing(answer) == answer = LastFrame
Emits(answer) == answer \in {Nothing, LastFrame}

\* Mutant: the tail of the ring is not advanced when it gives its last frame.
Consume_keeps_last(ring) == IF Len(ring) <= 1 THEN ring ELSE Tail(ring)
Consume(ring) == IF ring = <<>> THEN ring ELSE Tail(ring)

\* The whole of client_rx, called by client c.
client_rx(c) ==
  /\ polling[c]
  /\ done_init
  /\ LET ring == RingsAfterRead[c]
         answer == Answer(ring)
     IN  /\ pending_rx' = [RingsAfterRead EXCEPT ![c] = Consume(ring)]
         /\ delivered' = IF ring = <<>> THEN delivered
                         ELSE [delivered EXCEPT ![c] = Append(@, Head(ring))]
         /\ notified' = [notified EXCEPT ![c] = @ \/ Emits(answer)]
         /\ polling' = [polling EXCEPT ![c] = answer = MoreFrames]
  /\ device' = DeviceAfterRead
  /\ UNCHANGED <<initVars, frameCount, wire>>

\* Before server_init the call fails; the client waits to be notified.
client_rx_uninitialised(c) ==
  /\ polling[c]
  /\ ~done_init
  /\ polling' = [polling EXCEPT ![c] = FALSE]
  /\ UNCHANGED <<initVars, device, frameCount, ringVars, notified, wire>>

\* The client takes its notification (external).
ClientWakes(c) ==
  /\ notified[c] /\ ~polling[c]
  /\ notified' = [notified EXCEPT ![c] = FALSE]
  /\ polling' = [polling EXCEPT ![c] = TRUE]
  /\ UNCHANGED <<initVars, device, frameCount, ringVars, wire>>

\* A client polls once when it starts, before any notification (external).
ClientStarts(c) ==
  /\ ~done_init /\ ~halted /\ ~polling[c]
  /\ polling' = [polling EXCEPT ![c] = TRUE]
  /\ UNCHANGED <<initVars, device, frameCount, ringVars, notified, wire>>

TxLength(len) == IF len > BUF_SIZE THEN BUF_SIZE ELSE len

\* client_tx when the driver sends the frame; every other answer (not
\* initialised, too short, the driver's send fails) changes nothing.
client_tx(c, len) ==
  /\ done_init
  /\ TxLength(len) >= 12
  /\ wire' = <<c, TxLength(len)>>
  /\ UNCHANGED <<initVars, device, frameCount, ringVars, clientVars>>
-----------------------------------------------------------------------------
ClientStep(c) == client_rx(c) \/ client_rx_uninitialised(c) \/ ClientWakes(c)

DriverNext ==
  \/ server_init
  \/ \E k \in FrameKinds : FrameArrives(k)
  \/ \E c \in Clients : \/ ClientStep(c) \/ ClientStarts(c)
                        \/ \E len \in TxLens : client_tx(c, len)

DriverSpec == DriverInit /\ [][DriverNext]_driverVars

\* The component initialises and the clients' polling threads run.
DriverFairness ==
  WF_driverVars(server_init) /\ \A c \in Clients : WF_driverVars(ClientStep(c))
-----------------------------------------------------------------------------
(* Properties                                                                *)

Frames == [kind : FrameKinds, id : 1..MaxFrames]

DriverTypeOK ==
  /\ config \in Configs
  /\ done_init \in BOOLEAN /\ halted \in BOOLEAN
  /\ device \in Seq(Frames) /\ frameCount \in 0..MaxFrames
  /\ \A c \in Clients : /\ pending_rx[c] \in Seq(Frames)
                        /\ Len(pending_rx[c]) < CLIENT_RX_BUFS
                        /\ delivered[c] \in Seq(Frames)
  /\ notified \in [Clients -> BOOLEAN] /\ polling \in [Clients -> BOOLEAN]
  /\ wire \in {<<>>} \cup (Clients \X (12..BUF_SIZE))

\* The emit in client_rx keeps every client polling: once initialised, each
\* client has its notification pending or is about to call client_rx again, so
\* frames dispatched by another client's call are always found.
PollingChainUnbroken ==
  done_init => \A c \in Clients : notified[c] \/ polling[c]

\* A client sees frames once and in the order the device received them,
\* whichever client's call moved them into the ring.
DeliveredInOrder ==
  \A c \in Clients :
    LET seen == delivered[c] \o pending_rx[c]
    IN  \A i, j \in 1..Len(seen) : i < j => seen[i].id < seen[j].id

\* A frame for one client alone is dropped only if that client's ring was full:
\* frames for others and over-long frames cannot make it disappear.
DroppedOnlyWhenFull ==
  [][\A i \in 1..Len(device) : \A c \in Clients :
       (/\ ~(\E j \in 1..Len(device') : device'[j] = device[i])
        /\ Targets(device[i].kind) = {c} /\ ~TooLong(device[i])
        /\ Len(pending_rx[c]) + Len(device) < CLIENT_RX_BUFS)
       => \E j \in 1..Len(delivered'[c] \o pending_rx'[c]) :
            (delivered'[c] \o pending_rx'[c])[j] = device[i]]_driverVars

\* Every frame the device received is eventually delivered, dropped or freed:
\* none stays in the device or in a ring for ever.  (No more than MaxFrames
\* arrive, so that each is settled when all are.)
Unsettled == device # <<>> \/ \E c \in Clients : pending_rx[c] # <<>>
EveryFrameSettled == DriverFairness => (Unsettled ~> halted \/ ~Unsettled)

\* "Read all received frames from the driver and copy them into the
\* client->pending_rx buffer" (eth_driver_uboot.c:132): after client_rx the
\* device holds no frame.
AllFramesRead ==
  [][\A c \in Clients : client_rx(c) => device' = <<>>]_driverVars
=============================================================================
