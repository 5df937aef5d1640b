------------------------------- MODULE Serial -------------------------------
(***************************************************************************)
(* The serial ports: the UART and its interrupt (uart.c, isa.c), the rings *)
(* between it and the tasks, the claim of a port, and the devices data,    *)
(* baud and the attributes (serial.c).                                     *)
(*                                                                         *)
(* WRITE and a change of the rate wait for the UART with interrupts off:   *)
(* until they are through nothing else runs, while bytes go on arriving.   *)
(* Bytes are numbered as they arrive.  A port has its interrupt line to    *)
(* itself.                                                                 *)
(***************************************************************************)
EXTENDS Integers, Sequences, SequencesExt

CONSTANTS
    Ports,            \* UARTs that answer the probe
    Clients,          \* tasks
    NoClient,         \* nobody
    FifoSize,         \* what the UART itself holds
    SerialRing,       \* SERIAL_RING_SIZE
    SerialMaxWaiters, \* SERIAL_MAX_WAITERS
    Chunks,           \* lengths of what is written and of buffers to read into
    Rates,            \* rates that are written to baud
    MaxArrivals,      \* bytes that arrive in one behaviour
    MaxSent           \* bytes given to WRITE in one behaviour

ASSUME SerialAssumption ==
    /\ NoClient \notin Clients
    /\ {FifoSize, SerialMaxWaiters} \subseteq Nat \ {0} /\ SerialRing \in Nat /\ SerialRing > 1
    /\ Chunks \subseteq Nat \ {0} /\ Rates \subseteq Nat

VARIABLES
    uart,             \* per port: received bytes, LSR's overrun bit, the interrupt, the transmitter and the divisor
    port,             \* uart_t: rx ring, its waiters, tx ring, the counters and the rate
    claim,            \* per port: serial_claims and serial_data_states
    client,           \* per task: what it is doing, and its handles
    cpu,              \* the task that runs with interrupts off
    arrived,          \* bytes that have arrived, per port
    taken,            \* bytes that READ has given, per port
    sent              \* bytes given to WRITE, and those on the line, per port

serialVars == <<uart, port, claim, client, cpu, arrived, taken, sent>>

UART_BASE_CLOCK == 1843200
Divisor(rate) == (UART_BASE_CLOCK \div rate) % 65536
CpuFree == cpu = NoClient

-----------------------------------------------------------------------------
(***************************************************************************)
(* The UART.                                                               *)
(***************************************************************************)
\* A byte arrives; the interrupt line goes up when there was none.
ByteArrives(p) ==
    /\ arrived[p] < MaxArrivals /\ arrived' = [arrived EXCEPT ![p] = @ + 1]
    /\ uart' = IF Len(uart[p].fifo) = FifoSize THEN [uart EXCEPT ![p].oe = TRUE]
               ELSE [uart EXCEPT ![p].fifo = Append(@, arrived[p] + 1),
                                 ![p].irq = @ \/ uart[p].fifo = <<>>]
    /\ UNCHANGED <<port, claim, client, cpu, taken, sent>>

\* The byte in the transmitter has gone out.
ByteSent(p) ==
    /\ ~uart[p].ready /\ uart' = [uart EXCEPT ![p].ready = TRUE]
    /\ UNCHANGED <<port, claim, client, cpu, arrived, taken, sent>>

\* A ring of which one place stays empty, and bytes that are pushed one after the
\* other: how many more there are than fit, and those that stay.
Excess(ring, bytes) == IF Len(ring \o bytes) < SerialRing THEN 0 ELSE Len(ring \o bytes) - SerialRing + 1
Latest(ring, bytes) == SubSeq(ring \o bytes, Excess(ring, bytes) + 1, Len(ring \o bytes))

\* As a bug: a byte that is dropped is not counted.
rx_ring_push_Silent(u, bytes) == [u EXCEPT !.rx = Latest(@, bytes)]

\* A full ring drops its oldest byte and counts it.
rx_ring_push(u, bytes) == [u EXCEPT !.rx = Latest(@, bytes), !.overruns = @ + Excess(u.rx, bytes)]

\* Every byte wakes all that wait.
serial_rx_push(u, bytes) ==
    [rx_ring_push(u, bytes) EXCEPT !.rxBytes = @ + Len(bytes),
                                   !.waiters = IF bytes = <<>> THEN @ ELSE <<>>]

\* serial_drain: all that the UART has.
serial_drain(u, fifo) == [u |-> serial_rx_push(u, fifo), fifo |-> <<>>]

\* The interrupt handler.
SerialIrq(p) ==
    /\ CpuFree /\ uart[p].irq
    /\ LET d == serial_drain(port[p], uart[p].fifo)
       IN  /\ port' = [port EXCEPT ![p] = [d.u EXCEPT !.overruns = IF uart[p].oe THEN @ + 1 ELSE @]]
           /\ uart' = [uart EXCEPT ![p].irq = FALSE, ![p].oe = FALSE, ![p].fifo = d.fifo]
    /\ client' = [t \in Clients |-> IF Contains(port[p].waiters, t) THEN [client[t] EXCEPT !.blocked = FALSE]
                                    ELSE client[t]]
    /\ UNCHANGED <<claim, cpu, arrived, taken, sent>>

-----------------------------------------------------------------------------
(***************************************************************************)
(* The data device.                                                        *)
(***************************************************************************)
claim_port(p) == ~claim[p].used

DataOpen(t, p) ==
    /\ CpuFree /\ client[t].at = "idle" /\ claim_port(p)
    /\ claim' = [claim EXCEPT ![p] = [used |-> TRUE, owner |-> t, data |-> t]]
    /\ client' = [client EXCEPT ![t].has = Append(@, p)]
    /\ UNCHANGED <<uart, port, cpu, arrived, taken, sent>>

release_port(c, t) == [used |-> FALSE, owner |-> NoClient, data |-> IF c.data = t THEN NoClient ELSE c.data]

DataClose(t, i) ==
    /\ CpuFree /\ client[t].at \in {"idle", "over"} /\ i \in DOMAIN client[t].has
    /\ claim' = [claim EXCEPT ![client[t].has[i]] = release_port(@, t)]
    /\ client' = [client EXCEPT ![t].has = RemoveAt(@, i)]
    /\ UNCHANGED <<uart, port, cpu, arrived, taken, sent>>

\* A task that has ended keeps its handles until it is reaped.
ClientEnds(t) ==
    /\ CpuFree /\ client[t].at = "idle" /\ client' = [client EXCEPT ![t].at = "over"]
    /\ UNCHANGED <<uart, port, claim, cpu, arrived, taken, sent>>

DataRead(t, p, len) ==
    /\ CpuFree /\ client[t].at = "idle" /\ Contains(client[t].has, p)
    /\ client' = [client EXCEPT ![t].at = "read", ![t].port = p, ![t].len = len]
    /\ UNCHANGED <<uart, port, claim, cpu, arrived, taken, sent>>

\* The loop of serial_data_read: all there is, or a wait for the next byte.
DataReadStep(t) ==
    LET p == client[t].port
        n == IF Len(port[p].rx) < client[t].len THEN Len(port[p].rx) ELSE client[t].len
    IN  /\ CpuFree /\ client[t].at = "read" /\ ~client[t].blocked
        /\ IF n > 0
           THEN /\ taken' = [taken EXCEPT ![p] = @ \o SubSeq(port[p].rx, 1, n)]
                /\ port' = [port EXCEPT ![p].rx = SubSeq(@, n + 1, Len(@))]
                /\ client' = [client EXCEPT ![t].at = "idle"]
           ELSE /\ port' = [port EXCEPT ![p].waiters = IF Len(@) < SerialMaxWaiters THEN Append(@, t) ELSE @]
                /\ client' = [client EXCEPT ![t].blocked = TRUE]
                /\ UNCHANGED taken
        /\ UNCHANGED <<uart, claim, cpu, arrived, sent>>

\* What does not fit pushes out the oldest bytes.
tx_ring_push(tx, bytes) == Latest(tx, bytes)

DataWrite(t, p, len) ==
    LET bytes == [i \in 1..len |-> sent[p].given + i]
    IN  /\ CpuFree /\ client[t].at = "idle" /\ Contains(client[t].has, p) /\ sent[p].given + len <= MaxSent
        /\ port' = [port EXCEPT ![p].tx = tx_ring_push(@, bytes), ![p].txBytes = @ + len]
        /\ sent' = [sent EXCEPT ![p].given = @ + len]
        /\ client' = [client EXCEPT ![t].at = "write", ![t].port = p]
        /\ cpu' = t
        /\ UNCHANGED <<uart, claim, arrived, taken>>

\* serial_data_write waits for the transmitter, byte by byte.
DataWriteStep(t) ==
    LET p == client[t].port
    IN  /\ cpu = t /\ client[t].at = "write"
        /\ IF port[p].tx = <<>>
           THEN /\ cpu' = NoClient /\ client' = [client EXCEPT ![t].at = "idle"]
                /\ UNCHANGED <<uart, port, sent>>
           ELSE /\ uart[p].ready /\ uart' = [uart EXCEPT ![p].ready = FALSE]
                /\ sent' = [sent EXCEPT ![p].out = Append(@, Head(port[p].tx))]
                /\ port' = [port EXCEPT ![p].tx = Tail(@)]
                /\ UNCHANGED <<cpu, client>>
        /\ UNCHANGED <<claim, arrived, taken>>

-----------------------------------------------------------------------------
(***************************************************************************)
(* The baud device, which anybody may open, and the attributes.            *)
(***************************************************************************)
BaudWrite(t, p, rate) ==
    /\ CpuFree /\ client[t].at = "idle"
    /\ rate # 0 /\ UART_BASE_CLOCK % rate = 0 /\ Divisor(rate) # 0
    /\ client' = [client EXCEPT ![t].at = "baud", ![t].port = p, ![t].len = rate]
    /\ cpu' = t
    /\ UNCHANGED <<uart, port, claim, arrived, taken, sent>>
BaudStep(t) ==
    LET p == client[t].port
    IN  /\ cpu = t /\ client[t].at = "baud" /\ uart[p].ready
        /\ uart' = [uart EXCEPT ![p].divisor = Divisor(client[t].len)]
        /\ port' = [port EXCEPT ![p].baud = client[t].len]
        /\ client' = [client EXCEPT ![t].at = "idle"] /\ cpu' = NoClient
        /\ UNCHANGED <<claim, arrived, taken, sent>>

-----------------------------------------------------------------------------
\* serial_register: what the probe finds, at its first rate.
SerialInit ==
    /\ uart = [p \in Ports |-> [fifo |-> <<>>, oe |-> FALSE, irq |-> FALSE, ready |-> TRUE,
                                divisor |-> Divisor(115200)]]
    /\ port = [p \in Ports |-> [rx |-> <<>>, waiters |-> <<>>, tx |-> <<>>, rxBytes |-> 0, txBytes |-> 0,
                                overruns |-> 0, baud |-> 115200]]
    /\ claim = [p \in Ports |-> [used |-> FALSE, owner |-> NoClient, data |-> NoClient]]
    /\ client = [t \in Clients |-> [at |-> "idle", port |-> CHOOSE p \in Ports : TRUE, len |-> 0, blocked |-> FALSE,
                                    has |-> <<>>]]
    /\ cpu = NoClient
    /\ arrived = [p \in Ports |-> 0] /\ taken = [p \in Ports |-> <<>>]
    /\ sent = [p \in Ports |-> [given |-> 0, out |-> <<>>]]

SerialNext ==
    \/ \E p \in Ports : ByteArrives(p) \/ ByteSent(p) \/ SerialIrq(p)
    \/ \E t \in Clients :
          \/ DataReadStep(t) \/ DataWriteStep(t) \/ BaudStep(t) \/ ClientEnds(t)
          \/ \E i \in 1..Len(client[t].has) : DataClose(t, i)
          \/ \E p \in Ports :
                \/ DataOpen(t, p)
                \/ \E n \in Chunks : DataRead(t, p, n) \/ DataWrite(t, p, n)
                \/ \E rate \in Rates : BaudWrite(t, p, rate)

SerialSpec == SerialInit /\ [][SerialNext]_serialVars

\* The transmitter empties, interrupts come, and what runs goes on.
SerialFairness ==
    /\ \A p \in Ports : WF_serialVars(ByteSent(p)) /\ SF_serialVars(SerialIrq(p))
    /\ \A t \in Clients : WF_serialVars(DataReadStep(t) \/ DataWriteStep(t) \/ BaudStep(t))

-----------------------------------------------------------------------------
\* A received byte that is lost shows in the overruns attribute: while that says
\* none, READ has given and will give all that has arrived, in its order
\* (serial.c:79-89, isa.c:25-27).
LossIsReported ==
    \A p \in Ports : port[p].overruns = 0 /\ ~uart[p].oe =>
        taken[p] \o port[p].rx \o uart[p].fifo = [i \in 1..arrived[p] |-> i]
=============================================================================
