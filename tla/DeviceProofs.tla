---------------------------- MODULE DeviceProofs ----------------------------
(***************************************************************************)
(* Three devices that several callers and an interrupt handler share: the  *)
(* bytes of a serial port, the modifiers of the keyboard, and the channel  *)
(* of two drives, for any number of tasks and any sizes; and the clock,    *)
(* for any date.                                                           *)
(***************************************************************************)
EXTENDS Serial, Keyboard, Drives, Clock, DataLemmas, SequenceTheorems

-----------------------------------------------------------------------------
(***************************************************************************)
(* Serial ports: bytes stay in their order, or their loss is counted.      *)
(***************************************************************************)
\* The library's fact about concatenation, for bytes.
LEMMA Concatenated == \A s, t, u \in Seq(Nat) : s \o t \in Seq(Nat) /\ (s \o t) \o u = s \o (t \o u)
  BY ConcatProperties, ConcatAssociative

\* The numbers of the first n bytes, in order.
UpTo(n) == [i \in 1..n |-> i]

\* What arrives next goes behind what came before.
LEMMA OneMore ==
    ASSUME NEW S \in Seq(Nat), NEW F \in Seq(Nat), NEW n \in Nat, S \o F = UpTo(n)
    PROVE  S \o Append(F, n + 1) = UpTo(n + 1)
<1> DEFINE A == S \o F
           B == S \o Append(F, n + 1)
           E == <<n + 1>>
           C == UpTo(n + 1)
<1>1. A \in Seq(Nat) /\ E \in Seq(Nat) /\ n + 1 \in Nat
  <2>1. A \in Seq(Nat)
    BY Concatenated, Zenon
  <2> QED  BY <2>1
<1>2. Append(F, n + 1) = F \o E
  BY <1>1, AppendIsConcat
<1>3. Append(A, n + 1) = A \o E
  BY <1>1, AppendIsConcat
<1>4. Len(A) = n /\ \A i \in 1..n : A[i] = i
  <2>1. DOMAIN A = 1..n
    BY DEF UpTo
  <2> QED  BY <2>1, <1>1, LenProperties DEF UpTo
<1>5. C \in Seq(Nat) /\ Len(C) = n + 1 /\ \A i \in 1..(n + 1) : C[i] = i
  BY FcnIsSeq, C \in [1..(n + 1) -> Nat] DEF UpTo
<1> HIDE DEF A, C, E
<1>6. S \o (F \o E) = A \o E
  <2>1. (S \o F) \o E = S \o (F \o E)
    BY <1>1, Concatenated
  <2> QED  BY <2>1 DEF A
<1>7. B = Append(A, n + 1)
  BY <1>2, <1>3, <1>6
<1> HIDE DEF B
<1>8. B \in Seq(Nat) /\ Len(B) = n + 1 /\ \A i \in 1..(n + 1) : B[i] = i
  <2>1. B \in Seq(Nat) /\ Len(B) = Len(A) + 1 /\ B[Len(A) + 1] = n + 1 /\ \A i \in 1..Len(A) : B[i] = A[i]
    BY <1>1, <1>7, AppendProperties
  <2> QED  BY <1>1, <1>4, <2>1
<1>9. B = C
  <2>1. \A i \in 1..Len(B) : B[i] = C[i]
    BY <1>5, <1>8
  <2>2. Len(B) = Len(C)
    BY <1>5, <1>8
  <2> QED  BY <1>5, <1>8, <2>1, <2>2, SeqEqual, Zenon
<1> QED  BY <1>9 DEF B, C

\* Bytes stay in their order when some go from the front of one queue to the end of
\* the queue before it.
LEMMA HandedOn ==
    ASSUME NEW T \in Seq(Nat), NEW R \in Seq(Nat), NEW n \in 0..Len(R)
    PROVE  (T \o SubSeq(R, 1, n)) \o SubSeq(R, n + 1, Len(R)) = T \o R
<1> DEFINE P == SubSeq(R, 1, n)
           Q == SubSeq(R, n + 1, Len(R))
<1>0. Len(R) \in Nat /\ \A i \in 1..Len(R) : R[i] \in Nat
  BY LenProperties, ElementOfSeq
<1>1. 1 \in 1..(Len(R) + 1) /\ n \in (1 - 1)..Len(R) /\ Len(R) \in n..Len(R)
  BY <1>0
<1>2. SubSeq(R, 1, n) \o SubSeq(R, n + 1, Len(R)) = SubSeq(R, 1, Len(R))
  BY <1>1, ConcatAdjacentSubSeq, Zenon
<1>3. P \o Q = R
  BY <1>2, SubSeqFull, Zenon
<1>4. P \in Seq(Nat) /\ Q \in Seq(Nat)
  BY <1>0, SubSeqProperties
<1> HIDE DEF P, Q
<1>5. (T \o P) \o Q = T \o (P \o Q)
  BY <1>4, Concatenated
<1> QED  BY <1>3, <1>5 DEF P, Q

\* All of the first queue goes.
LEMMA AllHandedOn ==
    ASSUME NEW T \in Seq(Nat), NEW R \in Seq(Nat), NEW F \in Seq(Nat)
    PROVE  (T \o SubSeq(R \o F, 1, Len(R \o F))) \o <<>> = (T \o R) \o F
<1> DEFINE A == R \o F
           TA == T \o A
<1>1. A \in Seq(Nat)
  BY ConcatProperties
<1>2. (T \o R) \o F = TA
  BY Concatenated
<1> HIDE DEF A
<1>3. SubSeq(A, 1, Len(A)) = A
  BY <1>1, SubSeqFull, Zenon
<1>4. TA \in Seq(Nat)
  BY <1>1, ConcatProperties
<1>5. TA \o <<>> = TA
  <2> HIDE DEF TA
  <2> QED  BY <1>4, ConcatEmptySeq, Zenon
<1> QED  BY <1>2, <1>3, <1>5 DEF A

\* The records of a port and of a task.
Bytes == Seq(Nat)
Uarts == [fifo : Bytes, oe : BOOLEAN, irq : BOOLEAN, ready : BOOLEAN, divisor : Int]
PortRecs == [rx : Bytes, waiters : Seq(Clients), tx : Bytes, rxBytes : Nat, txBytes : Nat, overruns : Nat, baud : Nat]
ClientRecs == [at : {"idle", "over", "read", "write", "baud"}, port : Ports, len : Nat, blocked : BOOLEAN, has : Seq(Ports)]

ClientsOK ==
    /\ client \in [Clients -> ClientRecs]
    /\ \A t \in Clients : client[t].at = "baud" => client[t].len # 0
SerialTypeOK ==
    /\ uart \in [Ports -> Uarts] /\ port \in [Ports -> PortRecs] /\ ClientsOK
    /\ arrived \in [Ports -> Nat] /\ taken \in [Ports -> Bytes] /\ sent \in [Ports -> [given : Nat, out : Bytes]]

\* What has been read, what the ring has and what the UART has, if nothing was lost.
InOrder(p) ==
    port[p].overruns = 0 /\ ~uart[p].oe =>
        taken[p] \o port[p].rx \o uart[p].fifo = UpTo(arrived[p])
SerialInv == SerialTypeOK /\ \A p \in Ports : InOrder(p)

\* The ring keeps the latest bytes.
LEMMA LatestAreBytes ==
    ASSUME NEW r \in Seq(Nat), NEW b \in Seq(Nat)
    PROVE  Latest(r, b) \in Seq(Nat) /\ Excess(r, b) \in Nat
<1> DEFINE all == r \o b
           x == Excess(r, b)
<1>1. all \in Seq(Nat) /\ Len(all) \in Nat
  BY ConcatProperties, LenProperties
<1>2. x \in Nat
  BY <1>1, SerialAssumption DEF Excess
<1>3. Latest(r, b) = SubSeq(all, x + 1, Len(all))
  BY DEF Latest
<1> HIDE DEF x, all
<1>4. \A i \in (x + 1)..Len(all) : all[i] \in Nat
  BY <1>1, <1>2, ElementOfSeq
<1>5. SubSeq(all, x + 1, Len(all)) \in Seq(Nat)
  BY <1>1, <1>2, <1>4, SubSeqProperties
<1> QED  BY <1>2, <1>3, <1>5 DEF x

\* A drain loses nothing or counts what it loses.
LEMMA DrainCounts ==
    ASSUME NEW u \in PortRecs, NEW fifo \in Bytes, NEW T \in Bytes
    PROVE  LET d == serial_drain(u, fifo)
           IN  /\ d.u \in PortRecs /\ d.fifo = <<>>
               /\ d.u.overruns = 0 => u.overruns = 0 /\ (T \o d.u.rx) \o <<>> = (T \o u.rx) \o fifo
<1> DEFINE x == Excess(u.rx, fifo)
           rx == Latest(u.rx, fifo)
<1>1. u.rx \in Seq(Nat) /\ fifo \in Seq(Nat) /\ T \in Seq(Nat) /\ u.overruns \in Nat /\ u.rxBytes \in Nat
  BY DEF Bytes, PortRecs
<1>2. rx \in Seq(Nat) /\ x \in Nat /\ Len(fifo) \in Nat /\ <<>> \in Seq(Clients)
  BY <1>1, LatestAreBytes, LenProperties
<1>3. /\ serial_drain(u, fifo).fifo = <<>>
      /\ serial_drain(u, fifo).u = [u EXCEPT !.rx = rx, !.overruns = u.overruns + x, !.rxBytes = u.rxBytes + Len(fifo),
                                             !.waiters = IF fifo = <<>> THEN u.waiters ELSE <<>>]
  BY DEF serial_drain, serial_rx_push, rx_ring_push, PortRecs
<1>4. x = 0 => (T \o rx) \o <<>> = (T \o u.rx) \o fifo
  <2>1. (T \o SubSeq(u.rx \o fifo, 1, Len(u.rx \o fifo))) \o <<>> = (T \o u.rx) \o fifo
    BY <1>1, AllHandedOn
  <2>2. x = 0 => rx = SubSeq(u.rx \o fifo, 1, Len(u.rx \o fifo))
    BY DEF Latest
  <2> QED  BY <2>1, <2>2
<1> HIDE DEF x, rx
<1>5. u.overruns + x \in Nat /\ u.rxBytes + Len(fifo) \in Nat /\ (u.overruns + x = 0 => u.overruns = 0 /\ x = 0)
  BY <1>1, <1>2
<1> QED  BY <1>1, <1>2, <1>3, <1>4, <1>5 DEF PortRecs, Bytes

\* The divisor of a rate is a number.
LEMMA DivisorIsInt == \A rate \in Nat \ {0} : Divisor(rate) \in Int
<1> SUFFICES ASSUME NEW rate \in Nat \ {0} PROVE Divisor(rate) \in Int
  OBVIOUS
<1> DEFINE q == UART_BASE_CLOCK \div rate
<1>1. UART_BASE_CLOCK \in Nat
  BY SMT DEF UART_BASE_CLOCK
<1>2. q \in Int
  BY <1>1, SMT
<1> HIDE DEF q
<1>3. q % 65536 \in Int
  BY <1>2, SMT
<1> QED  BY <1>3, SMT DEF Divisor, q

\* Nothing has arrived at first.
LEMMA SerialInvInit == Ports # {} /\ SerialInit => SerialInv
<1> SUFFICES ASSUME Ports # {}, SerialInit PROVE SerialInv
  OBVIOUS
<1>1. Divisor(115200) \in Int
  BY DivisorIsInt, SMT
<1>2. (CHOOSE p \in Ports : TRUE) \in Ports
  OBVIOUS
<1>3. <<>> \in Seq(Nat) /\ <<>> \in Seq(Clients) /\ <<>> \in Seq(Ports)
  OBVIOUS
<1>4. SerialTypeOK
  <2>1. uart \in [Ports -> Uarts]
    BY <1>1, <1>3, SMT DEF SerialInit, Uarts, Bytes
  <2>2. port \in [Ports -> PortRecs]
    BY <1>3, SMT DEF SerialInit, PortRecs, Bytes
  <2>3. client \in [Clients -> ClientRecs] /\ \A t \in Clients : client[t].at = "idle"
    BY <1>2, <1>3 DEF SerialInit, ClientRecs
  <2>4. arrived \in [Ports -> Nat] /\ taken \in [Ports -> Bytes] /\ sent \in [Ports -> [given : Nat, out : Bytes]]
    BY <1>3 DEF SerialInit, Bytes
  <2> QED  BY <2>1, <2>2, <2>3, <2>4 DEF SerialTypeOK, ClientsOK
<1>5. ASSUME NEW p \in Ports PROVE InOrder(p)
  <2>1. taken[p] = <<>> /\ port[p].rx = <<>> /\ uart[p].fifo = <<>> /\ arrived[p] = 0
    BY DEF SerialInit
  <2>2. <<>> \o <<>> \o <<>> = <<>>
    BY <1>3, ConcatEmptySeq
  <2>3. UpTo(0) = <<>>
    BY DEF UpTo
  <2> QED  BY <2>1, <2>2, <2>3 DEF InOrder
<1> QED  BY <1>4, <1>5 DEF SerialInv

\* What touches none of the bytes received keeps their order.
LEMMA OrderKept ==
    ASSUME SerialInv, SerialTypeOK', arrived' = arrived, taken' = taken,
           \A p \in Ports : /\ port'[p].rx = port[p].rx /\ port'[p].overruns = port[p].overruns
                            /\ uart'[p].fifo = uart[p].fifo /\ uart'[p].oe = uart[p].oe
    PROVE  SerialInv'
  BY DEF SerialInv, InOrder

\* A task that goes to another place.
LEMMA ClientGoes ==
    ASSUME SerialInv, NEW t \in Clients, NEW c \in ClientRecs, c.at = "baud" => c.len # 0,
           client' = [client EXCEPT ![t] = c]
    PROVE  ClientsOK'
  BY DEF SerialInv, SerialTypeOK, ClientsOK

\* A byte arrives: the FIFO takes it, or the UART notes an overrun.
LEMMA ArrivalInOrder == ASSUME NEW p \in Ports PROVE SerialInv /\ ByteArrives(p) => SerialInv'
<1> SUFFICES ASSUME SerialInv, ByteArrives(p) PROVE SerialInv'
  OBVIOUS
<1>1. /\ uart[p] \in Uarts /\ uart[p].fifo \in Seq(Nat) /\ arrived[p] \in Nat
      /\ taken[p] \in Seq(Nat) /\ port[p].rx \in Seq(Nat)
  BY DEF SerialInv, SerialTypeOK, Uarts, PortRecs, Bytes
<1> DEFINE more == Append(uart[p].fifo, arrived[p] + 1)
<1>2. more \in Seq(Nat)
  BY <1>1, AppendProperties
<1>3. UNCHANGED <<port, claim, client, cpu, taken, sent>>
  BY DEF ByteArrives
<1>4. arrived' \in [Ports -> Nat] /\ \A q \in Ports : arrived'[q] = IF q = p THEN arrived[p] + 1 ELSE arrived[q]
  BY <1>1 DEF ByteArrives, SerialInv, SerialTypeOK
<1>5. CASE Len(uart[p].fifo) = FifoSize
  <2>1. uart' = [uart EXCEPT ![p].oe = TRUE]
    BY <1>5 DEF ByteArrives
  <2>2. uart' \in [Ports -> Uarts] /\ uart'[p].oe /\ \A q \in Ports \ {p} : uart'[q] = uart[q]
    BY <2>1 DEF SerialInv, SerialTypeOK, Uarts
  <2> QED  BY <1>3, <1>4, <2>2 DEF SerialInv, SerialTypeOK, ClientsOK, InOrder
<1>6. CASE Len(uart[p].fifo) # FifoSize
  <2>1. uart' = [uart EXCEPT ![p].fifo = more, ![p].irq = @ \/ uart[p].fifo = <<>>]
    BY <1>6 DEF ByteArrives
  <2>2. /\ uart' \in [Ports -> Uarts] /\ uart'[p].fifo = more /\ uart'[p].oe = uart[p].oe
        /\ \A q \in Ports \ {p} : uart'[q] = uart[q]
    <3> HIDE DEF more
    <3> QED  BY <1>2, <2>1 DEF SerialInv, SerialTypeOK, Uarts, Bytes
  <2>3. InOrder(p)'
    <3>0. arrived'[p] = arrived[p] + 1 /\ port'[p] = port[p] /\ taken'[p] = taken[p]
      BY <1>3, <1>4
    <3> HIDE DEF more
    <3> SUFFICES ASSUME port[p].overruns = 0, ~uart[p].oe
                 PROVE  taken[p] \o port[p].rx \o more = UpTo(arrived[p] + 1)
      BY <3>0, <2>2 DEF InOrder
    <3> DEFINE S == taken[p] \o port[p].rx
    <3>1. S \in Seq(Nat)
      BY <1>1, ConcatProperties
    <3>2. S \o uart[p].fifo = UpTo(arrived[p])
      BY DEF SerialInv, InOrder
    <3> HIDE DEF S
    <3>3. S \o more = UpTo(arrived[p] + 1)
      BY <1>1, <3>1, <3>2, OneMore DEF more
    <3> QED  BY <3>3 DEF S
  <2>4. \A q \in Ports \ {p} : InOrder(q)'
    BY <1>3, <1>4, <2>2 DEF SerialInv, InOrder
  <2> QED  BY <1>3, <1>4, <2>2, <2>3, <2>4 DEF SerialInv, SerialTypeOK, ClientsOK
<1> QED  BY <1>5, <1>6

\* The interrupt handler moves the FIFO into the ring.
LEMMA IrqInOrder == ASSUME NEW p \in Ports PROVE SerialInv /\ SerialIrq(p) => SerialInv'
<1> SUFFICES ASSUME SerialInv, SerialIrq(p) PROVE SerialInv'
  OBVIOUS
<1> DEFINE d == serial_drain(port[p], uart[p].fifo)
           u == [d.u EXCEPT !.overruns = IF uart[p].oe THEN d.u.overruns + 1 ELSE d.u.overruns]
<1>1. port[p] \in PortRecs /\ uart[p].fifo \in Bytes /\ taken[p] \in Bytes
  BY DEF SerialInv, SerialTypeOK, Uarts
<1>2. /\ d.u \in PortRecs /\ d.fifo = <<>>
      /\ d.u.overruns = 0 => /\ port[p].overruns = 0
                             /\ (taken[p] \o d.u.rx) \o <<>> = (taken[p] \o port[p].rx) \o uart[p].fifo
  BY <1>1, DrainCounts
<1>3. /\ port' = [port EXCEPT ![p] = u] /\ uart' = [uart EXCEPT ![p].irq = FALSE, ![p].oe = FALSE, ![p].fifo = d.fifo]
      /\ client' = [t \in Clients |-> IF Contains(port[p].waiters, t) THEN [client[t] EXCEPT !.blocked = FALSE]
                                      ELSE client[t]]
      /\ UNCHANGED <<claim, cpu, arrived, taken, sent>>
  BY DEF SerialIrq
<1> HIDE DEF d
<1>4. u \in PortRecs /\ u.rx = d.u.rx /\ (u.overruns = 0 => ~uart[p].oe /\ d.u.overruns = 0)
  BY <1>2 DEF PortRecs
<1> HIDE DEF u
<1>5. <<>> \in Bytes
  BY DEF Bytes
<1>6. /\ uart' \in [Ports -> Uarts] /\ uart'[p].fifo = <<>> /\ \A q \in Ports \ {p} : uart'[q] = uart[q]
      /\ port' \in [Ports -> PortRecs] /\ port'[p] = u /\ \A q \in Ports \ {p} : port'[q] = port[q]
  <2>1. uart \in [Ports -> Uarts] /\ port \in [Ports -> PortRecs]
    BY DEF SerialInv, SerialTypeOK
  <2>2. uart' \in [Ports -> Uarts] /\ uart'[p].fifo = <<>> /\ \A q \in Ports \ {p} : uart'[q] = uart[q]
    BY <1>2, <1>3, <1>5, <2>1 DEF Uarts
  <2>3. port' \in [Ports -> PortRecs] /\ port'[p] = u /\ \A q \in Ports \ {p} : port'[q] = port[q]
    BY <1>3, <1>4, <2>1
  <2> QED  BY <2>2, <2>3
<1>7. client' \in [Clients -> ClientRecs] /\ \A t \in Clients : client'[t].at = client[t].at /\ client'[t].len = client[t].len
  BY <1>3 DEF SerialInv, SerialTypeOK, ClientsOK, ClientRecs
<1>8. SerialTypeOK'
  BY <1>3, <1>6, <1>7 DEF SerialInv, SerialTypeOK, ClientsOK
<1>9. InOrder(p)'
  <2>1. arrived'[p] = arrived[p] /\ taken'[p] = taken[p]
    BY <1>3
  <2> SUFFICES ASSUME u.overruns = 0 PROVE taken[p] \o u.rx \o <<>> = UpTo(arrived[p])
    BY <2>1, <1>6 DEF InOrder
  <2>2. ~uart[p].oe /\ port[p].overruns = 0 /\ u.rx = d.u.rx
    BY <1>2, <1>4
  <2> QED  BY <2>2, <1>2, <1>4 DEF SerialInv, InOrder
<1>10. \A q \in Ports \ {p} : InOrder(q)'
  BY <1>3, <1>6 DEF SerialInv, InOrder
<1> QED  BY <1>8, <1>9, <1>10 DEF SerialInv

\* READ takes from the front of the ring, after what the FIFO still has was drained.
LEMMA ReadInOrder == ASSUME NEW t \in Clients PROVE SerialInv /\ DataReadStep(t) => SerialInv'
<1> SUFFICES ASSUME SerialInv, DataReadStep(t) PROVE SerialInv'
  OBVIOUS
<1> DEFINE p == client[t].port
           rx == port[p].rx
           n == IF Len(port[p].rx) < client[t].len THEN Len(port[p].rx) ELSE client[t].len
<1>1. p \in Ports /\ client[t] \in ClientRecs /\ client[t].len \in Nat
  BY DEF SerialInv, SerialTypeOK, ClientsOK, ClientRecs
<1>2. /\ port[p] \in PortRecs /\ rx \in Seq(Nat) /\ taken[p] \in Seq(Nat) /\ port[p].waiters \in Seq(Clients)
      /\ uart[p].fifo \in Seq(Nat)
  BY <1>1 DEF SerialInv, SerialTypeOK, PortRecs, Uarts, Bytes
<1>3. n \in 0..Len(rx) /\ Len(rx) \in Nat
  BY <1>1, <1>2, LenProperties
<1>4. UNCHANGED <<uart, claim, cpu, arrived, sent>>
  BY DEF DataReadStep
<1>5. CASE n > 0
  <2> DEFINE given == taken[p] \o SubSeq(rx, 1, n)
             left == SubSeq(rx, n + 1, Len(rx))
  <2>1. /\ taken' = [taken EXCEPT ![p] = given] /\ port' = [port EXCEPT ![p].rx = left]
        /\ client' = [client EXCEPT ![t].at = "idle"]
    BY <1>5 DEF DataReadStep
  <2>2. SubSeq(rx, 1, n) \in Seq(Nat) /\ left \in Seq(Nat)
    <3>1. \A i \in 1..Len(rx) : rx[i] \in Nat
      BY <1>2, ElementOfSeq
    <3>2. n \in Int /\ n + 1 \in Int /\ \A i \in 1..n : i \in 1..Len(rx)
      BY <1>3
    <3>3. \A i \in (n + 1)..Len(rx) : i \in 1..Len(rx)
      BY <1>3
    <3> HIDE DEF n, rx
    <3> QED  BY <1>3, <3>1, <3>2, <3>3, SubSeqProperties
  <2>3. given \in Seq(Nat)
    BY <1>2, <2>2, Concatenated, Zenon
  <2>4. given \o left = taken[p] \o rx
    <3> HIDE DEF n, rx, p
    <3> QED  BY <1>2, <1>3, HandedOn
  <2> HIDE DEF given, left
  <2>5. /\ port' \in [Ports -> PortRecs] /\ port'[p].rx = left /\ port'[p].overruns = port[p].overruns
        /\ \A q \in Ports \ {p} : port'[q] = port[q]
    BY <1>1, <2>1, <2>2 DEF SerialInv, SerialTypeOK, PortRecs, Bytes
  <2>6. taken' \in [Ports -> Bytes] /\ taken'[p] = given /\ \A q \in Ports \ {p} : taken'[q] = taken[q]
    BY <1>1, <2>1, <2>3 DEF SerialInv, SerialTypeOK, Bytes
  <2>7. client' \in [Clients -> ClientRecs] /\ \A x \in Clients : client'[x].at = "baud" => client'[x] = client[x]
    BY <2>1 DEF SerialInv, SerialTypeOK, ClientsOK, ClientRecs
  <2>8. SerialTypeOK'
    BY <1>4, <2>5, <2>6, <2>7 DEF SerialInv, SerialTypeOK, ClientsOK
  <2>9. \A q \in Ports : InOrder(q)'
    BY <1>1, <1>4, <2>4, <2>5, <2>6 DEF SerialInv, InOrder
  <2> QED  BY <2>8, <2>9 DEF SerialInv
<1>6. CASE ~(n > 0)
  <2> DEFINE ws == IF Len(port[p].waiters) < SerialMaxWaiters THEN Append(port[p].waiters, t) ELSE port[p].waiters
  <2>1. /\ port' = [port EXCEPT ![p].waiters = ws] /\ client' = [client EXCEPT ![t].blocked = TRUE]
        /\ taken' = taken
    BY <1>6 DEF DataReadStep
  <2>2. ws \in Seq(Clients)
    BY <1>2, AppendProperties
  <2> HIDE DEF ws
  <2>3. /\ port' \in [Ports -> PortRecs]
        /\ \A q \in Ports : port'[q].rx = port[q].rx /\ port'[q].overruns = port[q].overruns
    BY <1>1, <2>1, <2>2 DEF SerialInv, SerialTypeOK, PortRecs
  <2>4. client' \in [Clients -> ClientRecs] /\ \A x \in Clients : client'[x].at = client[x].at /\ client'[x].len = client[x].len
    BY <2>1 DEF SerialInv, SerialTypeOK, ClientsOK, ClientRecs
  <2>5. SerialTypeOK'
    BY <1>4, <2>1, <2>3, <2>4 DEF SerialInv, SerialTypeOK, ClientsOK
  <2> QED  BY <1>4, <2>1, <2>3, <2>5, OrderKept
<1> QED  BY <1>5, <1>6

\* The other steps of a task leave the bytes that were received where they are.
LEMMA OthersKeepOrder ==
    ASSUME NEW t \in Clients, SerialInv
    PROVE  \/ DataWriteStep(t) \/ BaudStep(t) \/ ClientEnds(t)
           \/ \E i \in 1..Len(client[t].has) : DataClose(t, i)
           \/ \E p \in Ports : DataOpen(t, p)
           \/ \E p \in Ports, n \in Chunks : DataRead(t, p, n) \/ DataWrite(t, p, n)
           \/ \E p \in Ports, rate \in Rates : BaudWrite(t, p, rate)
           => SerialInv'
<1>1. client[t] \in ClientRecs /\ client[t].port \in Ports /\ client[t].has \in Seq(Ports) /\ client[t].len \in Nat
      /\ (client[t].at = "baud" => client[t].len # 0)
  BY DEF SerialInv, SerialTypeOK, ClientsOK, ClientRecs
<1>2. ASSUME DataWriteStep(t) PROVE SerialInv'
  <2> DEFINE p == client[t].port
  <2>1. /\ UNCHANGED <<claim, arrived, taken>> /\ port[p] \in PortRecs /\ port[p].tx \in Seq(Nat)
    BY <1>1, <1>2 DEF DataWriteStep, SerialInv, SerialTypeOK, PortRecs, Bytes
  <2>2. CASE port[p].tx = <<>>
    <3>1. UNCHANGED <<uart, port, sent>> /\ client' = [client EXCEPT ![t].at = "idle"]
      BY <1>2, <2>2 DEF DataWriteStep
    <3>3. ClientsOK'
      <4> DEFINE c == [client[t] EXCEPT !.at = "idle"]
      <4>1. c \in ClientRecs /\ (c.at = "baud" => c.len # 0)
        BY <1>1 DEF ClientRecs
      <4>2. client' = [client EXCEPT ![t] = c]
        BY <3>1
      <4> HIDE DEF c
      <4> QED  BY <4>1, <4>2, ClientGoes
    <3>2. SerialTypeOK'
      BY <2>1, <3>1, <3>3 DEF SerialInv, SerialTypeOK
    <3> QED  BY <2>1, <3>1, <3>2, OrderKept
  <2>3. CASE port[p].tx # <<>>
    <3>1. /\ uart' = [uart EXCEPT ![p].ready = FALSE] /\ port' = [port EXCEPT ![p].tx = Tail(port[p].tx)]
          /\ UNCHANGED client
      BY <1>2, <2>3 DEF DataWriteStep
    <3> DEFINE rest == Tail(port[p].tx)
    <3> DEFINE out == Append(sent[p].out, Head(port[p].tx))
    <3>2. rest \in Bytes /\ out \in Bytes
      <4>1. rest \in Bytes /\ Head(port[p].tx) \in Nat
        BY <2>1, <2>3, HeadTailProperties DEF Bytes
      <4>2. sent[p].out \in Seq(Nat)
        BY <1>1 DEF SerialInv, SerialTypeOK, Bytes
      <4> QED  BY <4>1, <4>2, AppendProperties DEF Bytes
    <3>5. sent' = [sent EXCEPT ![p].out = out]
      BY <1>2, <2>3 DEF DataWriteStep
    <3> HIDE DEF rest, out
    <3>3. /\ uart' \in [Ports -> Uarts] /\ port' \in [Ports -> PortRecs]
          /\ \A q \in Ports : /\ port'[q].rx = port[q].rx /\ port'[q].overruns = port[q].overruns
                              /\ uart'[q].fifo = uart[q].fifo /\ uart'[q].oe = uart[q].oe
      <4>1. port' = [port EXCEPT ![p].tx = rest]
        BY <3>1 DEF rest
      <4>2. uart \in [Ports -> Uarts] /\ port \in [Ports -> PortRecs]
        BY DEF SerialInv, SerialTypeOK
      <4>3. uart' \in [Ports -> Uarts] /\ \A q \in Ports : uart'[q].fifo = uart[q].fifo /\ uart'[q].oe = uart[q].oe
        BY <1>1, <3>1, <4>2 DEF Uarts
      <4>4. port' \in [Ports -> PortRecs] /\ \A q \in Ports : port'[q].rx = port[q].rx /\ port'[q].overruns = port[q].overruns
        BY <1>1, <3>2, <4>1, <4>2 DEF PortRecs
      <4> QED  BY <4>3, <4>4
    <3>6. sent' \in [Ports -> [given : Nat, out : Bytes]]
      BY <1>1, <3>2, <3>5 DEF SerialInv, SerialTypeOK
    <3>4. SerialTypeOK'
      BY <2>1, <3>1, <3>3, <3>6 DEF SerialInv, SerialTypeOK, ClientsOK
    <3> QED  BY <2>1, <3>3, <3>4, OrderKept
  <2> QED  BY <2>2, <2>3
<1>3. ASSUME BaudStep(t) PROVE SerialInv'
  <2> DEFINE p == client[t].port
  <2>1. /\ uart' = [uart EXCEPT ![p].divisor = Divisor(client[t].len)] /\ port' = [port EXCEPT ![p].baud = client[t].len]
        /\ client' = [client EXCEPT ![t].at = "idle"] /\ UNCHANGED <<claim, arrived, taken, sent>>
        /\ client[t].at = "baud"
    BY <1>3 DEF BaudStep
  <2>2. Divisor(client[t].len) \in Int
    BY <1>1, <2>1, DivisorIsInt
  <2>3. /\ uart' \in [Ports -> Uarts] /\ port' \in [Ports -> PortRecs]
        /\ \A q \in Ports : /\ port'[q].rx = port[q].rx /\ port'[q].overruns = port[q].overruns
                            /\ uart'[q].fifo = uart[q].fifo /\ uart'[q].oe = uart[q].oe
    <3>1. uart \in [Ports -> Uarts] /\ port \in [Ports -> PortRecs]
      BY DEF SerialInv, SerialTypeOK
    <3>2. uart' \in [Ports -> Uarts] /\ \A q \in Ports : uart'[q].fifo = uart[q].fifo /\ uart'[q].oe = uart[q].oe
      BY <1>1, <2>1, <2>2, <3>1 DEF Uarts
    <3>3. port' \in [Ports -> PortRecs] /\ \A q \in Ports : port'[q].rx = port[q].rx /\ port'[q].overruns = port[q].overruns
      BY <1>1, <2>1, <3>1 DEF PortRecs
    <3> QED  BY <3>2, <3>3
  <2>5. ClientsOK'
    <3> DEFINE c == [client[t] EXCEPT !.at = "idle"]
    <3>1. c \in ClientRecs /\ (c.at = "baud" => c.len # 0)
      BY <1>1 DEF ClientRecs
    <3>2. client' = [client EXCEPT ![t] = c]
      BY <2>1
    <3> HIDE DEF c
    <3> QED  BY <3>1, <3>2, ClientGoes
  <2>4. SerialTypeOK'
    BY <2>1, <2>3, <2>5 DEF SerialInv, SerialTypeOK
  <2> QED  BY <2>1, <2>3, <2>4, OrderKept
<1>4. ASSUME ClientEnds(t) PROVE SerialInv'
  <2>1. client' = [client EXCEPT ![t].at = "over"] /\ UNCHANGED <<uart, port, arrived, taken, sent>>
    BY <1>4 DEF ClientEnds
  <2>3. ClientsOK'
    <3> DEFINE c == [client[t] EXCEPT !.at = "over"]
    <3>1. c \in ClientRecs /\ (c.at = "baud" => c.len # 0)
      BY <1>1 DEF ClientRecs
    <3>2. client' = [client EXCEPT ![t] = c]
      BY <2>1
    <3> HIDE DEF c
    <3> QED  BY <3>1, <3>2, ClientGoes
  <2>2. SerialTypeOK'
    BY <2>1, <2>3 DEF SerialInv, SerialTypeOK
  <2> QED  BY <2>1, <2>2, OrderKept
<1>5. ASSUME NEW i \in 1..Len(client[t].has), DataClose(t, i) PROVE SerialInv'
  <2> DEFINE less == RemoveAt(client[t].has, i)
  <2>1. client' = [client EXCEPT ![t].has = less] /\ UNCHANGED <<uart, port, arrived, taken, sent>>
    BY <1>5 DEF DataClose
  <2>2. less \in Seq(Ports)
    <3> DEFINE s == client[t].has
    <3>1. s \in Seq(Ports) /\ Len(s) \in Nat /\ \A k \in 1..Len(s) : s[k] \in Ports
      BY <1>1, LenProperties, ElementOfSeq
    <3> HIDE DEF s
    <3>2. i \in 1..Len(s)
      BY DEF s
    <3>3. SubSeq(s, 1, i - 1) \in Seq(Ports) /\ SubSeq(s, i + 1, Len(s)) \in Seq(Ports)
      BY <3>1, <3>2, SubSeqProperties
    <3>4. SubSeq(s, 1, i - 1) \o SubSeq(s, i + 1, Len(s)) \in Seq(Ports)
      BY <3>3, ConcatProperties
    <3> QED  BY <3>4 DEF RemoveAt, s
  <2> HIDE DEF less
  <2>4. ClientsOK'
    <3> DEFINE c == [client[t] EXCEPT !.has = less]
    <3>1. c \in ClientRecs /\ (c.at = "baud" => c.len # 0)
      BY <1>1, <2>2 DEF ClientRecs
    <3>2. client' = [client EXCEPT ![t] = c]
      BY <2>1
    <3> HIDE DEF c
    <3> QED  BY <3>1, <3>2, ClientGoes
  <2>3. SerialTypeOK'
    BY <2>1, <2>4 DEF SerialInv, SerialTypeOK
  <2> QED  BY <2>1, <2>3, OrderKept
<1>6. ASSUME NEW p \in Ports, DataOpen(t, p) PROVE SerialInv'
  <2>1. client' = [client EXCEPT ![t].has = Append(client[t].has, p)] /\ UNCHANGED <<uart, port, arrived, taken, sent>>
    BY <1>6 DEF DataOpen
  <2>2. Append(client[t].has, p) \in Seq(Ports)
    BY <1>1, AppendProperties
  <2>4. ClientsOK'
    <3> DEFINE c == [client[t] EXCEPT !.has = Append(client[t].has, p)]
    <3>1. c \in ClientRecs /\ (c.at = "baud" => c.len # 0)
      BY <1>1, <2>2 DEF ClientRecs
    <3>2. client' = [client EXCEPT ![t] = c]
      BY <2>1
    <3> HIDE DEF c
    <3> QED  BY <3>1, <3>2, ClientGoes
  <2>3. SerialTypeOK'
    BY <2>1, <2>4 DEF SerialInv, SerialTypeOK
  <2> QED  BY <2>1, <2>3, OrderKept
<1>7. ASSUME NEW p \in Ports, NEW n \in Chunks, DataRead(t, p, n) PROVE SerialInv'
  <2>1. /\ client' = [client EXCEPT ![t].at = "read", ![t].port = p, ![t].len = n] /\ n \in Nat
        /\ UNCHANGED <<uart, port, arrived, taken, sent>>
    BY <1>7, SerialAssumption DEF DataRead
  <2>3. ClientsOK'
    <3> DEFINE c == [client[t] EXCEPT !.at = "read", !.port = p, !.len = n]
    <3>1. c \in ClientRecs /\ (c.at = "baud" => c.len # 0)
      BY <1>1, <2>1 DEF ClientRecs
    <3>2. client' = [client EXCEPT ![t] = c]
      BY <2>1
    <3> HIDE DEF c
    <3> QED  BY <3>1, <3>2, ClientGoes
  <2>2. SerialTypeOK'
    BY <2>1, <2>3 DEF SerialInv, SerialTypeOK
  <2> QED  BY <2>1, <2>2, OrderKept
<1>8. ASSUME NEW p \in Ports, NEW n \in Chunks, DataWrite(t, p, n) PROVE SerialInv'
  <2> DEFINE bytes == [i \in 1..n |-> sent[p].given + i]
             tx == tx_ring_push(port[p].tx, bytes)
  <2>1. /\ port' = [port EXCEPT ![p].tx = tx, ![p].txBytes = port[p].txBytes + n]
        /\ client' = [client EXCEPT ![t].at = "write", ![t].port = p] /\ n \in Nat
        /\ sent' = [sent EXCEPT ![p].given = sent[p].given + n] /\ UNCHANGED <<uart, arrived, taken>>
    BY <1>8, SerialAssumption DEF DataWrite
  <2>2. tx \in Bytes /\ sent' \in [Ports -> [given : Nat, out : Bytes]]
    <3>1. sent[p] \in [given : Nat, out : Bytes] /\ port[p].tx \in Seq(Nat)
      BY DEF SerialInv, SerialTypeOK, PortRecs, Bytes
    <3>2. bytes \in [1..n -> Nat]
      BY <2>1, <3>1
    <3>3. bytes \in Seq(Nat)
      BY <2>1, <3>2, FcnIsSeq
    <3> HIDE DEF bytes
    <3>4. tx \in Bytes
      BY <3>1, <3>3, LatestAreBytes DEF Bytes, tx_ring_push
    <3>5. sent' \in [Ports -> [given : Nat, out : Bytes]]
      <4>1. sent \in [Ports -> [given : Nat, out : Bytes]] /\ sent[p].given + n \in Nat
        BY <2>1, <3>1 DEF SerialInv, SerialTypeOK
      <4> HIDE DEF tx
      <4> QED  BY <2>1, <4>1
    <3> QED  BY <3>4, <3>5
  <2> HIDE DEF tx
  <2>3. /\ port' \in [Ports -> PortRecs]
        /\ \A q \in Ports : port'[q].rx = port[q].rx /\ port'[q].overruns = port[q].overruns
    <3>1. port \in [Ports -> PortRecs] /\ port[p].txBytes + n \in Nat
      BY <2>1 DEF SerialInv, SerialTypeOK, PortRecs
    <3> DEFINE u == [port[p] EXCEPT !.tx = tx, !.txBytes = port[p].txBytes + n]
    <3>2. u \in PortRecs /\ u.rx = port[p].rx /\ u.overruns = port[p].overruns
      BY <2>2, <3>1 DEF PortRecs
    <3>3. port' = [port EXCEPT ![p] = u]
      BY <2>1
    <3> HIDE DEF u
    <3> QED  BY <3>1, <3>2, <3>3
  <2>5. ClientsOK'
    <3> DEFINE c == [client[t] EXCEPT !.at = "write", !.port = p]
    <3>1. c \in ClientRecs /\ (c.at = "baud" => c.len # 0)
      BY <1>1 DEF ClientRecs
    <3>2. client' = [client EXCEPT ![t] = c]
      BY <2>1
    <3> HIDE DEF c
    <3> QED  BY <3>1, <3>2, ClientGoes
  <2>4. SerialTypeOK'
    BY <2>1, <2>2, <2>3, <2>5 DEF SerialInv, SerialTypeOK
  <2> QED  BY <2>1, <2>3, <2>4, OrderKept
<1>9. ASSUME NEW p \in Ports, NEW rate \in Rates, BaudWrite(t, p, rate) PROVE SerialInv'
  <2>1. /\ client' = [client EXCEPT ![t].at = "baud", ![t].port = p, ![t].len = rate] /\ rate \in Nat /\ rate # 0
        /\ UNCHANGED <<uart, port, arrived, taken, sent>>
    BY <1>9, SerialAssumption DEF BaudWrite
  <2>3. ClientsOK'
    <3> DEFINE c == [client[t] EXCEPT !.at = "baud", !.port = p, !.len = rate]
    <3>1. c \in ClientRecs /\ (c.at = "baud" => c.len # 0)
      BY <1>1, <2>1 DEF ClientRecs
    <3>2. client' = [client EXCEPT ![t] = c]
      BY <2>1
    <3> HIDE DEF c
    <3> QED  BY <3>1, <3>2, ClientGoes
  <2>2. SerialTypeOK'
    BY <2>1, <2>3 DEF SerialInv, SerialTypeOK
  <2> QED  BY <2>1, <2>2, OrderKept
<1> QED  BY <1>2, <1>3, <1>4, <1>5, <1>6, <1>7, <1>8, <1>9

\* While the counter says that no byte was lost, none was: what READ has given, what
\* the ring holds and what the UART holds are all that has arrived, in its order
\* (serial.c:74-89, isa.c:21-49), for any rings, ports and tasks.
THEOREM LossesReported == SerialSpec => []LossIsReported
<1>1. CASE Ports = {}
  <2>1. LossIsReported
    BY <1>1 DEF LossIsReported
  <2> QED  BY <2>1, PTL
<1>2. CASE Ports # {}
  <2>1. SerialInit => SerialInv
    BY <1>2, SerialInvInit
  <2>2. SerialInv /\ [SerialNext]_serialVars => SerialInv'
    <3> SUFFICES ASSUME SerialInv, [SerialNext]_serialVars PROVE SerialInv'
      OBVIOUS
    <3>1. CASE UNCHANGED serialVars
      BY <3>1 DEF SerialInv, SerialTypeOK, ClientsOK, InOrder, serialVars
    <3>2. ASSUME NEW p \in Ports, ByteSent(p) PROVE SerialInv'
      <4>1. uart' = [uart EXCEPT ![p].ready = TRUE] /\ UNCHANGED <<port, client, arrived, taken, sent>>
        BY <3>2 DEF ByteSent
      <4>2. /\ uart' \in [Ports -> Uarts]
            /\ \A q \in Ports : uart'[q].fifo = uart[q].fifo /\ uart'[q].oe = uart[q].oe
        BY <4>1 DEF SerialInv, SerialTypeOK, Uarts
      <4>3. SerialTypeOK'
        BY <4>1, <4>2 DEF SerialInv, SerialTypeOK, ClientsOK
      <4> QED  BY <4>1, <4>2, <4>3, OrderKept
    <3> QED  BY <3>1, <3>2, ArrivalInOrder, IrqInOrder, ReadInOrder, OthersKeepOrder DEF SerialNext
  <2>3. SerialInv => LossIsReported
    BY DEF SerialInv, InOrder, LossIsReported, UpTo
  <2> QED  BY <2>1, <2>2, <2>3, PTL DEF SerialSpec
<1> QED  BY <1>1, <1>2

-----------------------------------------------------------------------------
(***************************************************************************)
(* The keyboard: a modifier that is on is a key that is down.              *)
(***************************************************************************)
Codes == DOMAIN Plain
KbdBytes == [code : Codes \union {"E0", "E1"}, up : BOOLEAN]
Modifiers == [extended : BOOLEAN, pause : 0..5, shift : BOOLEAN, ctrl : BOOLEAN, num : BOOLEAN]

\* The modifiers that are on are keys that are down, but for a key whose release is on the wire.
Accounted(released) ==
    /\ ps2.shift => "lshift" \in down \union released
    /\ ps2.ctrl => {"lctrl", "rctrl"} \cap (down \union released) # {}
Resting == ps2.pause = 0 /\ ~ps2.extended

\* The key that a scancode stands for after a prefix.
Prefixed(c) == IF c = "x1D" THEN "rctrl" ELSE "print"

\* What is on the wire: nothing; a scancode; a prefix and a scancode; a scancode whose
\* prefix was read; the pause key's burst; what is left of the burst.
NothingOnWire == Len(wire) = 0 /\ Resting /\ Accounted({})
ScancodeOnWire(c, up) ==
    /\ Len(wire) = 1 /\ wire[1] = Scancode(c, up) /\ Resting
    /\ Accounted(IF up THEN {Plain[c]} ELSE {}) /\ (~up => Plain[c] \in down)
PrefixOnWire(c, up) ==
    /\ Len(wire) = 2 /\ wire[1] = E0 /\ wire[2] = Scancode(c, up) /\ Resting
    /\ Accounted(IF up THEN {Prefixed(c)} ELSE {}) /\ (~up => Prefixed(c) \in down)
PrefixWasRead(c, up) ==
    /\ Len(wire) = 1 /\ wire[1] = Scancode(c, up) /\ ps2.pause = 0 /\ ps2.extended
    /\ Accounted(IF up THEN {Prefixed(c)} ELSE {}) /\ (~up => Prefixed(c) \in down)
BurstOnWire == Len(wire) = 6 /\ wire[1] = E1 /\ Resting /\ Accounted({})
BurstWasBegun == Len(wire) \in 1..5 /\ ps2.pause = Len(wire) /\ ~ps2.extended /\ Accounted({})

OnWire ==
    \/ NothingOnWire \/ BurstOnWire \/ BurstWasBegun
    \/ \E c \in Codes, up \in BOOLEAN : ScancodeOnWire(c, up)
    \/ \E c \in {"x1D", "x2A"}, up \in BOOLEAN : PrefixOnWire(c, up) \/ PrefixWasRead(c, up)

KbdInv == wire \in Seq(KbdBytes) /\ ps2 \in Modifiers /\ down \subseteq Keys \ {"pause"} /\ OnWire

\* Nothing is held before the first key.
LEMMA KbdInvInit == KbdInit => KbdInv
  BY DEF KbdInit, KbdInv, OnWire, NothingOnWire, Resting, Accounted, Modifiers

\* What the tables say.
LEMMA Tables ==
    /\ \A c \in Codes : /\ keycode(FALSE, c) = Plain[c] /\ c # "E0" /\ c # "E1"
                       /\ Plain[c] \notin {"rctrl", "print", "pause"}
    /\ \A c, d \in Codes : Plain[c] = Plain[d] => c = d
    /\ keycode(TRUE, "x1D") = "rctrl" /\ keycode(TRUE, "x2A") = "none"
    /\ "x1D" \in Codes /\ "x2A" \in Codes /\ "x45" \in Codes
<1>1. Codes = {"x1C", "x1D", "x1E", "x20", "x0E", "x2A", "x45", "x29"}
  BY DEF Codes, Plain
<1>2. /\ Plain["x1C"] = "enter" /\ Plain["x1D"] = "lctrl" /\ Plain["x1E"] = "a" /\ Plain["x20"] = "d"
      /\ Plain["x0E"] = "backspace" /\ Plain["x2A"] = "lshift" /\ Plain["x45"] = "numlock" /\ Plain["x29"] = "none"
  BY DEF Plain
<1>3. \A c \in Codes : keycode(FALSE, c) = Plain[c]
  BY DEF keycode, KeyTable, Codes
<1>4. keycode(TRUE, "x1D") = "rctrl" /\ keycode(TRUE, "x2A") = "none"
  BY DEF keycode, KeyTable, Extended
<1>5. \A c \in Codes : c # "E0" /\ c # "E1"
  BY <1>1
<1>6. \A c \in Codes : Plain[c] \notin {"rctrl", "print", "pause"}
  BY <1>1, <1>2
<1>7. \A c, d \in Codes : Plain[c] = Plain[d] => c = d
  BY <1>1, <1>2
<1>8. "x1D" \in Codes /\ "x2A" \in Codes /\ "x45" \in Codes
  BY <1>1
<1> QED  BY <1>3, <1>4, <1>5, <1>6, <1>7, <1>8

\* The bytes are bytes, and the prefixes are not scancodes.
LEMMA BytesSent ==
    /\ E0 \in KbdBytes /\ E1 \in KbdBytes /\ E0 # E1
    /\ \A c \in Codes, up \in BOOLEAN : /\ Scancode(c, up) \in KbdBytes
                                       /\ Scancode(c, up) # E0 /\ Scancode(c, up) # E1
                                       /\ Scancode(c, up).code = c /\ Scancode(c, up).up = up
    /\ Scancode("x1D", FALSE) \in KbdBytes /\ Scancode("x45", FALSE) \in KbdBytes
    /\ Scancode("x1D", TRUE) \in KbdBytes /\ Scancode("x45", TRUE) \in KbdBytes
<1>1. E0 \in KbdBytes /\ E1 \in KbdBytes /\ E0 # E1
  BY DEF E0, E1, KbdBytes
<1>2. ASSUME NEW c \in Codes, NEW up \in BOOLEAN
      PROVE  /\ Scancode(c, up) \in KbdBytes /\ Scancode(c, up) # E0 /\ Scancode(c, up) # E1
             /\ Scancode(c, up).code = c /\ Scancode(c, up).up = up
  BY Tables DEF Scancode, E0, E1, KbdBytes
<1>3. /\ Scancode("x1D", FALSE) \in KbdBytes /\ Scancode("x45", FALSE) \in KbdBytes
      /\ Scancode("x1D", TRUE) \in KbdBytes /\ Scancode("x45", TRUE) \in KbdBytes
  BY Tables DEF Scancode, KbdBytes
<1> QED  BY <1>1, <1>2, <1>3

\* What a key sends.
LEMMA SentIs ==
    ASSUME NEW k \in Keys, NEW up \in BOOLEAN, up => k # "pause"
    PROVE  /\ Sent(k, up) \in Seq(KbdBytes)
           /\ \/ /\ k = "pause" /\ Len(Sent(k, up)) = 6 /\ Sent(k, up)[1] = E1
              \/ \E c \in {"x1D", "x2A"} : /\ k = Prefixed(c) /\ Len(Sent(k, up)) = 2
                                          /\ Sent(k, up)[1] = E0 /\ Sent(k, up)[2] = Scancode(c, up)
              \/ \E c \in Codes : k = Plain[c] /\ Len(Sent(k, up)) = 1 /\ Sent(k, up)[1] = Scancode(c, up)
<1>1. CASE k = "pause"
  <2>1. Sent(k, up) = <<E1, Scancode("x1D", FALSE), Scancode("x45", FALSE), E1, Scancode("x1D", TRUE), Scancode("x45", TRUE)>>
    BY <1>1 DEF Sent
  <2> DEFINE d == Scancode("x1D", FALSE)
             n == Scancode("x45", FALSE)
             e == Scancode("x1D", TRUE)
             m == Scancode("x45", TRUE)
  <2>2. E1 \in KbdBytes /\ d \in KbdBytes /\ n \in KbdBytes /\ e \in KbdBytes /\ m \in KbdBytes
    BY BytesSent
  <2> HIDE DEF d, n, e, m
  <2>3. <<E1, d, n, E1, e, m>> \in Seq(KbdBytes) /\ Len(<<E1, d, n, E1, e, m>>) = 6 /\ <<E1, d, n, E1, e, m>>[1] = E1
    BY <2>2
  <2> QED  BY <1>1, <2>1, <2>3 DEF d, n, e, m
<1>2. CASE k = "rctrl"
  <2>1. Sent(k, up) = <<E0, Scancode("x1D", up)>>
    BY <1>2 DEF Sent
  <2>2. E0 \in KbdBytes /\ Scancode("x1D", up) \in KbdBytes
    BY BytesSent, Tables
  <2>3. Sent(k, up) \in Seq(KbdBytes) /\ Len(Sent(k, up)) = 2 /\ Sent(k, up)[1] = E0 /\ Sent(k, up)[2] = Scancode("x1D", up)
    BY <2>1, <2>2
  <2>4. k = Prefixed("x1D")
    BY <1>2 DEF Prefixed
  <2> QED  BY <2>3, <2>4
<1>3. CASE k = "print"
  <2>1. Sent(k, up) = <<E0, Scancode("x2A", up)>>
    BY <1>3 DEF Sent
  <2>2. E0 \in KbdBytes /\ Scancode("x2A", up) \in KbdBytes
    BY BytesSent, Tables
  <2>3. Sent(k, up) \in Seq(KbdBytes) /\ Len(Sent(k, up)) = 2 /\ Sent(k, up)[1] = E0 /\ Sent(k, up)[2] = Scancode("x2A", up)
    BY <2>1, <2>2
  <2>4. k = Prefixed("x2A")
    BY <1>3 DEF Prefixed
  <2> QED  BY <2>3, <2>4
<1>4. CASE k \notin {"pause", "rctrl", "print"}
  <2>1. PICK c \in Codes : Plain[c] = k
    BY <1>4, KeysAssumption DEF Codes
  <2>2. (CHOOSE x \in DOMAIN Plain : Plain[x] = k) = c
    BY <2>1, Tables DEF Codes
  <2>3. Sent(k, up) = <<Scancode(c, up)>>
    BY <1>4, <2>2 DEF Sent
  <2>4. Scancode(c, up) \in KbdBytes
    BY BytesSent
  <2> QED  BY <2>1, <2>3, <2>4
<1> QED  BY <1>1, <1>2, <1>3, <1>4

\* A key goes down: what it sends is on the wire, and it is down.
LEMMA KeyDownAccounted == ASSUME NEW k \in Keys PROVE KbdInv /\ KeyDown(k) => KbdInv'
<1> SUFFICES ASSUME KbdInv, KeyDown(k) PROVE KbdInv'
  OBVIOUS
<1>1. wire = <<>> /\ Resting /\ Accounted({})
  <2>1. wire \in Seq(KbdBytes) /\ Len(wire) = 0 /\ wire = <<>>
    BY DEF KeyDown, KbdInv
  <2> QED  BY <2>1 DEF KbdInv, OnWire, NothingOnWire, ScancodeOnWire, PrefixOnWire, PrefixWasRead, BurstOnWire, BurstWasBegun
<1>2. wire' = Sent(k, FALSE) /\ ps2' = ps2 /\ down' = down \union (IF k = "pause" THEN {} ELSE {k})
  <2>1. Sent(k, FALSE) \in Seq(KbdBytes)
    BY SentIs
  <2>2. <<>> \o Sent(k, FALSE) = Sent(k, FALSE)
    BY <2>1, ConcatEmptySeq
  <2> QED  BY <1>1, <2>2 DEF KeyDown
<1>3. Resting' /\ Accounted({})'
  BY <1>1, <1>2 DEF Resting, Accounted
<1>4. wire' \in Seq(KbdBytes) /\ ps2' \in Modifiers /\ down' \subseteq Keys \ {"pause"}
  BY <1>2, SentIs DEF KbdInv
<1>5. OnWire'
  <2>1. CASE k = "pause" /\ Len(wire') = 6 /\ wire'[1] = E1
    BY <1>3, <2>1 DEF OnWire, BurstOnWire
  <2>2. ASSUME NEW c \in {"x1D", "x2A"}, k = Prefixed(c), Len(wire') = 2, wire'[1] = E0, wire'[2] = Scancode(c, FALSE)
        PROVE  OnWire'
    <3>1. Prefixed(c) \in down'
      BY <1>2, <2>2 DEF Prefixed
    <3> QED  BY <1>3, <2>2, <3>1 DEF OnWire, PrefixOnWire
  <2>3. ASSUME NEW c \in Codes, k = Plain[c], Len(wire') = 1, wire'[1] = Scancode(c, FALSE) PROVE OnWire'
    <3>1. Plain[c] \in down'
      BY <1>2, <2>3, Tables
    <3> QED  BY <1>3, <2>3, <3>1 DEF OnWire, ScancodeOnWire
  <2> QED  BY <1>2, <2>1, <2>2, <2>3, SentIs
<1> QED  BY <1>4, <1>5 DEF KbdInv

\* A key comes up: its release is on the wire.
LEMMA KeyUpAccounted == ASSUME NEW k \in Keys PROVE KbdInv /\ KeyUp(k) => KbdInv'
<1> SUFFICES ASSUME KbdInv, KeyUp(k) PROVE KbdInv'
  OBVIOUS
<1>1. wire = <<>> /\ Resting /\ Accounted({}) /\ k # "pause"
  <2>1. wire \in Seq(KbdBytes) /\ Len(wire) = 0 /\ wire = <<>> /\ k # "pause"
    BY DEF KeyUp, KbdInv
  <2> QED  BY <2>1 DEF KbdInv, OnWire, NothingOnWire, ScancodeOnWire, PrefixOnWire, PrefixWasRead, BurstOnWire, BurstWasBegun
<1>2. wire' = Sent(k, TRUE) /\ ps2' = ps2 /\ down' = down \ {k}
  <2>1. Sent(k, TRUE) \in Seq(KbdBytes)
    BY <1>1, SentIs
  <2>2. <<>> \o Sent(k, TRUE) = Sent(k, TRUE)
    BY <2>1, ConcatEmptySeq
  <2> QED  BY <1>1, <2>2 DEF KeyUp
<1>3. Resting' /\ Accounted({k})'
  BY <1>1, <1>2 DEF Resting, Accounted
<1>4. wire' \in Seq(KbdBytes) /\ ps2' \in Modifiers /\ down' \subseteq Keys \ {"pause"}
  BY <1>1, <1>2, SentIs DEF KbdInv
<1>5. OnWire'
  <2>1. ASSUME NEW c \in {"x1D", "x2A"}, k = Prefixed(c), Len(wire') = 2, wire'[1] = E0, wire'[2] = Scancode(c, TRUE)
        PROVE  OnWire'
    BY <1>3, <2>1 DEF OnWire, PrefixOnWire
  <2>2. ASSUME NEW c \in Codes, k = Plain[c], Len(wire') = 1, wire'[1] = Scancode(c, TRUE) PROVE OnWire'
    BY <1>3, <2>2 DEF OnWire, ScancodeOnWire
  <2> QED  BY <1>1, <1>2, <2>1, <2>2, SentIs
<1> QED  BY <1>4, <1>5 DEF KbdInv

\* What the handler does with the modifiers, when it is not in the pause key's burst.
LEMMA DecodeIs ==
    ASSUME ps2 \in Modifiers, NEW key, NEW pressed \in BOOLEAN
    PROVE  /\ Decode(key, pressed) \in Modifiers /\ ~Decode(key, pressed).extended
           /\ Decode(key, pressed).pause = ps2.pause
           /\ Decode(key, pressed).shift = IF key = "lshift" THEN pressed ELSE ps2.shift
           /\ Decode(key, pressed).ctrl = IF key \in {"lctrl", "rctrl"} THEN pressed ELSE ps2.ctrl
  BY DEF Decode, Held, Modifiers

\* A scancode is read: the key it stands for is accounted for by itself.
LEMMA ScancodeAccounted ==
    ASSUME KbdInv, NEW key, NEW up \in BOOLEAN, down' = down, ps2' = Decode(key, ~up), ps2.pause = 0,
           Accounted(IF up THEN {key} ELSE {}), ~up => key \in down \/ key = "none"
    PROVE  Resting' /\ Accounted({})' /\ ps2' \in Modifiers
<1>0. ps2 \in Modifiers
  BY DEF KbdInv
<1>1. (~up) \in BOOLEAN
  OBVIOUS
<1>2. /\ ps2' \in Modifiers /\ ~ps2'.extended /\ ps2'.pause = 0
      /\ ps2'.shift = IF key = "lshift" THEN ~up ELSE ps2.shift
      /\ ps2'.ctrl = IF key \in {"lctrl", "rctrl"} THEN ~up ELSE ps2.ctrl
  BY <1>0, <1>1, DecodeIs
<1>3. CASE up
  BY <1>2, <1>3 DEF Resting, Accounted
<1>4. CASE ~up
  BY <1>2, <1>4 DEF Resting, Accounted
<1> QED  BY <1>3, <1>4

\* The handler reads the next byte, whatever the wire has.
LEMMA IrqAccounted == KbdInv /\ ps2_irq1_handler => KbdInv'
<1> SUFFICES ASSUME KbdInv, ps2_irq1_handler PROVE KbdInv'
  OBVIOUS
<1>1. wire \in Seq(KbdBytes) /\ wire # <<>> /\ wire' = Tail(wire) /\ down' = down
  BY DEF KbdInv, ps2_irq1_handler
<1>2. /\ wire' \in Seq(KbdBytes) /\ Len(wire) \in Nat \ {0} /\ Len(wire') = Len(wire) - 1 /\ Head(wire) = wire[1]
      /\ \A i \in 1..(Len(wire) - 1) : wire'[i] = wire[i + 1]
  BY <1>1
<1>3. ps2.pause > 0 => ps2' = [ps2 EXCEPT !.pause = @ - 1]
  BY DEF ps2_irq1_handler
<1>4. ~(ps2.pause > 0) /\ wire[1] = E1 => ps2' = [ps2 EXCEPT !.extended = FALSE, !.pause = 5]
  BY <1>2 DEF ps2_irq1_handler
<1>5. ~(ps2.pause > 0) /\ wire[1] = E0 => ps2' = [ps2 EXCEPT !.extended = TRUE]
  BY <1>2, BytesSent DEF ps2_irq1_handler
<1>6. ASSUME NEW c \in Codes, NEW up \in BOOLEAN, wire[1] = Scancode(c, up), ps2.pause = 0
      PROVE  ps2' = Decode(keycode(ps2.extended, c), ~up)
  <2>1. wire[1] # E0 /\ wire[1] # E1 /\ wire[1].code = c /\ wire[1].up = up /\ ~(ps2.pause > 0)
    BY <1>6, BytesSent
  <2>2. ps2' = Decode(keycode(ps2.extended, wire[1].code), ~wire[1].up)
    BY <1>2, <2>1 DEF ps2_irq1_handler
  <2> QED  BY <2>1, <2>2
<1>7. ps2 \in Modifiers /\ down' \subseteq Keys \ {"pause"}
  BY <1>1 DEF KbdInv
<1>8. ASSUME NEW c \in Codes, NEW up \in BOOLEAN, ScancodeOnWire(c, up) PROVE OnWire' /\ ps2' \in Modifiers
  <2>1. /\ Len(wire) = 1 /\ wire[1] = Scancode(c, up) /\ ps2.pause = 0 /\ ps2.extended = FALSE
        /\ Accounted(IF up THEN {Plain[c]} ELSE {}) /\ (~up => Plain[c] \in down)
    BY <1>7, <1>8 DEF ScancodeOnWire, Resting, Modifiers
  <2>2. ps2' = Decode(Plain[c], ~up)
    BY <1>6, <2>1, Tables
  <2>3. Resting' /\ Accounted({})' /\ ps2' \in Modifiers
    BY <1>1, <2>1, <2>2, ScancodeAccounted
  <2> QED  BY <1>2, <2>1, <2>3 DEF OnWire, NothingOnWire
<1>9. ASSUME NEW c \in {"x1D", "x2A"}, NEW up \in BOOLEAN, PrefixOnWire(c, up) PROVE OnWire' /\ ps2' \in Modifiers
  <2>1. /\ Len(wire) = 2 /\ wire[1] = E0 /\ wire[2] = Scancode(c, up) /\ ps2.pause = 0
        /\ Accounted(IF up THEN {Prefixed(c)} ELSE {}) /\ (~up => Prefixed(c) \in down)
    BY <1>9 DEF PrefixOnWire, Resting
  <2>2. ps2' = [ps2 EXCEPT !.extended = TRUE]
    BY <1>5, <2>1
  <2>3. ps2' \in Modifiers /\ ps2'.pause = 0 /\ ps2'.extended /\ ps2'.shift = ps2.shift /\ ps2'.ctrl = ps2.ctrl
    BY <1>7, <2>1, <2>2 DEF Modifiers
  <2>4. Accounted(IF up THEN {Prefixed(c)} ELSE {})' /\ (~up => Prefixed(c) \in down')
    BY <1>1, <2>1, <2>3 DEF Accounted
  <2>5. Len(wire') = 1 /\ wire'[1] = Scancode(c, up)
    BY <1>2, <2>1
  <2>6. PrefixWasRead(c, up)'
    BY <2>3, <2>4, <2>5 DEF PrefixWasRead
  <2> QED  BY <2>3, <2>6 DEF OnWire
<1>10. ASSUME NEW c \in {"x1D", "x2A"}, NEW up \in BOOLEAN, PrefixWasRead(c, up) PROVE OnWire' /\ ps2' \in Modifiers
  <2>1. /\ Len(wire) = 1 /\ wire[1] = Scancode(c, up) /\ ps2.pause = 0 /\ ps2.extended = TRUE
        /\ Accounted(IF up THEN {Prefixed(c)} ELSE {}) /\ (~up => Prefixed(c) \in down) /\ c \in Codes
    BY <1>7, <1>10, Tables DEF PrefixWasRead, Modifiers
  <2>2. ps2' = Decode(keycode(TRUE, c), ~up)
    BY <1>6, <2>1
  <2>3. CASE c = "x1D"
    <3>1. keycode(TRUE, c) = "rctrl" /\ Prefixed(c) = "rctrl"
      BY <2>3, Tables DEF Prefixed
    <3>2. Resting' /\ Accounted({})' /\ ps2' \in Modifiers
      BY <1>1, <2>1, <2>2, <3>1, ScancodeAccounted
    <3> QED  BY <1>2, <2>1, <3>2 DEF OnWire, NothingOnWire
  <2>4. CASE c = "x2A"
    <3>1. keycode(TRUE, c) = "none" /\ Prefixed(c) = "print"
      BY <2>4, Tables DEF Prefixed
    <3>2. Accounted(IF up THEN {"none"} ELSE {})
      BY <2>1, <3>1 DEF Accounted
    <3>3. Resting' /\ Accounted({})' /\ ps2' \in Modifiers
      BY <1>1, <2>1, <2>2, <3>1, <3>2, ScancodeAccounted
    <3> QED  BY <1>2, <2>1, <3>3 DEF OnWire, NothingOnWire
  <2> QED  BY <2>3, <2>4
<1>11. ASSUME BurstOnWire PROVE OnWire' /\ ps2' \in Modifiers
  <2>1. Len(wire) = 6 /\ wire[1] = E1 /\ ps2.pause = 0 /\ Accounted({})
    BY <1>11 DEF BurstOnWire, Resting
  <2>2. ps2' = [ps2 EXCEPT !.extended = FALSE, !.pause = 5]
    BY <1>4, <2>1
  <2>3. ps2' \in Modifiers /\ ps2'.pause = 5 /\ ~ps2'.extended /\ ps2'.shift = ps2.shift /\ ps2'.ctrl = ps2.ctrl
    <3>1. ps2.extended \in BOOLEAN /\ ps2.shift \in BOOLEAN /\ ps2.ctrl \in BOOLEAN /\ ps2.num \in BOOLEAN
      BY <1>7 DEF Modifiers
    <3>2. ps2' = [extended |-> FALSE, pause |-> 5, shift |-> ps2.shift, ctrl |-> ps2.ctrl, num |-> ps2.num]
      BY <1>7, <2>2 DEF Modifiers
    <3> QED  BY <3>1, <3>2 DEF Modifiers
  <2>4. Accounted({})'
    BY <1>1, <2>1, <2>3 DEF Accounted
  <2>5. BurstWasBegun'
    BY <1>2, <2>1, <2>3, <2>4 DEF BurstWasBegun
  <2> QED  BY <2>3, <2>5 DEF OnWire
<1>12. ASSUME BurstWasBegun PROVE OnWire' /\ ps2' \in Modifiers
  <2>0. ps2.pause > 0
    <3>1. \A n : n \in 1..5 => n > 0
      OBVIOUS
    <3>2. ps2.pause = Len(wire) /\ Len(wire) \in 1..5
      BY <1>12 DEF BurstWasBegun
    <3>3. ps2.pause \in 1..5
      BY <3>2, Zenon
    <3> QED  BY <3>1, <3>3, Zenon
  <2>1. Len(wire) \in 1..5 /\ ps2.pause = Len(wire) /\ ~ps2.extended /\ Accounted({})
    BY <1>12 DEF BurstWasBegun
  <2>2. ps2' = [ps2 EXCEPT !.pause = @ - 1]
    BY <1>3, <2>0
  <2>3. /\ ps2' \in Modifiers /\ ps2'.pause = Len(wire) - 1 /\ ~ps2'.extended
        /\ ps2'.shift = ps2.shift /\ ps2'.ctrl = ps2.ctrl
    BY <1>7, <2>1, <2>2 DEF Modifiers
  <2>4. Accounted({})'
    BY <1>1, <2>1, <2>3 DEF Accounted
  <2>5. ps2'.pause = Len(wire') /\ Len(wire') \in 0..5
    <3>1. Len(wire') = Len(wire) - 1 /\ Len(wire) \in 1..5
      BY <1>2, <2>1
    <3>2. ps2'.pause = Len(wire) - 1
      BY <2>3
    <3> QED  BY <3>1, <3>2
  <2>6. CASE Len(wire') = 0
    <3>1. NothingOnWire'
      BY <2>3, <2>4, <2>5, <2>6 DEF NothingOnWire, Resting
    <3> QED  BY <2>3, <3>1 DEF OnWire
  <2>7. CASE Len(wire') # 0
    <3>1. BurstWasBegun'
      BY <2>3, <2>4, <2>5, <2>7 DEF BurstWasBegun
    <3> QED  BY <2>3, <3>1 DEF OnWire
  <2> QED  BY <2>6, <2>7
<1>13. ~NothingOnWire
  BY <1>2 DEF NothingOnWire
<1>14. OnWire' /\ ps2' \in Modifiers
  BY <1>8, <1>9, <1>10, <1>11, <1>12, <1>13 DEF KbdInv, OnWire
<1> QED  BY <1>2, <1>7, <1>14 DEF KbdInv

\* What tasks do leaves the keyboard and its handler alone.
LEMMA ReadersAccounted ==
    ASSUME KbdInv, UNCHANGED <<down, wire, ps2>> PROVE KbdInv'
  BY DEF KbdInv, OnWire, NothingOnWire, ScancodeOnWire, PrefixOnWire, PrefixWasRead, BurstOnWire, BurstWasBegun,
         Resting, Accounted

\* Once every key is up and every byte was read no modifier is on: neither the burst of
\* the pause key nor a prefix before an unknown scancode is taken for something else
\* (ps2.c:88-152), for any keys, tasks and queues.
THEOREM NoModifierSticks == KbdSpec => []NoStuckModifiers
<1>1. KbdInit => KbdInv
  BY KbdInvInit
<1>2. KbdInv /\ [KbdNext]_kbdVars => KbdInv'
  <2> SUFFICES ASSUME KbdInv, [KbdNext]_kbdVars PROVE KbdInv'
    OBVIOUS
  <2>1. CASE ps2_irq1_handler
    BY <2>1, IrqAccounted
  <2>2. ASSUME NEW k \in Keys, KeyDown(k) \/ KeyUp(k) PROVE KbdInv'
    BY <2>2, KeyDownAccounted, KeyUpAccounted
  <2>3. ASSUME NEW t \in Users, Reads(t) \/ UserEnds(t) \/ UserReaped(t) \/ UserStarts(t) PROVE KbdInv'
    <3>1. UNCHANGED <<down, wire, ps2>>
      BY <2>3 DEF Reads, LineStep, RawStep, KbdWait, UserEnds, UserReaped, UserStarts
    <3> QED  BY <3>1, ReadersAccounted
  <2>4. ASSUME NEW t \in Users, NEW len \in ReadLens, ReadLine(t, len) \/ ReadRaw(t, len) PROVE KbdInv'
    <3>1. UNCHANGED <<down, wire, ps2>>
      BY <2>4 DEF ReadLine, ReadRaw
    <3> QED  BY <3>1, ReadersAccounted
  <2>5. ASSUME NEW t \in Users, NEW q \in {"line", "raw"}, KbdOpen(t, q) \/ KbdClose(t, q) PROVE KbdInv'
    <3>1. UNCHANGED <<down, wire, ps2>>
      BY <2>5 DEF KbdOpen, KbdClose
    <3> QED  BY <3>1, ReadersAccounted
  <2>6. CASE UNCHANGED kbdVars
    BY <2>6, ReadersAccounted DEF kbdVars
  <2> QED  BY <2>1, <2>2, <2>3, <2>4, <2>5, <2>6 DEF KbdNext
<1>3. KbdInv => NoStuckModifiers
  <2> SUFFICES ASSUME KbdInv, down = {}, wire = <<>> PROVE ~ps2.shift /\ ~ps2.ctrl /\ ~ps2.extended /\ ps2.pause = 0
    BY DEF NoStuckModifiers
  <2>1. Resting /\ Accounted({})
    BY DEF KbdInv, OnWire, NothingOnWire, ScancodeOnWire, PrefixOnWire, PrefixWasRead, BurstOnWire, BurstWasBegun
  <2> QED  BY <2>1 DEF Resting, Accounted
<1> QED  BY <1>1, <1>2, <1>3, PTL DEF KbdSpec

-----------------------------------------------------------------------------
(***************************************************************************)
(* The drives: the channel is held by whoever moves data.                  *)
(***************************************************************************)
Holding == {"command", "data", "flush"}

\* What a task's command has the drive do.
Asked(j) == [to |-> DriveOf(j), sector |-> Sector(j), left |-> Chunk(j) - j.i, write |-> j.todo = "write"]

\* A request, whatever is in its buffer.
Places == {"idle", "acquire", "command", "data", "flush", "moved", "copy", "failed"}
Ops == {"none", "read", "write"}
JobRec(B) == [at : Places, op : Ops, dev : DOMAIN devs, off : Nat, len : Nat, buf : B,
              todo : Ops, done : Nat, i : Nat, handle : BOOLEAN]
IsJob(j) == \E B : j \in JobRec(B)

\* A task holds the channel from its first command to the end of its request, and the
\* drive is where its command has it.
Holds(t) ==
    /\ job[t].at \in Holding <=> busy = t
    /\ job[t].at = "command" => job[t].i = 0
    /\ job[t].at = "data" => drive = Asked(job[t])

Jobs == "ram" \in DOMAIN devs /\ DOMAIN job = DiskUsers /\ \A t \in DiskUsers : IsJob(job[t]) /\ Holds(t)
DevicesFound == \A d \in DOMAIN devs : devs[d].start \in Nat /\ devs[d].count \in Nat
Positions == pos \in [DiskUsers -> [DOMAIN devs -> Nat]]
DriveInv == Jobs /\ DevicesFound /\ Positions

\* Four bytes make a number.
LEMMA LittleEndian == ASSUME NEW b \in [1..4 -> 0..255] PROVE read_le32(b) \in Nat
<1>1. b[1] \in Nat /\ b[2] \in Nat /\ b[3] \in Nat /\ b[4] \in Nat
  OBVIOUS
<1> QED  BY <1>1, SMT DEF read_le32

\* The devices that are found begin and end at numbers, and the RAM disk is among them.
LEMMA DevicesAreFound == DrivesInit => DevicesFound /\ "ram" \in DOMAIN devs
<1> SUFFICES ASSUME DrivesInit PROVE DevicesFound /\ "ram" \in DOMAIN devs
  OBVIOUS
<1> DEFINE Good(ds) == \A d \in DOMAIN ds : ds[d].start \in Nat /\ ds[d].count \in Nat
<1>1. PICK m \in Machines : MachineIs(m)
  BY DEF DrivesInit
<1>2. /\ m.words.lo28 \in Nat /\ m.words.total \in Nat /\ m.last \in Int
      /\ \A e \in DOMAIN m.mbr : m.mbr[e].start \in [1..4 -> 0..255] /\ m.mbr[e].count \in [1..4 -> 0..255]
  BY MachinesAssumption
<1>3. \A d, n : n \in Nat => WholeDrive(d, n).start \in Nat /\ WholeDrive(d, n).count \in Nat
  BY DEF WholeDrive
<1>4. \A ds, more : Good(ds) /\ Good(more) => Good(Registered(ds, more))
  BY DEF Registered
<1>5. Good(ramblock_init) /\ DOMAIN ramblock_init = {"ram"}
  BY <1>3, DrivesAssumption DEF ramblock_init
<1>6. Good(atapi_attach(m))
  <2>1. atapi_read_capacity(m) \in Nat
    <3>1. m.last \in Int
      BY <1>2
    <3>2. atapi_read_capacity(m) = IF m.last >= 0 THEN m.last + 1 ELSE 0
      BY DEF atapi_read_capacity
    <3> QED  BY <3>1, <3>2
  <2> QED  BY <1>3, <2>1 DEF atapi_attach
<1>7. Good(ata_attach(m))
  <2> DEFINE n == ata_apply_identify(m.words).sectors
             parts == pardet_create_partitions(m, n)
  <2>1. n \in Nat
    BY <1>2, DrivesAssumption DEF ata_apply_identify
  <2>2. Good(parts)
    <3> SUFFICES ASSUME NEW e \in DOMAIN parts PROVE parts[e].start \in Nat /\ parts[e].count \in Nat
      OBVIOUS
    <3>1. e \in DOMAIN m.mbr
      BY DEF pardet_create_partitions
    <3>2. read_le32(m.mbr[e].start) \in Nat /\ read_le32(m.mbr[e].count) \in Nat
      BY <1>2, <3>1, LittleEndian
    <3>3. parts[e] = [drive |-> "disk", start |-> read_le32(m.mbr[e].start), count |-> read_le32(m.mbr[e].count)]
      BY DEF pardet_create_partitions
    <3> QED  BY <3>2, <3>3
  <2> HIDE DEF parts, n
  <2>3. ata_attach(m) = IF ide_identify(m) /\ n # 0
                        THEN [p \in DOMAIN parts \union {"disk"} |-> IF p = "disk" THEN WholeDrive(p, n) ELSE parts[p]]
                        ELSE <<>>
    BY DEF ata_attach, parts, n
  <2>4. DOMAIN <<>> = {}
    OBVIOUS
  <2>5. CASE ide_identify(m) /\ n # 0
    <3> SUFFICES ASSUME NEW d \in DOMAIN ata_attach(m)
                 PROVE  ata_attach(m)[d].start \in Nat /\ ata_attach(m)[d].count \in Nat
      OBVIOUS
    <3>1. d = "disk" \/ (d # "disk" /\ d \in DOMAIN parts)
      BY <2>3, <2>5
    <3>2. ata_attach(m)[d] = IF d = "disk" THEN WholeDrive(d, n) ELSE parts[d]
      BY <2>3, <2>5
    <3> QED  BY <1>3, <2>1, <2>2, <3>1, <3>2
  <2>6. CASE ~(ide_identify(m) /\ n # 0)
    BY <2>3, <2>4, <2>6
  <2> QED  BY <2>5, <2>6
<1>8. devs = Registered(ata_attach(m), Registered(atapi_attach(m), ramblock_init))
  BY <1>1 DEF MachineIs
<1>9. Good(devs)
  BY <1>4, <1>5, <1>6, <1>7, <1>8
<1>10. "ram" \in DOMAIN devs
  BY <1>5, <1>8 DEF Registered
<1> QED  BY <1>9, <1>10 DEF DevicesFound

\* No request is one, of the RAM disk.
LEMMA EmptyIsJob == ASSUME "ram" \in DOMAIN devs PROVE IsJob(NoJob) /\ NoJob.at = "idle"
<1>1. NoJob \in JobRec({<<>>}) /\ NoJob.at = "idle"
  BY DEF NoJob, JobRec, Places, Ops
<1> QED  BY <1>1 DEF IsJob

\* A request's fields.
LEMMA JobFields ==
    ASSUME NEW j, IsJob(j)
    PROVE  /\ j.off \in Nat /\ j.len \in Nat /\ j.done \in Nat /\ j.i \in Nat /\ j.dev \in DOMAIN devs
           /\ j.at \in Places /\ j.todo \in Ops
  BY DEF IsJob, JobRec

\* Nobody holds the channel at first.
LEMMA DriveInvInit == DrivesInit => DriveInv
<1> SUFFICES ASSUME DrivesInit PROVE DriveInv
  OBVIOUS
<1>1. DevicesFound /\ "ram" \in DOMAIN devs
  BY DevicesAreFound
<1>2. busy = NoUserYet /\ job = [t \in DiskUsers |-> NoJob] /\ pos = [t \in DiskUsers |-> [d \in DOMAIN devs |-> 0]]
  BY DEF DrivesInit
<1>3. IsJob(NoJob) /\ NoJob.at = "idle"
  BY <1>1, EmptyIsJob
<1>4. \A t \in DiskUsers : Holds(t)
  BY <1>2, <1>3, DrivesAssumption DEF Holds, Holding
<1>5. Jobs
  BY <1>1, <1>2, <1>3, <1>4 DEF Jobs
<1>6. Positions
  BY <1>2 DEF Positions
<1> QED  BY <1>1, <1>5, <1>6 DEF DriveInv

\* The numbers that a request comes to.
LEMMA Numbers ==
    ASSUME DriveInv, NEW j, IsJob(j)
    PROVE  Blocks(j) \in Int /\ Chunk(j) \in Int /\ Sector(j) \in Int /\ FirstBlock(j) \in Int
<1>1. j.off \in Nat /\ j.len \in Nat /\ j.done \in Nat /\ j.i \in Nat /\ j.dev \in DOMAIN devs
  BY JobFields
<1>2. SectorSize \in Nat \ {0} /\ MaxChunk \in Nat \ {0}
  BY DrivesAssumption
<1>3. \A a \in Int : a \div SectorSize \in Int
  BY <1>2
<1>4. FirstBlock(j) \in Int
  BY <1>1, <1>3 DEF FirstBlock
<1>5. Blocks(j) \in Int
  <2>1. (j.off + j.len - 1) \div SectorSize \in Int
    BY <1>1, <1>3
  <2> QED  BY <1>4, <2>1 DEF Blocks
<1>6. Chunk(j) \in Int
  BY <1>1, <1>2, <1>5 DEF Chunk
<1>7. Sector(j) \in Int
  <2>1. devs[j.dev].start \in Int
    BY <1>1 DEF DriveInv, DevicesFound
  <2> QED  BY <1>1, <1>4, <2>1 DEF Sector
<1> QED  BY <1>4, <1>5, <1>6, <1>7

\* A step of one task leaves the others as they are, if it does not touch the drive while
\* one of them moves data.
LEMMA OneGoesOn ==
    ASSUME DriveInv, NEW t \in DiskUsers, NEW j, IsJob(j),
           job' = [job EXCEPT ![t] = j], devs' = devs, Positions',
           \A u \in DiskUsers \ {t} : (busy' = u <=> busy = u) /\ (busy = u => drive' = drive),
           j.at \in Holding <=> busy' = t,
           j.at = "command" => j.i = 0,
           j.at = "data" => drive' = Asked(j)
    PROVE  DriveInv'
<1>1. DOMAIN job' = DiskUsers /\ job'[t] = j /\ \A u \in DiskUsers \ {t} : job'[u] = job[u]
  BY DEF DriveInv, Jobs
<1>2. ASSUME NEW u \in DiskUsers, NEW k, IsJob(k), job'[u] = k PROVE IsJob(job[u])' /\ Asked(job[u])' = Asked(k)
  BY <1>2 DEF IsJob, JobRec, Asked, DriveOf, Sector, FirstBlock, Chunk, Blocks
<1>3. IsJob(job[t])' /\ Holds(t)'
  BY <1>1, <1>2 DEF Holds
<1>4. ASSUME NEW u \in DiskUsers \ {t} PROVE IsJob(job[u])' /\ Holds(u)'
  <2>1. IsJob(job[u]) /\ Holds(u) /\ job'[u] = job[u]
    BY <1>1 DEF DriveInv, Jobs
  <2>2. IsJob(job[u])' /\ Asked(job[u])' = Asked(job[u])
    BY <1>2, <2>1
  <2>3. job[u].at = "data" => busy = u
    BY <2>1 DEF Holds, Holding
  <2>4. Holds(u)'
    BY <2>1, <2>2, <2>3 DEF Holds
  <2> QED  BY <2>2, <2>4
<1>5. Jobs'
  BY <1>1, <1>3, <1>4 DEF Jobs, DriveInv
<1>6. DevicesFound'
  BY DEF DriveInv, DevicesFound
<1> QED  BY <1>5, <1>6 DEF DriveInv

\* Steps that leave requests and the channel alone.
LEMMA JobsStay ==
    ASSUME DriveInv, UNCHANGED <<devs, job, busy, drive>>, Positions' PROVE DriveInv'
<1>1. Jobs'
  BY DEF DriveInv, Jobs, IsJob, JobRec, Holds, Asked, DriveOf, Sector, FirstBlock, Chunk, Blocks
<1>2. DevicesFound'
  BY DEF DriveInv, DevicesFound
<1> QED  BY <1>1, <1>2 DEF DriveInv

\* A request elsewhere is a request.
LEMMA JobMoves ==
    ASSUME NEW j, IsJob(j), NEW at \in Places
    PROVE  LET k == [j EXCEPT !.at = at] IN IsJob(k) /\ k.at = at /\ k.i = j.i
<1> DEFINE k == [j EXCEPT !.at = at]
<1>1. PICK B : j \in JobRec(B)
  BY DEF IsJob
<1>2. k \in JobRec(B) /\ k.at = at /\ k.i = j.i
  BY <1>1 DEF JobRec, Ops, Places
<1> HIDE DEF k
<1>3. IsJob(k)
  BY <1>2 DEF IsJob
<1> QED  BY <1>2, <1>3 DEF k

\* So is one that begins with its next command,
LEMMA JobRestarts ==
    ASSUME NEW j, IsJob(j), NEW at \in Places
    PROVE  LET k == [j EXCEPT !.at = at, !.i = 0] IN IsJob(k) /\ k.at = at /\ k.i = 0
<1> DEFINE k == [j EXCEPT !.at = at, !.i = 0]
<1>1. PICK B : j \in JobRec(B)
  BY DEF IsJob
<1>2. k \in JobRec(B) /\ k.at = at /\ k.i = 0
  BY <1>1 DEF JobRec, Ops, Places
<1> HIDE DEF k
<1>3. IsJob(k)
  BY <1>2 DEF IsJob
<1> QED  BY <1>2, <1>3 DEF k

\* one whose command is done,
LEMMA JobCounts ==
    ASSUME NEW j, IsJob(j), NEW done \in Nat
    PROVE  LET k == [j EXCEPT !.done = done, !.i = 0] IN IsJob(k) /\ k.i = 0
<1> DEFINE k == [j EXCEPT !.done = done, !.i = 0]
<1>1. PICK B : j \in JobRec(B)
  BY DEF IsJob
<1>2. k \in JobRec(B) /\ k.i = 0
  BY <1>1 DEF JobRec, Ops, Places
<1> HIDE DEF k
<1>3. IsJob(k)
  BY <1>2 DEF IsJob
<1> QED  BY <1>2, <1>3 DEF k

\* one that has put a sector on the drive,
LEMMA JobPuts ==
    ASSUME NEW j, IsJob(j), NEW i \in Nat
    PROVE  LET k == [j EXCEPT !.i = i] IN IsJob(k)
<1> DEFINE k == [j EXCEPT !.i = i]
<1>1. PICK B : j \in JobRec(B)
  BY DEF IsJob
<1>2. k \in JobRec(B)
  BY <1>1 DEF JobRec, Ops, Places
<1> HIDE DEF k
<1>3. IsJob(k)
  BY <1>2 DEF IsJob
<1> QED  BY <1>2, <1>3 DEF k

\* one that has got a sector,
LEMMA JobGets ==
    ASSUME NEW j, IsJob(j), NEW i \in Nat, NEW buf
    PROVE  LET k == [j EXCEPT !.buf = buf, !.i = i] IN IsJob(k)
<1> DEFINE k == [j EXCEPT !.buf = buf, !.i = i]
<1>1. PICK B : j \in JobRec(B)
  BY DEF IsJob
<1>2. k \in JobRec({buf})
  BY <1>1 DEF JobRec, Ops, Places
<1> HIDE DEF k
<1>3. IsJob(k)
  BY <1>2 DEF IsJob
<1> QED  BY <1>2, <1>3 DEF k

\* and one that has patched what it read.
LEMMA JobPatches ==
    ASSUME NEW j, IsJob(j), NEW at \in Places, NEW buf
    PROVE  LET k == [j EXCEPT !.buf = buf, !.todo = "write", !.done = 0, !.i = 0, !.at = at] IN IsJob(k) /\ k.at = at
<1> DEFINE k == [j EXCEPT !.buf = buf, !.todo = "write", !.done = 0, !.i = 0, !.at = at]
<1>1. PICK B : j \in JobRec(B)
  BY DEF IsJob
<1>2. k \in JobRec({buf}) /\ k.at = at
  BY <1>1 DEF JobRec, Ops, Places
<1> HIDE DEF k
<1>3. IsJob(k)
  BY <1>2 DEF IsJob
<1> QED  BY <1>2, <1>3 DEF k

\* One task at a time gets the channel.
LEMMA AcquireHolds == ASSUME NEW t \in DiskUsers PROVE DriveInv /\ Acquire(t) => DriveInv'
<1> SUFFICES ASSUME DriveInv, Acquire(t) PROVE DriveInv'
  OBVIOUS
<1> DEFINE k == [job[t] EXCEPT !.at = "command", !.i = 0]
<1>1. DOMAIN job = DiskUsers /\ IsJob(job[t]) /\ Positions
  BY DEF DriveInv, Jobs
<1>2. /\ job[t].at = "acquire" /\ busy = NoUserYet /\ busy' = t /\ drive' = drive /\ devs' = devs /\ pos' = pos
      /\ job' = [job EXCEPT ![t] = k]
  BY <1>1 DEF Acquire, ide_channel_acquire
<1>3. IsJob(k) /\ k.at = "command" /\ k.i = 0
  BY <1>1, JobRestarts DEF Places
<1> HIDE DEF k
<1>4. Positions'
  BY <1>1, <1>2 DEF Positions
<1>5. \A u \in DiskUsers \ {t} : (busy' = u <=> busy = u) /\ (busy = u => drive' = drive)
  BY <1>2, DrivesAssumption
<1> QED  BY <1>2, <1>3, <1>4, <1>5, OneGoesOn DEF Holding

\* It tells the drive what it is to do.
LEMMA CommandHolds == ASSUME NEW t \in DiskUsers PROVE DriveInv /\ Command(t) => DriveInv'
<1> SUFFICES ASSUME DriveInv, Command(t) PROVE DriveInv'
  OBVIOUS
<1> DEFINE k == [job[t] EXCEPT !.at = "data"]
<1>1. DOMAIN job = DiskUsers /\ IsJob(job[t]) /\ Holds(t) /\ Positions
  BY DEF DriveInv, Jobs
<1>2. /\ job[t].at = "command" /\ busy' = busy /\ devs' = devs /\ pos' = pos
      /\ job' = [job EXCEPT ![t] = k]
      /\ drive' = [to |-> DriveOf(job[t]), sector |-> Sector(job[t]), left |-> Chunk(job[t]), write |-> job[t].todo = "write"]
  BY <1>1 DEF Command
<1>3. IsJob(k) /\ k.at = "data" /\ k.i = 0 /\ busy = t
  <2>1. IsJob(k) /\ k.at = "data" /\ k.i = job[t].i
    BY <1>1, JobMoves DEF Places
  <2>2. job[t].i = 0 /\ busy = t
    BY <1>1, <1>2 DEF Holds, Holding
  <2> QED  BY <2>1, <2>2
<1>4. drive' = Asked(k)
  <2>1. DriveOf(k) = DriveOf(job[t]) /\ Sector(k) = Sector(job[t]) /\ Chunk(k) = Chunk(job[t]) /\ k.todo = job[t].todo
    <3>1. k.dev = job[t].dev /\ k.off = job[t].off /\ k.len = job[t].len /\ k.done = job[t].done /\ k.i = job[t].i
          /\ k.todo = job[t].todo
      BY <1>1 DEF IsJob, JobRec
    <3> QED  BY <3>1 DEF DriveOf, Sector, Chunk, Blocks, FirstBlock
  <2>2. Chunk(k) - k.i = Chunk(k)
    BY <1>3, Numbers
  <2> QED  BY <1>2, <2>1, <2>2 DEF Asked
<1> HIDE DEF k
<1>5. Positions'
  BY <1>1, <1>2 DEF Positions
<1>6. \A u \in DiskUsers \ {t} : (busy' = u <=> busy = u) /\ (busy = u => drive' = drive)
  BY <1>2, <1>3
<1> QED  BY <1>2, <1>3, <1>4, <1>5, <1>6, OneGoesOn DEF Holding

\* A sector was moved: the request is one sector further.
LEMMA Transferred ==
    ASSUME DriveInv, NEW t \in DiskUsers, NEW s, Transfer(t, s)
    PROVE  \E k : /\ job' = [job EXCEPT ![t] = k] /\ IsJob(k) /\ k.at = job[t].at /\ k.i = job[t].i + 1
                  /\ DriveOf(k) = DriveOf(job[t]) /\ Chunk(k) = Chunk(job[t]) /\ k.todo = job[t].todo
                  /\ Sector(k) = Sector(job[t]) + 1
<1>1. DOMAIN job = DiskUsers /\ IsJob(job[t]) /\ job[t].i \in Nat
  BY JobFields DEF DriveInv, Jobs
<1>2. PICK k : /\ job' = [job EXCEPT ![t] = k] /\ IsJob(k)
               /\ k.at = job[t].at /\ k.op = job[t].op /\ k.dev = job[t].dev /\ k.off = job[t].off /\ k.len = job[t].len
               /\ k.todo = job[t].todo /\ k.done = job[t].done /\ k.i = job[t].i + 1
  <2>1. CASE job[t].todo = "read"
    <3> DEFINE b == job[t].buf \o SectorBytes(DriveOf(job[t]), s)
               k == [job[t] EXCEPT !.buf = b, !.i = job[t].i + 1]
    <3>1. job' = [job EXCEPT ![t] = k]
      BY <1>1, <2>1 DEF Transfer
    <3> HIDE DEF b
    <3>2. /\ k.at = job[t].at /\ k.op = job[t].op /\ k.dev = job[t].dev /\ k.off = job[t].off /\ k.len = job[t].len
          /\ k.todo = job[t].todo /\ k.done = job[t].done /\ k.i = job[t].i + 1
      BY <1>1 DEF IsJob, JobRec
    <3>3. IsJob(k)
      <4>1. job[t].i + 1 \in Nat
        BY <1>1
      <4> QED  BY <1>1, <4>1, JobGets
    <3> QED  BY <3>1, <3>2, <3>3
  <2>2. CASE job[t].todo # "read"
    <3> DEFINE k == [job[t] EXCEPT !.i = job[t].i + 1]
    <3>1. job' = [job EXCEPT ![t] = k]
      BY <1>1, <2>2 DEF Transfer
    <3>2. /\ k.at = job[t].at /\ k.op = job[t].op /\ k.dev = job[t].dev /\ k.off = job[t].off /\ k.len = job[t].len
          /\ k.todo = job[t].todo /\ k.done = job[t].done /\ k.i = job[t].i + 1
      BY <1>1 DEF IsJob, JobRec
    <3>3. IsJob(k)
      <4>1. job[t].i + 1 \in Nat
        BY <1>1
      <4> QED  BY <1>1, <4>1, JobPuts
    <3> QED  BY <3>1, <3>2, <3>3
  <2> QED  BY <2>1, <2>2
<1>5. DriveOf(k) = DriveOf(job[t]) /\ Chunk(k) = Chunk(job[t])
  BY <1>2 DEF DriveOf, Chunk, Blocks, FirstBlock
<1>6. Sector(k) = Sector(job[t]) + 1
  <2>1. devs[job[t].dev].start \in Nat /\ job[t].done \in Nat /\ FirstBlock(job[t]) \in Int /\ FirstBlock(k) = FirstBlock(job[t])
    BY <1>1, <1>2, Numbers, JobFields DEF DriveInv, DevicesFound, FirstBlock
  <2>2. Sector(job[t]) = devs[job[t].dev].start + FirstBlock(job[t]) + job[t].done + job[t].i
    BY DEF Sector
  <2>3. Sector(k) = devs[job[t].dev].start + FirstBlock(job[t]) + job[t].done + (job[t].i + 1)
    BY <1>2, <2>1 DEF Sector
  <2> QED  BY <1>1, <2>1, <2>2, <2>3
<1> QED  BY <1>2, <1>5, <1>6

\* A sector is moved: drive and request advance together.
LEMMA DataPhaseHolds == ASSUME NEW t \in DiskUsers PROVE DriveInv /\ DataPhase(t) => DriveInv'
<1> SUFFICES ASSUME DriveInv, DataPhase(t) PROVE DriveInv'
  OBVIOUS
<1>1. DOMAIN job = DiskUsers /\ IsJob(job[t]) /\ Holds(t) /\ Positions
  BY DEF DriveInv, Jobs
<1>2. /\ job[t].at = "data" /\ busy' = busy /\ devs' = devs /\ pos' = pos /\ Transfer(t, drive.sector)
      /\ drive' = [drive EXCEPT !.sector = @ + 1, !.left = @ - 1]
  BY DEF DataPhase
<1>3. PICK k : /\ job' = [job EXCEPT ![t] = k] /\ IsJob(k) /\ k.at = "data" /\ k.i = job[t].i + 1
               /\ DriveOf(k) = DriveOf(job[t]) /\ Chunk(k) = Chunk(job[t]) /\ k.todo = job[t].todo
               /\ Sector(k) = Sector(job[t]) + 1
  BY <1>2, Transferred
<1>4. busy = t /\ drive = Asked(job[t])
  BY <1>1, <1>2 DEF Holds, Holding
<1>5. drive' = Asked(k)
  <2>1. drive' = [to |-> DriveOf(job[t]), sector |-> Sector(job[t]) + 1, left |-> Chunk(job[t]) - job[t].i - 1, write |-> job[t].todo = "write"]
    BY <1>2, <1>4 DEF Asked
  <2>2. Chunk(job[t]) - job[t].i - 1 = Chunk(job[t]) - (job[t].i + 1)
    BY <1>1, Numbers, JobFields
  <2> QED  BY <1>3, <2>1, <2>2 DEF Asked
<1>6. Positions'
  BY <1>1, <1>2 DEF Positions
<1>7. \A u \in DiskUsers \ {t} : (busy' = u <=> busy = u) /\ (busy = u => drive' = drive)
  BY <1>2, <1>4
<1> QED  BY <1>2, <1>3, <1>4, <1>5, <1>6, <1>7, OneGoesOn DEF Holding

\* The next command, or the end, of a request.
LEMMA EndChunkHolds == ASSUME NEW t \in DiskUsers PROVE DriveInv /\ EndChunk(t) => DriveInv'
<1> SUFFICES ASSUME DriveInv, EndChunk(t) PROVE DriveInv'
  OBVIOUS
<1> DEFINE j == job[t]
           n == [j EXCEPT !.done = @ + j.i, !.i = 0]
           over == n.done = Blocks(j)
           again == IF DriveOf(j) = "cdrom" THEN "acquire" ELSE "command"
           flush == over /\ j.todo = "write" /\ disk.flushes
           at == IF flush THEN "flush" ELSE IF over THEN "moved" ELSE again
           k == [n EXCEPT !.at = at]
<1>1. DOMAIN job = DiskUsers /\ IsJob(j) /\ Holds(t) /\ Positions
  BY DEF DriveInv, Jobs
<1>2. /\ j.at = "data" /\ devs' = devs /\ pos' = pos
      /\ job' = [job EXCEPT ![t] = k]
      /\ busy' = IF (over \/ DriveOf(j) = "cdrom") /\ ~flush THEN NoUserYet ELSE busy
  BY DEF EndChunk
<1>3. busy = t
  BY <1>1, <1>2 DEF Holds, Holding
<1>4. at \in {"flush", "moved", "acquire", "command"} /\ (at \in Holding <=> busy' = t)
  BY <1>2, <1>3, DrivesAssumption DEF Holding
<1> HIDE DEF over, flush, at
<1>5. IsJob(k) /\ k.at = at /\ k.i = 0
  <2>1. j.done + j.i \in Nat
    BY <1>1, JobFields
  <2>2. n.i = 0 /\ IsJob(n)
    BY <1>1, <2>1, JobCounts
  <2>3. at \in Places
    BY <1>4 DEF Places
  <2> HIDE DEF n
  <2> QED  BY <2>2, <2>3, JobMoves
<1> HIDE DEF k
<1>6. Positions'
  BY <1>1, <1>2 DEF Positions
<1>7. \A u \in DiskUsers \ {t} : (busy' = u <=> busy = u) /\ (busy = u => drive' = drive)
  BY <1>2, <1>3, DrivesAssumption
<1> QED  BY <1>2, <1>4, <1>5, <1>6, <1>7, OneGoesOn

\* A request ends, or waits for the channel: its task holds it no longer.
LEMMA LetsGo ==
    ASSUME DriveInv, NEW t \in DiskUsers, NEW k, IsJob(k), k.at \notin Holding, job' = [job EXCEPT ![t] = k],
           devs' = devs, Positions', busy' = NoUserYet, busy = t
    PROVE  DriveInv'
<1>1. \A u \in DiskUsers \ {t} : (busy' = u <=> busy = u) /\ (busy = u => drive' = drive)
  BY DrivesAssumption
<1> QED  BY <1>1, DrivesAssumption, OneGoesOn DEF Holding

\* The last step of a write.
LEMMA FlushLetsGo == ASSUME NEW t \in DiskUsers PROVE DriveInv /\ Flush(t) => DriveInv'
<1> SUFFICES ASSUME DriveInv, Flush(t) PROVE DriveInv'
  OBVIOUS
<1> DEFINE k == [job[t] EXCEPT !.at = "moved"]
<1>1. DOMAIN job = DiskUsers /\ IsJob(job[t]) /\ Holds(t) /\ Positions
  BY DEF DriveInv, Jobs
<1>2. job[t].at = "flush" /\ job' = [job EXCEPT ![t] = k] /\ busy' = NoUserYet /\ devs' = devs /\ pos' = pos
  BY <1>1 DEF Flush
<1>3. IsJob(k) /\ k.at \notin Holding
  <2>1. IsJob(k) /\ k.at = "moved"
    BY <1>1, JobMoves DEF Places
  <2> QED  BY <2>1 DEF Holding
<1> HIDE DEF k
<1>4. Positions' /\ busy = t
  BY <1>1, <1>2 DEF Positions, Holds, Holding
<1> QED  BY <1>2, <1>3, <1>4, LetsGo

\* A request that fails lets go.
LEMMA TimeoutLetsGo == ASSUME NEW t \in DiskUsers PROVE DriveInv /\ (Timeout(t) \/ Refused(t)) => DriveInv'
<1> SUFFICES ASSUME DriveInv, Timeout(t) \/ Refused(t) PROVE DriveInv'
  OBVIOUS
<1> DEFINE k == [job[t] EXCEPT !.at = "failed"]
<1>1. DOMAIN job = DiskUsers /\ IsJob(job[t]) /\ Holds(t) /\ Positions
  BY DEF DriveInv, Jobs
<1>2. job[t].at \in Holding /\ job' = [job EXCEPT ![t] = k] /\ busy' = NoUserYet /\ devs' = devs /\ pos' = pos
  BY <1>1 DEF Timeout, Refused, Holder, Holding
<1>3. IsJob(k) /\ k.at \notin Holding
  <2>1. IsJob(k) /\ k.at = "failed"
    BY <1>1, JobMoves DEF Places
  <2> QED  BY <2>1 DEF Holding
<1> HIDE DEF k
<1>4. Positions' /\ busy = t
  BY <1>1, <1>2 DEF Positions, Holds
<1> QED  BY <1>2, <1>3, <1>4, LetsGo

\* A task that does not hold the channel does something else.
LEMMA GoesOnWithout ==
    ASSUME DriveInv, NEW t \in DiskUsers, NEW k, IsJob(k), k.at \notin Holding, job[t].at \notin Holding,
           job' = [job EXCEPT ![t] = k], UNCHANGED <<devs, busy, drive>>, Positions'
    PROVE  DriveInv'
<1>1. busy # t
  BY DEF DriveInv, Jobs, Holds
<1> QED  BY <1>1, OneGoesOn DEF Holding

\* The RAM disk needs no channel.
LEMMA CopyHolds == ASSUME NEW t \in DiskUsers PROVE DriveInv /\ (Copy(t) \/ Copied(t)) => DriveInv'
<1> SUFFICES ASSUME DriveInv, Copy(t) \/ Copied(t) PROVE DriveInv'
  OBVIOUS
<1>1. DOMAIN job = DiskUsers /\ IsJob(job[t]) /\ Positions
  BY DEF DriveInv, Jobs
<1>2. job[t].at = "copy" /\ UNCHANGED <<devs, busy, drive, pos>>
  BY DEF Copy, Copied
<1>3. PICK k : IsJob(k) /\ k.at \in {"copy", "moved"} /\ job' = [job EXCEPT ![t] = k]
  <2>1. CASE Copy(t)
    BY <1>2, <2>1, Transferred DEF Copy
  <2>2. CASE Copied(t)
    <3>1. job' = [job EXCEPT ![t] = [job[t] EXCEPT !.at = "moved"]]
      BY <1>1, <2>2 DEF Copied
    <3>2. IsJob([job[t] EXCEPT !.at = "moved"]) /\ [job[t] EXCEPT !.at = "moved"].at = "moved"
      BY <1>1, JobMoves DEF Places
    <3> QED  BY <3>1, <3>2
  <2> QED  BY <2>1, <2>2
<1>4. Positions'
  BY <1>1, <1>2 DEF Positions
<1> QED  BY <1>2, <1>3, <1>4, GoesOnWithout DEF Holding

\* A write that has read what stays begins again, without the channel.
LEMMA PatchHolds == ASSUME NEW t \in DiskUsers PROVE DriveInv /\ Patch(t) => DriveInv'
<1> SUFFICES ASSUME DriveInv, Patch(t) PROVE DriveInv'
  OBVIOUS
<1> DEFINE j == job[t]
           b == Patched(j, t)
           at == IF OnChannel(j) THEN "acquire" ELSE "copy"
           k == [j EXCEPT !.buf = b, !.todo = "write", !.done = 0, !.i = 0, !.at = at]
<1>1. DOMAIN job = DiskUsers /\ IsJob(j) /\ Positions
  BY DEF DriveInv, Jobs
<1>2. j.at = "moved" /\ UNCHANGED <<devs, busy, drive, pos>> /\ job' = [job EXCEPT ![t] = k]
  BY <1>1 DEF Patch
<1>3. at \in {"acquire", "copy"}
  OBVIOUS
<1> HIDE DEF b, at
<1>4. IsJob(k) /\ k.at = at
  <2>1. at \in Places
    BY <1>3 DEF Places
  <2> QED  BY <1>1, <2>1, JobPatches
<1> HIDE DEF k
<1>5. Positions'
  BY <1>1, <1>2 DEF Positions
<1> QED  BY <1>2, <1>3, <1>4, <1>5, GoesOnWithout DEF Holding

\* The caller goes on.
LEMMA ReturnedHolds == ASSUME NEW t \in DiskUsers PROVE DriveInv /\ (Returned(t) \/ RequestFailed(t)) => DriveInv'
<1> SUFFICES ASSUME DriveInv, Returned(t) \/ RequestFailed(t) PROVE DriveInv'
  OBVIOUS
<1>1. DOMAIN job = DiskUsers /\ IsJob(job[t]) /\ Positions /\ "ram" \in DOMAIN devs
  BY DEF DriveInv, Jobs
<1>2. job[t].at \in {"moved", "failed"} /\ UNCHANGED <<devs, busy, drive>> /\ job' = [job EXCEPT ![t] = NoJob]
  BY DEF Returned, RequestFailed, NotWritten
<1>3. IsJob(NoJob) /\ NoJob.at = "idle"
  BY <1>1, EmptyIsJob
<1>4. Positions'
  <2>1. job[t].dev \in DOMAIN devs /\ job[t].len \in Nat
    BY <1>1, JobFields
  <2>2. pos' = pos \/ pos' = [pos EXCEPT ![t][job[t].dev] = @ + job[t].len]
    BY DEF Returned, RequestFailed
  <2> QED  BY <1>1, <1>2, <2>1, <2>2 DEF Positions
<1> QED  BY <1>2, <1>3, <1>4, GoesOnWithout DEF Holding

\* READ and WRITE begin before the channel.
LEMMA AskHolds ==
    ASSUME NEW t \in DiskUsers, NEW w \in Windows[t], NEW op \in {"read", "write"}
    PROVE  DriveInv /\ Ask(t, op, w) => DriveInv'
<1> SUFFICES ASSUME DriveInv, Ask(t, op, w) PROVE DriveInv'
  OBVIOUS
<1> DEFINE off == IF w.handle THEN pos[t][w.dev] ELSE w.off
           mine == IF op = "write" THEN [k \in 1..(w.len + 2 * SectorSize) |-> 0] ELSE <<>>
           j == [NoJob EXCEPT !.op = op, !.dev = w.dev, !.off = off, !.len = w.len, !.handle = w.handle, !.buf = mine]
           reads == op = "read" \/ Readback(j)
           at == IF OnChannel(j) THEN "acquire" ELSE "copy"
           todo == IF reads THEN "read" ELSE "write"
           b == IF reads THEN <<>> ELSE Patched(j, t)
           k == [j EXCEPT !.at = at, !.todo = todo, !.buf = b]
<1>1. DOMAIN job = DiskUsers /\ Positions
  BY DEF DriveInv, Jobs
<1>2. /\ job[t].at = "idle" /\ UNCHANGED <<devs, busy, drive, pos>> /\ job' = [job EXCEPT ![t] = k]
      /\ w.dev \in DOMAIN devs
  BY DEF Ask
<1>3. at \in {"acquire", "copy"}
  OBVIOUS
<1>4. off \in Nat /\ w.len \in Nat
  BY <1>1, <1>2, MachinesAssumption DEF Positions
<1> HIDE DEF off, mine, at, todo, b
<1>5. j \in JobRec({mine})
  <2>1. w.handle \in BOOLEAN
    BY MachinesAssumption
  <2> QED  BY <1>2, <1>4, <2>1 DEF JobRec, NoJob, Places, Ops
<1>8. at \in Places /\ todo \in Ops
  BY <1>3 DEF Places, Ops, todo
<1> HIDE DEF j
<1>6. IsJob(k) /\ k.at = at
  <2>1. k \in JobRec({b}) /\ k.at = at
    BY <1>5, <1>8 DEF JobRec
  <2> HIDE DEF k
  <2> QED  BY <2>1 DEF IsJob
<1> HIDE DEF k
<1>7. Positions'
  BY <1>1, <1>2 DEF Positions
<1> QED  BY <1>2, <1>3, <1>6, <1>7, GoesOnWithout DEF Holding

\* A seek moves nothing but its handle.
LEMMA SeekHolds ==
    ASSUME NEW t \in DiskUsers, NEW w \in Windows[t]
    PROVE  DriveInv /\ BlockSeek(t, w) => DriveInv'
<1> SUFFICES ASSUME DriveInv, BlockSeek(t, w) PROVE DriveInv'
  OBVIOUS
<1> DEFINE size == devs[w.dev].count * SectorSize
           to == IF w.off > size THEN size ELSE w.off
<1>1. w.dev \in DOMAIN devs /\ pos' = [pos EXCEPT ![t][w.dev] = to] /\ UNCHANGED <<devs, job, busy, drive>>
  BY DEF BlockSeek
<1>2. to \in Nat
  <2>1. devs[w.dev].count \in Nat /\ SectorSize \in Nat
    BY <1>1, DrivesAssumption DEF DriveInv, DevicesFound
  <2>2. size \in Nat
    BY <2>1
  <2>3. w.off \in Nat
    BY MachinesAssumption
  <2> HIDE DEF size
  <2> QED  BY <2>2, <2>3
<1> HIDE DEF to
<1>3. Positions'
  BY <1>1, <1>2 DEF DriveInv, Positions
<1> QED  BY <1>1, <1>3, JobsStay

\* Each step keeps requests, channel and drive together.
LEMMA DriveInvStep == DriveInv /\ [DrivesNext]_driveVars => DriveInv'
<1> SUFFICES ASSUME DriveInv, [DrivesNext]_driveVars PROVE DriveInv'
  OBVIOUS
<1>1. ASSUME NEW d \in Faults, Sticks(d) PROVE DriveInv'
  BY <1>1, JobsStay DEF Sticks, DriveInv, Positions
<1>2. ASSUME NEW t \in DiskUsers, DriveStep(t) PROVE DriveInv'
  BY <1>2, AcquireHolds, CommandHolds, DataPhaseHolds, EndChunkHolds, FlushLetsGo, TimeoutLetsGo, CopyHolds,
     PatchHolds, ReturnedHolds DEF DriveStep
<1>3. ASSUME NEW t \in DiskUsers, NEW w \in Windows[t], BlockSeek(t, w) \/ Ask(t, "read", w) \/ Ask(t, "write", w)
      PROVE  DriveInv'
  BY <1>3, SeekHolds, AskHolds
<1>4. CASE UNCHANGED driveVars
  BY <1>4, JobsStay DEF driveVars, DriveInv, Positions
<1> QED  BY <1>1, <1>2, <1>3, <1>4 DEF DrivesNext

\* While a task moves data it holds the channel, and the drive is at its sector of its
\* command, whoever else asks either drive of the channel (ide.c:110-118, ata.c:155-230)
\* and whichever drives stop answering, for any machine, tasks and requests.
THEOREM DrivesDoAsAsked == DrivesSpec => []DriveDoesAsAsked
<1>1. DriveInv => DriveDoesAsAsked
  BY DEF DriveInv, Jobs, Holds, Holding, Asked, DriveDoesAsAsked
<1> QED  BY <1>1, DriveInvInit, DriveInvStep, PTL DEF DrivesSpec

-----------------------------------------------------------------------------
(***************************************************************************)
(* What the drives hold: every byte is what was last written to it, as     *)
(* long as no two tasks write to the same sector at once.                  *)
(***************************************************************************)
\* The product is linear in each factor.
LEMMA Distributes == \A a, b, c \in Int : (a + b) * c = a * c + b * c /\ a * c \in Int
  OBVIOUS

\* The last of a and b blocks.
LEMMA LastOf == \A a, b, c \in Int : (a + b - 1) * c = a * c + b * c - c
  OBVIOUS

\* And monotonic.
LEMMA ProductOrder == ASSUME NEW a \in Int, NEW b \in Int, NEW n \in Nat, a <= b PROVE a * n <= b * n
  OBVIOUS

\* A quotient and its remainder.
LEMMA Quotient ==
    ASSUME NEW n \in Nat \ {0}, NEW a \in Int
    PROVE  a \div n \in Int /\ (a \div n) * n <= a /\ a < (a \div n) * n + n /\ a % n = a - (a \div n) * n
  OBVIOUS

\* There is no other.
LEMMA QuotientIs ==
    ASSUME NEW n \in Nat \ {0}, NEW a \in Int, NEW q \in Int, q * n <= a, a < q * n + n
    PROVE  a \div n = q
<1> DEFINE p == a \div n
<1>1. p \in Int /\ p * n <= a /\ a < p * n + n
  BY Quotient
<1> HIDE DEF p
<1>2. CASE p >= q + 1
  <2>1. (q + 1) * n <= p * n
    BY <1>1, <1>2, ProductOrder
  <2>2. (q + 1) * n = q * n + n
    OBVIOUS
  <2> QED  BY <1>1, <2>1, <2>2
<1>3. CASE p + 1 <= q
  <2>1. (p + 1) * n <= q * n
    BY <1>1, <1>3, ProductOrder
  <2>2. (p + 1) * n = p * n + n
    BY <1>1
  <2> QED  BY <1>1, <2>1, <2>2
<1> QED  BY <1>1, <1>2, <1>3 DEF p

-----------------------------------------------------------------------------
(* The inductive invariant.                                                *)

\* The first sector of a request, the place of a byte of the drive in its buffer, and the
\* bytes that it may write or has come to.
First(j) == devs[j.dev].start + FirstBlock(j)
At(j, x) == x - First(j) * SectorSize + 1
InBlocks(j, b) ==
    b[1] = DriveOf(j) /\ First(j) * SectorSize <= b[2] /\ b[2] < (First(j) + Blocks(j)) * SectorSize
Reached(j, b) == b[2] < (First(j) + j.done + j.i) * SectorSize
Byte(b) == media[b[1]][b[2]]

\* Requests that write, and the condition of the theorem.
Writing(j) == j.op = "write" /\ j.at \notin {"idle", "failed"}
Sectors(j) == {<<DriveOf(j), s>> : s \in First(j)..(First(j) + Blocks(j) - 1)}
Apart ==
    \A t, u \in DiskUsers :
        t # u /\ Writing(job[t]) /\ Writing(job[u]) => Sectors(job[t]) \intersect Sectors(job[u]) = {}

Filled(j, n) == Len(j.buf) = n /\ \E V : j.buf \in Seq(V)

\* What was read back is what is on the drive.
HasRead(j) ==
    /\ Filled(j, (j.done + j.i) * SectorSize)
    /\ \A b \in DOMAIN shadow : InBlocks(j, b) /\ Reached(j, b) => j.buf[At(j, b[2])] = Byte(b)

\* What is written is the caller's bytes and what is on the drive beside them; as far
\* as the request has come it is there.
HasToWrite(j, t) ==
    \A b \in DOMAIN shadow : InBlocks(j, b) =>
          /\ b \in Window(j) => j.buf[At(j, b[2])] = t /\ t \in shadow[b] /\ (Reached(j, b) => Byte(b) = t)
          /\ b \notin Window(j) => j.buf[At(j, b[2])] = Byte(b)

Comes(j) ==
    /\ j.at # "idle" => j.op \in {"read", "write"} /\ j.todo \in {"read", j.op}
    /\ j.at \in {"flush", "moved"} => j.done + j.i = Blocks(j)
    /\ j.at = "copy" => j.done = 0
    /\ j.at = "acquire" => j.i = 0
Carries(j, t) == Writing(j) => (j.todo = "read" => HasRead(j)) /\ (j.todo # "read" => HasToWrite(j, t))

Shadowed ==
    \A b \in DOMAIN shadow :
        b = <<b[1], b[2]>> /\ b[1] \in DOMAIN media /\ b[2] \in DOMAIN media[b[1]] /\ b[2] \in Nat

DataInv == Shadowed /\ BytesAreKept /\ \A t \in DiskUsers : Comes(job[t]) /\ Carries(job[t], t)

-----------------------------------------------------------------------------
(* Where the bytes of a request are.                                       *)

\* The numbers of a request, and where its first byte is.
LEMMA Layout ==
    ASSUME DriveInv, NEW j, IsJob(j)
    PROVE  /\ SectorSize \in Nat \ {0} /\ First(j) \in Int /\ Blocks(j) \in Nat /\ j.done \in Nat /\ j.i \in Nat
           /\ j.off \in Nat /\ j.len \in Nat /\ devs[j.dev].start \in Nat /\ FirstBlock(j) \in Int
           /\ First(j) = devs[j.dev].start + FirstBlock(j)
           /\ FirstBlock(j) * SectorSize <= j.off /\ j.off < FirstBlock(j) * SectorSize + SectorSize
           /\ First(j) * SectorSize = devs[j.dev].start * SectorSize + FirstBlock(j) * SectorSize
           /\ (First(j) + Blocks(j)) * SectorSize = First(j) * SectorSize + Blocks(j) * SectorSize
           /\ j.off + j.len <= FirstBlock(j) * SectorSize + Blocks(j) * SectorSize
           /\ {First(j) * SectorSize, Blocks(j) * SectorSize, FirstBlock(j) * SectorSize,
               devs[j.dev].start * SectorSize} \subseteq Int
<1>1. /\ j.off \in Nat /\ j.len \in Nat /\ j.done \in Nat /\ j.i \in Nat /\ devs[j.dev].start \in Nat
      /\ SectorSize \in Nat \ {0}
  BY JobFields, DrivesAssumption DEF DriveInv, DevicesFound
<1> DEFINE f == FirstBlock(j)
           l == (j.off + j.len - 1) \div SectorSize
           n == Blocks(j)
           s == devs[j.dev].start
<1>2. f \in Int /\ f * SectorSize <= j.off /\ j.off < f * SectorSize + SectorSize
  <2>1. j.off \in Int /\ FirstBlock(j) = j.off \div SectorSize
    BY <1>1 DEF FirstBlock
  <2> QED  BY <1>1, <2>1, Quotient, Zenon
<1>3. l \in Int /\ j.off + j.len - 1 < l * SectorSize + SectorSize /\ l * SectorSize <= j.off + j.len - 1
  <2>1. j.off + j.len - 1 \in Int
    BY <1>1
  <2> QED  BY <1>1, <2>1, Quotient, Zenon
<1>4. n = l - f + 1
  BY DEF Blocks
<1>5. First(j) = s + f
  BY DEF First
<1> HIDE DEF f, l, n, s
<1>6. l + 1 >= f
  <2> SUFFICES ASSUME l + 2 <= f PROVE FALSE
    BY <1>2, <1>3
  <2>1. (l + 2) * SectorSize <= f * SectorSize
    BY <1>1, <1>2, <1>3, ProductOrder
  <2>2. (l + 2) * SectorSize = l * SectorSize + 2 * SectorSize
    BY <1>1, <1>3, Distributes
  <2>3. l * SectorSize \in Int /\ f * SectorSize \in Int
    BY <1>1, <1>2, <1>3
  <2> QED  BY <1>1, <1>2, <1>3, <2>1, <2>2, <2>3
<1>7. n \in Nat /\ f + n = l + 1
  BY <1>2, <1>3, <1>4, <1>6
<1>8. /\ First(j) \in Int /\ First(j) * SectorSize = s * SectorSize + f * SectorSize
      /\ (First(j) + n) * SectorSize = First(j) * SectorSize + n * SectorSize
      /\ {First(j) * SectorSize, n * SectorSize, f * SectorSize, s * SectorSize} \subseteq Int
  BY <1>1, <1>2, <1>5, <1>7, Distributes DEF s
<1>9. j.off + j.len <= f * SectorSize + n * SectorSize
  <2>1. (f + n) * SectorSize = f * SectorSize + n * SectorSize
    BY <1>1, <1>2, <1>7, Distributes
  <2>2. (l + 1) * SectorSize = l * SectorSize + SectorSize
    BY <1>1, <1>3, Distributes
  <2>3. l * SectorSize \in Int
    BY <1>1, <1>3, Distributes
  <2> QED  BY <1>1, <1>3, <1>7, <1>8, <2>1, <2>2, <2>3
<1> QED  BY <1>1, <1>2, <1>5, <1>7, <1>8, <1>9 DEF f, n, s

\* The window of a request, by numbers; it is in its blocks.
LEMMA WindowIs ==
    ASSUME DriveInv, Shadowed, NEW j, IsJob(j), NEW b \in DOMAIN shadow
    PROVE  /\ b \in Window(j) <=> /\ b[1] = DriveOf(j)
                                  /\ devs[j.dev].start * SectorSize + j.off <= b[2]
                                  /\ b[2] < devs[j.dev].start * SectorSize + j.off + j.len
           /\ b \in Window(j) => InBlocks(j, b)
<1> DEFINE w == devs[j.dev].start * SectorSize + j.off
<1>1. b = <<b[1], b[2]>> /\ b[2] \in Nat
  BY DEF Shadowed
<1>2. w \in Int /\ j.len \in Nat
  BY Layout
<1>3. \A k : Place(j, k) = w + k
  BY DEF Place
<1> HIDE DEF w
<1>4. b \in Window(j) <=> \E k \in 0..(j.len - 1) : b[1] = DriveOf(j) /\ b[2] = w + k
  BY <1>1, <1>3 DEF Window
<1>5. b \in Window(j) <=> b[1] = DriveOf(j) /\ w <= b[2] /\ b[2] < w + j.len
  <2>1. ASSUME b[1] = DriveOf(j), w <= b[2], b[2] < w + j.len PROVE b \in Window(j)
    <3>1. b[2] - w \in 0..(j.len - 1) /\ b[2] = w + (b[2] - w)
      BY <1>1, <1>2, <2>1
    <3> QED  BY <1>4, <2>1, <3>1
  <2>2. ASSUME b \in Window(j) PROVE b[1] = DriveOf(j) /\ w <= b[2] /\ b[2] < w + j.len
    BY <1>1, <1>2, <1>4, <2>2
  <2> QED  BY <2>1, <2>2
<1>6. b \in Window(j) => InBlocks(j, b)
  <2> SUFFICES ASSUME b \in Window(j) PROVE InBlocks(j, b)
    OBVIOUS
  <2>1. b[1] = DriveOf(j) /\ w <= b[2] /\ b[2] < w + j.len
    BY <1>5
  <2>2. First(j) * SectorSize <= w /\ w + j.len <= (First(j) + Blocks(j)) * SectorSize
    BY Layout DEF w
  <2>3. First(j) * SectorSize \in Int /\ (First(j) + Blocks(j)) * SectorSize \in Int
    BY Layout
  <2> QED  BY <1>1, <1>2, <2>1, <2>2, <2>3 DEF InBlocks
<1> QED  BY <1>5, <1>6 DEF w

\* Requests for the same bytes are at the same place.
LEMMA SamePlace ==
    ASSUME NEW j, NEW k, k.dev = j.dev, k.off = j.off, k.len = j.len
    PROVE  /\ DriveOf(k) = DriveOf(j) /\ FirstBlock(k) = FirstBlock(j) /\ First(k) = First(j) /\ Blocks(k) = Blocks(j)
           /\ Window(k) = Window(j) /\ OnChannel(k) = OnChannel(j) /\ Aligned(k) = Aligned(j)
           /\ \A x : At(k, x) = At(j, x)
           /\ \A b : InBlocks(k, b) = InBlocks(j, b)
  BY DEF DriveOf, FirstBlock, First, Blocks, Window, OnChannel, At, InBlocks, Place, Aligned

\* A byte is in one sector, and the blocks of a request are its sectors.
LEMMA SectorOf ==
    ASSUME DriveInv, Shadowed, NEW j, IsJob(j), NEW b \in DOMAIN shadow
    PROVE  /\ \A s \in Int : b[2] \div SectorSize = s <=> s * SectorSize <= b[2] /\ b[2] < s * SectorSize + SectorSize
           /\ InBlocks(j, b) <=> <<b[1], b[2] \div SectorSize>> \in Sectors(j)
<1> DEFINE q == b[2] \div SectorSize
           F == First(j)
           n == Blocks(j)
<1>1. b[2] \in Nat /\ SectorSize \in Nat \ {0} /\ F \in Int /\ n \in Nat
  BY Layout DEF Shadowed
<1>2. \A s \in Int : s * SectorSize <= b[2] /\ b[2] < s * SectorSize + SectorSize => q = s
  BY <1>1, QuotientIs
<1>3. q \in Int /\ q * SectorSize <= b[2] /\ b[2] < q * SectorSize + SectorSize
  <2>1. b[2] \in Int
    BY <1>1
  <2> QED  BY <1>1, <2>1, Quotient, Zenon
<1> HIDE DEF q, F, n
<1>4. \A s \in Int : q = s <=> s * SectorSize <= b[2] /\ b[2] < s * SectorSize + SectorSize
  BY <1>2, <1>3
<1>5. F * SectorSize <= b[2] <=> F <= q
  <2>1. ASSUME F <= q PROVE F * SectorSize <= b[2]
    <3>1. F * SectorSize <= q * SectorSize
      BY <1>1, <1>3, <2>1, ProductOrder
    <3>2. F * SectorSize \in Int /\ q * SectorSize \in Int
      BY <1>1, <1>3, Distributes
    <3> QED  BY <1>1, <1>3, <3>1, <3>2
  <2>2. ASSUME F >= q + 1 PROVE b[2] < F * SectorSize
    <3>1. (q + 1) * SectorSize <= F * SectorSize
      BY <1>1, <1>3, <2>2, ProductOrder
    <3>2. F * SectorSize \in Int /\ q * SectorSize \in Int /\ (q + 1) * SectorSize = q * SectorSize + SectorSize
      BY <1>1, <1>3, Distributes
    <3> QED  BY <1>1, <1>3, <3>1, <3>2
  <2>3. F * SectorSize \in Int
    BY <1>1, Distributes
  <2> QED  BY <1>1, <1>3, <2>1, <2>2, <2>3
<1>6. b[2] < (F + n) * SectorSize <=> q < F + n
  <2> DEFINE e == F + n
  <2>0. e \in Int
    BY <1>1
  <2> HIDE DEF e
  <2>1. ASSUME q + 1 <= e PROVE b[2] < e * SectorSize
    <3>1. (q + 1) * SectorSize <= e * SectorSize
      BY <1>1, <1>3, <2>0, <2>1, ProductOrder
    <3>2. e * SectorSize \in Int /\ q * SectorSize \in Int /\ (q + 1) * SectorSize = q * SectorSize + SectorSize
      BY <1>1, <1>3, <2>0, Distributes
    <3> QED  BY <1>1, <1>3, <3>1, <3>2
  <2>2. ASSUME e <= q PROVE e * SectorSize <= b[2]
    <3>1. e * SectorSize <= q * SectorSize
      BY <1>1, <1>3, <2>0, <2>2, ProductOrder
    <3>2. e * SectorSize \in Int /\ q * SectorSize \in Int
      BY <1>1, <1>3, <2>0, Distributes
    <3> QED  BY <1>1, <1>3, <3>1, <3>2
  <2>3. e * SectorSize \in Int
    BY <1>1, <2>0, Distributes
  <2>4. b[2] < e * SectorSize <=> q < e
    BY <1>1, <1>3, <2>0, <2>1, <2>2, <2>3
  <2> QED  BY <2>4 DEF e
<1>7. <<b[1], q>> \in Sectors(j) <=> b[1] = DriveOf(j) /\ F <= q /\ q < F + n
  <2>1. <<b[1], q>> \in Sectors(j) <=> \E s \in F..(F + n - 1) : <<b[1], q>> = <<DriveOf(j), s>>
    BY DEF Sectors, F, n
  <2> QED  BY <1>1, <1>3, <2>1
<1>8. InBlocks(j, b) <=> <<b[1], q>> \in Sectors(j)
  BY <1>5, <1>6, <1>7 DEF InBlocks, F, n
<1> QED  BY <1>4, <1>8 DEF q

\* Requests that write have no byte in common.
LEMMA NoneShared ==
    ASSUME DriveInv, Shadowed, Apart, NEW t \in DiskUsers, NEW u \in DiskUsers \ {t}, NEW b \in DOMAIN shadow,
           Writing(job[t]), Writing(job[u]), InBlocks(job[t], b)
    PROVE  ~InBlocks(job[u], b)
<1>1. IsJob(job[t]) /\ IsJob(job[u])
  BY DEF DriveInv, Jobs
<1>2. Sectors(job[t]) \intersect Sectors(job[u]) = {}
  BY DEF Apart
<1> QED  BY <1>1, <1>2, SectorOf

\* What the patched blocks hold.
LEMMA PatchedIs ==
    ASSUME DriveInv, Shadowed, NEW j, IsJob(j), NEW t, NEW b \in DOMAIN shadow, InBlocks(j, b)
    PROVE  Patched(j, t)[At(j, b[2])] = IF b \in Window(j) THEN t ELSE j.buf[At(j, b[2])]
<1> DEFINE skip == j.off - FirstBlock(j) * SectorSize
           k == At(j, b[2])
<1>1. b[2] \in Nat /\ b[1] = DriveOf(j)
  BY DEF Shadowed, InBlocks
<1>2. k \in 1..(Blocks(j) * SectorSize)
  BY <1>1, Layout DEF At, InBlocks
<1>3. k - 1 \in skip..(skip + j.len - 1) <=> b \in Window(j)
  <2>1. b \in Window(j) <=> /\ devs[j.dev].start * SectorSize + j.off <= b[2]
                            /\ b[2] < devs[j.dev].start * SectorSize + j.off + j.len
    BY <1>1, WindowIs
  <2> QED  BY <1>1, <2>1, Layout DEF At
<1>4. Patched(j, t)[k] = IF k - 1 \in skip..(skip + j.len - 1) THEN t ELSE j.buf[k]
  BY <1>2 DEF Patched
<1> QED  BY <1>3, <1>4

\* A write of whole blocks has nothing to keep.
LEMMA AlignedIsAll ==
    ASSUME DriveInv, Shadowed, NEW j, IsJob(j), Aligned(j), NEW b \in DOMAIN shadow, InBlocks(j, b)
    PROVE  b \in Window(j)
<1> DEFINE f == FirstBlock(j)
           l == (j.off + j.len - 1) \div SectorSize
           m == j.len \div SectorSize
           s == devs[j.dev].start * SectorSize
<1>1. /\ b[2] \in Nat /\ j.off \in Nat /\ j.len \in Nat /\ SectorSize \in Nat \ {0} /\ s \in Int
      /\ First(j) * SectorSize = s + f * SectorSize /\ f \in Int /\ Blocks(j) \in Nat
      /\ (First(j) + Blocks(j)) * SectorSize = s + f * SectorSize + Blocks(j) * SectorSize
  BY Layout DEF Shadowed
<1>2. f * SectorSize = j.off
  <2>1. j.off \in Int /\ f = j.off \div SectorSize
    BY <1>1 DEF FirstBlock
  <2>2. j.off % SectorSize = j.off - f * SectorSize
    BY <1>1, <2>1, Quotient, Zenon
  <2>3. j.off % SectorSize = 0
    BY DEF Aligned
  <2>4. f * SectorSize \in Int
    BY <1>1, Distributes
  <2> QED  BY <1>1, <2>2, <2>3, <2>4
<1>3. m \in Int /\ m * SectorSize = j.len
  <2>1. j.len \in Int
    BY <1>1
  <2>2. m \in Int /\ j.len % SectorSize = j.len - m * SectorSize
    BY <1>1, <2>1, Quotient, Zenon
  <2>3. j.len % SectorSize = 0
    BY DEF Aligned
  <2>4. m * SectorSize \in Int
    BY <1>1, <2>2, Distributes
  <2> QED  BY <1>1, <2>2, <2>3, <2>4
<1>4. Blocks(j) = m
  <2> DEFINE a == j.off + j.len - 1
  <2>1. a \in Int
    BY <1>1
  <2>2. (f + m - 1) * SectorSize = f * SectorSize + m * SectorSize - SectorSize
    BY <1>1, <1>3, LastOf
  <2>3. (f + m - 1) * SectorSize <= a /\ a < (f + m - 1) * SectorSize + SectorSize
    BY <1>1, <1>2, <1>3, <2>2
  <2>4. f + m - 1 \in Int
    BY <1>1, <1>3
  <2>5. a \div SectorSize = f + m - 1
    BY <1>1, <2>1, <2>3, <2>4, QuotientIs
  <2>6. Blocks(j) = a \div SectorSize - f + 1
    BY DEF Blocks
  <2> QED  BY <1>1, <1>3, <2>5, <2>6
<1> HIDE DEF f, m, s
<1>5. s + j.off <= b[2] /\ b[2] < s + j.off + j.len /\ b[1] = DriveOf(j)
  BY <1>1, <1>2, <1>3, <1>4 DEF InBlocks
<1> QED  BY <1>5, WindowIs DEF s

-----------------------------------------------------------------------------
(* Sectors moved.                                                          *)

\* A sector as it is written, byte by byte.
LEMMA SliceIs ==
    ASSUME DriveInv, Shadowed, NEW j, IsJob(j), NEW b \in DOMAIN shadow, b[2] \div SectorSize = Sector(j)
    PROVE  Slice(j)[(b[2] % SectorSize) + 1] = j.buf[At(j, b[2])]
<1> DEFINE d == j.done + j.i
           m == d * SectorSize + 1
           n == (d + 1) * SectorSize
           q == Sector(j)
           F == First(j)
           x == b[2]
<1>1. /\ x \in Nat /\ SectorSize \in Nat \ {0} /\ F \in Int /\ d \in Nat /\ F * SectorSize \in Int
  BY Layout DEF Shadowed
<1>2. q = F + d
  BY Layout DEF Sector, First
<1>3. x \div SectorSize = q
  OBVIOUS
<1> HIDE DEF d, q, F, x
<1>4. /\ q * SectorSize = F * SectorSize + d * SectorSize /\ d * SectorSize \in Int
      /\ n = d * SectorSize + SectorSize /\ m \in Int /\ n \in Int
  BY <1>1, <1>2, Distributes
<1>5. x % SectorSize = x - q * SectorSize /\ q * SectorSize <= x /\ x < q * SectorSize + SectorSize
  <2>1. x \in Int
    BY <1>1
  <2>2. /\ (x \div SectorSize) * SectorSize <= x /\ x < (x \div SectorSize) * SectorSize + SectorSize
        /\ x % SectorSize = x - (x \div SectorSize) * SectorSize
    BY <1>1, <2>1, Quotient, Zenon
  <2> QED  BY <1>3, <2>2
<1> DEFINE k == (x % SectorSize) + 1
<1>6. k \in 1..(n - m + 1) /\ m + k - 1 = x - F * SectorSize + 1
  BY <1>1, <1>4, <1>5
<1> HIDE DEF m, n
<1>7. SubSeq(j.buf, m, n)[k] = j.buf[m + k - 1]
  <2>1. \A i \in m..n : j.buf[i] \in {j.buf[h] : h \in m..n}
    OBVIOUS
  <2> QED  BY <1>4, <1>6, <2>1, SubSeqProperties
<1>8. At(j, b[2]) = m + k - 1
  BY <1>6 DEF At, F, x
<1>9. Slice(j) = SubSeq(j.buf, m, n)
  BY DEF Slice, m, n, d
<1> QED  BY <1>7, <1>8, <1>9 DEF x

\* What a sector that is written leaves on the drives.
LEMMA PutIs ==
    ASSUME Shadowed, NEW d, NEW s, NEW bytes, media' = Put(d, s, bytes)
    PROVE  /\ DOMAIN media' = DOMAIN media /\ \A e \in DOMAIN media : DOMAIN media'[e] = DOMAIN media[e]
           /\ \A b \in DOMAIN shadow :
                 media'[b[1]][b[2]] = IF b[1] = d /\ b[2] \div SectorSize = s THEN bytes[(b[2] % SectorSize) + 1] ELSE Byte(b)
<1>1. DOMAIN media' = DOMAIN media
  BY DEF Put
<1>2. ASSUME NEW e \in DOMAIN media, e # d PROVE media'[e] = media[e]
  BY <1>2 DEF Put
<1>3. d \in DOMAIN media =>
        media'[d] = [x \in DOMAIN media[d] |-> IF x \div SectorSize = s THEN bytes[(x % SectorSize) + 1] ELSE media[d][x]]
  BY DEF Put
<1> QED  BY <1>1, <1>2, <1>3 DEF Shadowed, Byte

\* What a sector that is read holds.
LEMMA SectorBytesAre ==
    ASSUME NEW d, NEW s, SectorSize \in Nat
    PROVE  /\ \E V : SectorBytes(d, s) \in Seq(V)
           /\ Len(SectorBytes(d, s)) = SectorSize
           /\ \A k \in 1..SectorSize : SectorBytes(d, s)[k] = media[d][s * SectorSize + k - 1]
<1> DEFINE V == {media[d][s * SectorSize + k - 1] : k \in 1..SectorSize}
           f == SectorBytes(d, s)
<1>1. f \in [1..SectorSize -> V] /\ \A k \in 1..SectorSize : f[k] = media[d][s * SectorSize + k - 1]
  BY DEF SectorBytes
<1> HIDE DEF f, V
<1>2. f \in Seq(V) /\ Len(f) = SectorSize
  BY <1>1, FcnIsSeq
<1> QED  BY <1>1, <1>2 DEF f, V


-----------------------------------------------------------------------------
(* Steps that leave the bytes alone.                                       *)

\* A request after a step that leaves the devices alone.
LEMMA AfterStep ==
    ASSUME NEW u, NEW k, job'[u] = k, devs' = devs
    PROVE  /\ Comes(job[u])' <=> Comes(k)
           /\ Writing(job[u])' <=> Writing(k)
           /\ DriveOf(job[u])' = DriveOf(k) /\ First(job[u])' = First(k) /\ Blocks(job[u])' = Blocks(k)
           /\ Window(job[u])' = Window(k)
           /\ \A b : (InBlocks(job[u], b)' <=> InBlocks(k, b)) /\ (Reached(job[u], b)' <=> Reached(k, b))
           /\ \A x : At(job[u], x)' = At(k, x)
  BY DEF Comes, Writing, DriveOf, First, FirstBlock, Blocks, Window, Place, InBlocks, Reached, At

\* What the others carry is not touched.
LEMMA OthersCarry ==
    ASSUME DriveInv, Shadowed, Apart, NEW t \in DiskUsers, NEW u \in DiskUsers \ {t}, NEW k, job[u] = k, job'[u] = k,
           devs' = devs, DOMAIN shadow' = DOMAIN shadow, Comes(k), Carries(k, u),
           \A b \in DOMAIN shadow : ~(Writing(job[t]) /\ InBlocks(job[t], b)) =>
                                        Byte(b)' = Byte(b) /\ shadow[b] \subseteq shadow'[b]
    PROVE  Comes(job[u])' /\ Carries(job[u], u)'
<1>1. Comes(job[u])'
  BY AfterStep
<1>2. Writing(k) => \A b \in DOMAIN shadow : InBlocks(k, b) => Byte(b)' = Byte(b) /\ shadow[b] \subseteq shadow'[b]
  BY NoneShared
<1>3. HasRead(k) /\ Writing(k) => HasRead(job[u])'
  BY <1>2, AfterStep DEF HasRead, Filled, InBlocks, Reached, At, Byte
<1>4. HasToWrite(k, u) /\ Writing(k) => HasToWrite(job[u], u)'
  BY <1>2, AfterStep DEF HasToWrite, InBlocks, Reached, At, Byte
<1>5. Writing(job[u])' = Writing(k) /\ job[u].todo' = k.todo
  BY AfterStep
<1> QED  BY <1>1, <1>3, <1>4, <1>5 DEF Carries

\* So a step of one task keeps the invariant if it does so for its own request.
LEMMA DataKept ==
    ASSUME DataInv, DriveInv, Apart, NEW t \in DiskUsers, NEW k, job' = [job EXCEPT ![t] = k], devs' = devs,
           DOMAIN shadow' = DOMAIN shadow, DOMAIN media' = DOMAIN media,
           \A e \in DOMAIN media : DOMAIN media'[e] = DOMAIN media[e],
           \A b \in DOMAIN shadow : ~(Writing(job[t]) /\ InBlocks(job[t], b)) =>
                                        Byte(b)' = Byte(b) /\ shadow[b] \subseteq shadow'[b],
           BytesAreKept', Comes(k), Carries(job[t], t)'
    PROVE  DataInv'
<1>1. Shadowed'
  BY DEF DataInv, Shadowed
<1>2. Comes(job[t])'
  <2>1. job'[t] = k
    BY DEF DriveInv, Jobs
  <2> QED  BY <2>1, AfterStep
<1>3. ASSUME NEW u \in DiskUsers \ {t} PROVE Comes(job[u])' /\ Carries(job[u], u)'
  <2>1. job'[u] = job[u] /\ Comes(job[u]) /\ Carries(job[u], u) /\ Shadowed
    BY DEF DriveInv, Jobs, DataInv
  <2> QED  BY <2>1, OthersCarry
<1> QED  BY <1>1, <1>2, <1>3 DEF DataInv

\* A request that goes on elsewhere.
LEMMA GoesOnElsewhere ==
    ASSUME DataInv, DriveInv, Apart, NEW t \in DiskUsers, NEW k, IsJob(k), job' = [job EXCEPT ![t] = k],
           UNCHANGED <<devs, media, shadow>>, Comes(k),
           /\ k.op = job[t].op /\ k.dev = job[t].dev /\ k.off = job[t].off /\ k.len = job[t].len
           /\ k.todo = job[t].todo /\ k.buf = job[t].buf /\ k.done + k.i = job[t].done + job[t].i,
           Writing(k) => Writing(job[t])
    PROVE  DataInv'
<1>1. BytesAreKept'
  BY DEF DataInv, BytesAreKept
<1>2. Carries(job[t], t)'
  <2> DEFINE j == job[t]
  <2>1. job'[t] = k /\ Carries(j, t) /\ IsJob(j)
    BY DEF DriveInv, Jobs, DataInv
  <2>2. /\ First(k) = First(j) /\ Blocks(k) = Blocks(j) /\ Window(k) = Window(j)
        /\ \A b : (InBlocks(k, b) <=> InBlocks(j, b)) /\ At(k, b[2]) = At(j, b[2])
    BY SamePlace
  <2>3. \A b : Reached(k, b) <=> Reached(j, b)
    <3>1. First(k) + k.done + k.i = First(j) + j.done + j.i
      <4>1. First(j) \in Int /\ j.done \in Nat /\ j.i \in Nat
        BY <2>1, Layout
      <4>2. k.done \in Nat /\ k.i \in Nat
        BY Layout
      <4> QED  BY <4>2, <2>2, <4>1
    <3> QED  BY <3>1 DEF Reached
  <2>4. HasRead(j) => HasRead(job[t])'
    BY <2>1, <2>2, <2>3, AfterStep DEF HasRead, Filled, InBlocks, Reached, At, Byte
  <2>5. HasToWrite(j, t) => HasToWrite(job[t], t)'
    BY <2>1, <2>2, <2>3, AfterStep DEF HasToWrite, InBlocks, Reached, At, Byte
  <2>6. Writing(job[t])' = Writing(k) /\ job[t].todo' = j.todo
    BY <2>1, AfterStep
  <2> QED  BY <2>1, <2>4, <2>5, <2>6 DEF Carries
<1>3. \A b \in DOMAIN shadow : Byte(b)' = Byte(b) /\ shadow[b] \subseteq shadow'[b]
  BY DEF Byte
<1> QED  BY <1>1, <1>2, <1>3, DataKept

\* A task gets the channel.
LEMMA AcquireCarries == ASSUME NEW t \in DiskUsers PROVE DataInv /\ DriveInv /\ Apart /\ Acquire(t) => DataInv'
<1> SUFFICES ASSUME DataInv, DriveInv, Apart, Acquire(t) PROVE DataInv'
  OBVIOUS
<1> DEFINE j == job[t]
           k == [j EXCEPT !.at = "command", !.i = 0]
<1>1. DOMAIN job = DiskUsers /\ IsJob(j) /\ Comes(j)
  BY DEF DriveInv, Jobs, DataInv
<1>2. j.at = "acquire" /\ UNCHANGED <<devs, media, shadow>> /\ job' = [job EXCEPT ![t] = k]
  BY <1>1 DEF Acquire
<1>3. IsJob(k) /\ k.at = "command" /\ k.i = 0 /\ j.i = 0 /\ k.done = j.done
      /\ k.op = j.op /\ k.dev = j.dev /\ k.off = j.off /\ k.len = j.len /\ k.todo = j.todo /\ k.buf = j.buf
  <2>1. IsJob(k) /\ k.at = "command" /\ k.i = 0
    BY <1>1, JobRestarts DEF Places
  <2>2. j.i = 0
    BY <1>1, <1>2 DEF Comes
  <2> QED  BY <1>1, <2>1, <2>2 DEF IsJob, JobRec
<1> HIDE DEF k
<1>4. Comes(k) /\ (Writing(k) => Writing(j))
  BY <1>1, <1>2, <1>3 DEF Comes, Writing
<1> QED  BY <1>2, <1>3, <1>4, GoesOnElsewhere

\* Steps that only say where the request is.
LEMMA MovesOn ==
    ASSUME DataInv, DriveInv, Apart, NEW t \in DiskUsers, NEW at \in Places \ {"idle", "acquire", "copy"},
           job' = [job EXCEPT ![t] = [@ EXCEPT !.at = at]],
           UNCHANGED <<devs, media, shadow>>, job[t].at \notin {"idle", "failed"},
           at \in {"flush", "moved"} => job[t].done + job[t].i = Blocks(job[t])
    PROVE  DataInv'
<1> DEFINE j == job[t]
           k == [j EXCEPT !.at = at]
<1>1. DOMAIN job = DiskUsers /\ IsJob(j) /\ Comes(j)
  BY DEF DriveInv, Jobs, DataInv
<1>2. job' = [job EXCEPT ![t] = k]
  BY <1>1
<1>3. IsJob(k) /\ k.at = at /\ k.i = j.i /\ k.done = j.done
      /\ k.op = j.op /\ k.dev = j.dev /\ k.off = j.off /\ k.len = j.len /\ k.todo = j.todo /\ k.buf = j.buf
  <2>1. IsJob(k) /\ k.at = at /\ k.i = j.i
    BY <1>1, JobMoves
  <2> QED  BY <1>1, <2>1 DEF IsJob, JobRec
<1> HIDE DEF k
<1>4. Blocks(k) = Blocks(j)
  BY <1>3, SamePlace
<1>5. Comes(k) /\ (Writing(k) => Writing(j))
  BY <1>1, <1>3, <1>4 DEF Comes, Writing
<1> QED  BY <1>2, <1>3, <1>5, GoesOnElsewhere

\* It gives a command.
LEMMA CommandCarries == ASSUME NEW t \in DiskUsers PROVE DataInv /\ DriveInv /\ Apart /\ Command(t) => DataInv'
<1> SUFFICES ASSUME DataInv, DriveInv, Apart, Command(t) PROVE DataInv'
  OBVIOUS
<1>1. /\ job[t].at = "command" /\ UNCHANGED <<devs, media, shadow>>
      /\ job' = [job EXCEPT ![t] = [@ EXCEPT !.at = "data"]]
  BY DEF Command, DriveInv, Jobs
<1> QED  BY <1>1, MovesOn DEF Places

\* The request is moved: it waits for the caller.
LEMMA FlushCarries ==
    ASSUME NEW t \in DiskUsers PROVE DataInv /\ DriveInv /\ Apart /\ (Flush(t) \/ Copied(t)) => DataInv'
<1> SUFFICES ASSUME DataInv, DriveInv, Apart, Flush(t) \/ Copied(t) PROVE DataInv'
  OBVIOUS
<1>1. /\ job[t].at \in {"flush", "copy"} /\ UNCHANGED <<devs, media, shadow>>
      /\ job' = [job EXCEPT ![t] = [@ EXCEPT !.at = "moved"]]
  BY DEF Flush, Copied, DriveInv, Jobs
<1>2. job[t].done + job[t].i = Blocks(job[t])
  <2>1. Comes(job[t]) /\ job[t].i \in Nat
    BY Layout DEF DataInv, DriveInv, Jobs
  <2>2. job[t].at = "copy" => job[t].i = Blocks(job[t])
    BY DEF Flush, Copied
  <2> QED  BY <1>1, <2>1, <2>2 DEF Comes
<1> QED  BY <1>1, <1>2, MovesOn DEF Places

\* It fails.
LEMMA TimeoutCarries ==
    ASSUME NEW t \in DiskUsers PROVE DataInv /\ DriveInv /\ Apart /\ (Timeout(t) \/ Refused(t)) => DataInv'
<1> SUFFICES ASSUME DataInv, DriveInv, Apart, Timeout(t) \/ Refused(t) PROVE DataInv'
  OBVIOUS
<1>1. /\ job[t].at \in {"command", "data", "flush"} /\ UNCHANGED <<devs, media, shadow>>
      /\ job' = [job EXCEPT ![t] = [@ EXCEPT !.at = "failed"]]
  BY DEF Timeout, Refused
<1> QED  BY <1>1, MovesOn DEF Places

\* A chunk is over: what it moved is counted.
LEMMA EndChunkCarries == ASSUME NEW t \in DiskUsers PROVE DataInv /\ DriveInv /\ Apart /\ EndChunk(t) => DataInv'
<1> SUFFICES ASSUME DataInv, DriveInv, Apart, EndChunk(t) PROVE DataInv'
  OBVIOUS
<1> DEFINE j == job[t]
           n == [j EXCEPT !.done = @ + j.i, !.i = 0]
           over == n.done = Blocks(j)
           again == IF DriveOf(j) = "cdrom" THEN "acquire" ELSE "command"
           flush == over /\ j.todo = "write" /\ disk.flushes
           at == IF flush THEN "flush" ELSE IF over THEN "moved" ELSE again
           k == [n EXCEPT !.at = at]
<1>1. DOMAIN job = DiskUsers /\ IsJob(j) /\ Comes(j) /\ j.done + j.i \in Nat
  <2>1. DOMAIN job = DiskUsers /\ IsJob(j) /\ Comes(j)
    BY DEF DriveInv, Jobs, DataInv
  <2>2. j.done \in Nat /\ j.i \in Nat
    BY <2>1, Layout
  <2> QED  BY <2>1, <2>2
<1>2. j.at = "data" /\ UNCHANGED <<devs, media, shadow>> /\ job' = [job EXCEPT ![t] = k]
  BY DEF EndChunk
<1>3. at \in {"flush", "moved", "acquire", "command"} /\ (at \in {"flush", "moved"} => n.done = Blocks(j))
  OBVIOUS
<1> HIDE DEF at
<1>4. IsJob(n) /\ n.i = 0 /\ n.done = j.done + j.i
      /\ n.op = j.op /\ n.dev = j.dev /\ n.off = j.off /\ n.len = j.len /\ n.todo = j.todo /\ n.buf = j.buf
  <2>1. IsJob(n) /\ n.i = 0
    BY <1>1, JobCounts
  <2> QED  BY <1>1, <2>1 DEF IsJob, JobRec
<1> HIDE DEF n
<1>5. IsJob(k) /\ k.at = at /\ k.i = 0 /\ k.done = n.done
      /\ k.op = n.op /\ k.dev = n.dev /\ k.off = n.off /\ k.len = n.len /\ k.todo = n.todo /\ k.buf = n.buf
  <2>1. IsJob(k) /\ k.at = at /\ k.i = n.i
    <3>1. at \in Places
      BY <1>3 DEF Places
    <3> QED  BY <1>4, <3>1, JobMoves
  <2> QED  BY <1>4, <2>1 DEF IsJob, JobRec
<1> HIDE DEF k
<1>6. Blocks(k) = Blocks(j)
  BY <1>4, <1>5, SamePlace
<1>7. k.done + k.i = j.done + j.i
  BY <1>1, <1>4, <1>5
<1>8. Comes(k) /\ (Writing(k) => Writing(j))
  BY <1>1, <1>2, <1>3, <1>4, <1>5, <1>6, <1>7 DEF Comes, Writing
<1> QED  BY <1>2, <1>4, <1>5, <1>7, <1>8, GoesOnElsewhere

-----------------------------------------------------------------------------
(* Steps that move bytes.                                                  *)

\* The next sector of a request is the one that it reaches next.
LEMMA NextSector ==
    ASSUME DriveInv, Shadowed, NEW j, IsJob(j), NEW b \in DOMAIN shadow, b[1] = DriveOf(j), j.done + j.i < Blocks(j)
    PROVE  LET end == (First(j) + j.done + j.i) * SectorSize
           IN  /\ end \in Int /\ end = Sector(j) * SectorSize
               /\ end = First(j) * SectorSize + (j.done + j.i) * SectorSize
               /\ (j.done + j.i) * SectorSize \in Int
               /\ (j.done + j.i + 1) * SectorSize = (j.done + j.i) * SectorSize + SectorSize
               /\ (First(j) + j.done + (j.i + 1)) * SectorSize = end + SectorSize
               /\ b[2] \div SectorSize = Sector(j) <=> end <= b[2] /\ b[2] < end + SectorSize
               /\ b[2] \div SectorSize = Sector(j) => InBlocks(j, b)
<1> DEFINE d == j.done + j.i
           F == First(j)
           n == Blocks(j)
<1>1. /\ SectorSize \in Nat \ {0} /\ F \in Int /\ n \in Nat /\ d \in Nat /\ j.done \in Nat /\ j.i \in Nat /\ b[2] \in Nat
      /\ First(j) = devs[j.dev].start + FirstBlock(j) /\ devs[j.dev].start \in Nat /\ FirstBlock(j) \in Int
  BY Layout DEF Shadowed
<1>2. Sector(j) = F + d /\ First(j) + j.done + j.i = F + d /\ First(j) + j.done + (j.i + 1) = F + d + 1
  BY <1>1 DEF Sector
<1> HIDE DEF F, d, n
<1>3. /\ (F + d) * SectorSize \in Int /\ d * SectorSize \in Int
      /\ (F + d) * SectorSize = F * SectorSize + d * SectorSize
      /\ (d + 1) * SectorSize = d * SectorSize + SectorSize
      /\ (F + d + 1) * SectorSize = (F + d) * SectorSize + SectorSize
  <2>1. F + d \in Int
    BY <1>1
  <2> DEFINE e == F + d
  <2> HIDE DEF e
  <2>2. (e + 1) * SectorSize = e * SectorSize + SectorSize /\ e * SectorSize \in Int
    BY <1>1, <2>1, Distributes DEF e
  <2>3. /\ d * SectorSize \in Int /\ (F + d) * SectorSize = F * SectorSize + d * SectorSize
        /\ (d + 1) * SectorSize = d * SectorSize + SectorSize
    BY <1>1, Distributes
  <2> QED  BY <2>2, <2>3 DEF e
<1>4. b[2] \div SectorSize = F + d <=> (F + d) * SectorSize <= b[2] /\ b[2] < (F + d) * SectorSize + SectorSize
  <2>1. F + d \in Int
    BY <1>1
  <2>2. \A s \in Int : b[2] \div SectorSize = s <=> s * SectorSize <= b[2] /\ b[2] < s * SectorSize + SectorSize
    BY SectorOf
  <2> QED  BY <2>1, <2>2, Zenon
<1>5. b[2] \div SectorSize = F + d => InBlocks(j, b)
  <2>1. F + d \in F..(F + n - 1)
    BY <1>1 DEF d, n
  <2>2. b[2] \div SectorSize = F + d => <<b[1], b[2] \div SectorSize>> \in Sectors(j)
    BY <2>1 DEF Sectors, F, n
  <2> QED  BY <2>2, SectorOf
<1>6. (j.done + j.i + 1) = d + 1
  BY DEF d
<1> QED  BY <1>1, <1>2, <1>3, <1>4, <1>5, <1>6 DEF F, d

\* What was read, and the next sector.
Longer(j) == j.buf \o SectorBytes(DriveOf(j), Sector(j))

\* A sector is read: the blocks that were read are longer by it.
LEMMA ReadOne ==
    ASSUME DriveInv, DataInv, NEW j, IsJob(j), HasRead(j), j.done + j.i < Blocks(j), NEW k,
           /\ k.dev = j.dev /\ k.off = j.off /\ k.len = j.len /\ k.done = j.done /\ k.i = j.i + 1
           /\ k.buf = Longer(j)
    PROVE  HasRead(k)
<1> DEFINE d == j.done + j.i
           B == SectorBytes(DriveOf(j), Sector(j))
           L == d * SectorSize
<1>1. SectorSize \in Nat \ {0} /\ j.done \in Nat /\ j.i \in Nat /\ Shadowed /\ First(j) * SectorSize \in Int
  BY Layout DEF DataInv
<1>2. PICK U : j.buf \in Seq(U) /\ Len(j.buf) = L
  BY DEF HasRead, Filled
<1>3. /\ \E V : B \in Seq(V)
      /\ Len(B) = SectorSize
      /\ \A h \in 1..SectorSize : B[h] = media[DriveOf(j)][Sector(j) * SectorSize + h - 1]
  <2>1. SectorSize \in Nat
    BY <1>1
  <2> QED  BY <2>1, SectorBytesAre, Zenon
<1>4. k.buf = j.buf \o B
  BY DEF Longer
<1> HIDE DEF B
<1>5. PICK V : B \in Seq(V)
  BY <1>3
<1>6. /\ k.buf \in Seq(U \union V) /\ Len(k.buf) = L + SectorSize
      /\ \A h \in 1..(L + SectorSize) : k.buf[h] = IF h <= L THEN j.buf[h] ELSE B[h - L]
  <2>1. j.buf \in Seq(U \union V) /\ B \in Seq(U \union V)
    BY <1>2, <1>5
  <2>2. LET c == j.buf \o B
        IN  /\ c \in Seq(U \union V) /\ Len(c) = Len(j.buf) + Len(B)
            /\ \A h \in 1..(Len(j.buf) + Len(B)) : c[h] = IF h <= Len(j.buf) THEN j.buf[h] ELSE B[h - Len(j.buf)]
    BY <2>1, ConcatProperties
  <2> QED  BY <1>2, <1>3, <1>4, <2>2, Zenon
<1>7. L \in Int /\ Filled(k, (k.done + k.i) * SectorSize)
  <2>1. L \in Int /\ (d + 1) * SectorSize = L + SectorSize
    BY <1>1, Distributes
  <2>2. k.done + k.i = d + 1
    BY <1>1
  <2> HIDE DEF L, d
  <2> QED  BY <1>6, <2>1, <2>2 DEF Filled
<1>8. ASSUME NEW b \in DOMAIN shadow, InBlocks(k, b), Reached(k, b) PROVE k.buf[At(k, b[2])] = Byte(b)
  <2> DEFINE x == b[2]
             end == (First(j) + j.done + j.i) * SectorSize
             h == At(j, x)
  <2>1. InBlocks(j, b) /\ At(k, x) = h /\ First(k) = First(j) /\ b[1] = DriveOf(j) /\ x \in Nat
    BY <1>1, <1>8, SamePlace DEF InBlocks, Shadowed
  <2>2. /\ end \in Int /\ end = Sector(j) * SectorSize /\ end = First(j) * SectorSize + L
        /\ (First(j) + j.done + (j.i + 1)) * SectorSize = end + SectorSize
    BY <1>1, <2>1, NextSector
  <2>3. x < end + SectorSize /\ First(j) * SectorSize <= x
    BY <1>8, <2>1, <2>2 DEF Reached, InBlocks
  <2>4. h = x - First(j) * SectorSize + 1
    BY DEF At
  <2>5. Reached(j, b) <=> x < end
    BY DEF Reached
  <2> HIDE DEF x, end, h, L
  <2>6. h \in 1..(L + SectorSize) /\ (h <= L <=> x < end) /\ (h > L => h - L \in 1..SectorSize /\ end + (h - L) - 1 = x)
    BY <1>1, <1>7, <2>1, <2>2, <2>3, <2>4
  <2>7. CASE x < end
    <3>1. j.buf[h] = Byte(b)
      BY <2>1, <2>5, <2>7 DEF HasRead, h, x
    <3> QED  BY <1>6, <2>1, <2>6, <2>7, <3>1 DEF x
  <2>8. CASE ~(x < end)
    <3>1. k.buf[h] = B[h - L] /\ h - L \in 1..SectorSize
      BY <1>1, <1>6, <1>7, <2>6, <2>8
    <3>2. B[h - L] = media[DriveOf(j)][Sector(j) * SectorSize + (h - L) - 1]
      BY <1>3, <3>1
    <3>3. Sector(j) * SectorSize + (h - L) - 1 = x
      BY <1>1, <1>7, <2>2, <2>6, <2>8
    <3>4. Byte(b) = media[DriveOf(j)][x]
      BY <2>1 DEF Byte, x
    <3> QED  BY <2>1, <3>1, <3>2, <3>3, <3>4 DEF x
  <2> QED  BY <2>7, <2>8
<1> QED  BY <1>7, <1>8 DEF HasRead

\* A sector is written: of the caller's bytes to where they belong, and of what was there.
LEMMA WriteOne ==
    ASSUME DriveInv, DataInv, NEW j, IsJob(j), NEW t, HasToWrite(j, t), j.done + j.i < Blocks(j),
           media' = Put(DriveOf(j), Sector(j), Slice(j)), NEW b \in DOMAIN shadow
    PROVE  LET next == b[1] = DriveOf(j) /\ b[2] \div SectorSize = Sector(j)
           IN  /\ ~InBlocks(j, b) => Byte(b)' = Byte(b)
               /\ b \in Window(j) => (next => Byte(b)' = t) /\ (~next => Byte(b)' = Byte(b)) /\ t \in shadow[b]
               /\ b \notin Window(j) => Byte(b)' = Byte(b)
<1> DEFINE next == b[1] = DriveOf(j) /\ b[2] \div SectorSize = Sector(j)
<1>1. Shadowed
  BY DEF DataInv
<1>2. next => InBlocks(j, b)
  BY <1>1, NextSector
<1>3. ~next => Byte(b)' = Byte(b)
  BY <1>1, PutIs DEF Byte
<1>4. next => Byte(b)' = j.buf[At(j, b[2])]
  <2> SUFFICES ASSUME next PROVE Byte(b)' = j.buf[At(j, b[2])]
    OBVIOUS
  <2>1. Byte(b)' = Slice(j)[(b[2] % SectorSize) + 1]
    BY <1>1, PutIs DEF Byte
  <2>2. Slice(j)[(b[2] % SectorSize) + 1] = j.buf[At(j, b[2])]
    BY <1>1, SliceIs
  <2> QED  BY <2>1, <2>2
<1>5. InBlocks(j, b) => /\ b \in Window(j) => j.buf[At(j, b[2])] = t /\ t \in shadow[b]
                        /\ b \notin Window(j) => j.buf[At(j, b[2])] = Byte(b)
  BY DEF HasToWrite
<1>6. b \in Window(j) => InBlocks(j, b)
  BY <1>1, WindowIs
<1> QED  BY <1>2, <1>3, <1>4, <1>5, <1>6

\* A request that moves a sector carries on.
LEMMA TransferCarries ==
    ASSUME DataInv, DriveInv, Apart, NEW t \in DiskUsers, Transfer(t, Sector(job[t])), UNCHANGED <<devs, shadow>>,
           job[t].at \in {"data", "copy"}, job[t].done + job[t].i < Blocks(job[t])
    PROVE  DataInv'
<1> DEFINE j == job[t]
<1>1. /\ DOMAIN job = DiskUsers /\ IsJob(j) /\ Comes(j) /\ Carries(j, t) /\ Shadowed /\ BytesAreKept
      /\ j.op \in {"read", "write"} /\ j.todo \in {"read", j.op}
  BY DEF DriveInv, Jobs, DataInv, Comes
<1>2. CASE j.todo = "read"
  <2> DEFINE buf == Longer(j)
             k == [j EXCEPT !.buf = buf, !.i = j.i + 1]
  <2>1. job' = [job EXCEPT ![t] = k] /\ media' = media
    BY <1>1, <1>2 DEF Transfer, Longer
  <2> HIDE DEF buf
  <2>2. /\ k.at = j.at /\ k.op = j.op /\ k.dev = j.dev /\ k.off = j.off /\ k.len = j.len /\ k.todo = j.todo
        /\ k.done = j.done /\ k.i = j.i + 1 /\ k.buf = Longer(j)
    BY <1>1 DEF IsJob, JobRec, buf
  <2> HIDE DEF k
  <2>3. Comes(k)
    BY <1>1, <2>2 DEF Comes
  <2>4. Carries(job[t], t)'
    <3>1. Writing(k) => HasRead(k)
      <4>1. Writing(k) => HasRead(j)
        BY <1>1, <1>2, <2>2 DEF Carries, Writing
      <4> QED  BY <1>1, <2>2, <4>1, ReadOne
    <3>2. job'[t] = k
      BY <1>1, <2>1
    <3>3. HasRead(k) => HasRead(job[t])'
      BY <2>1, <3>2, AfterStep DEF HasRead, Filled, InBlocks, Reached, At, Byte
    <3>4. Writing(job[t])' = Writing(k) /\ job[t].todo' = "read"
      BY <1>2, <2>2, <3>2, AfterStep
    <3> QED  BY <3>1, <3>3, <3>4 DEF Carries
  <2>5. \A b \in DOMAIN shadow : Byte(b)' = Byte(b) /\ shadow[b] \subseteq shadow'[b]
    BY <2>1 DEF Byte
  <2>6. BytesAreKept'
    BY <1>1, <2>1 DEF BytesAreKept
  <2> QED  BY <2>1, <2>3, <2>4, <2>5, <2>6, DataKept
<1>3. CASE j.todo # "read"
  <2> DEFINE k == [j EXCEPT !.i = j.i + 1]
  <2>1. job' = [job EXCEPT ![t] = k] /\ media' = Put(DriveOf(j), Sector(j), Slice(j))
    BY <1>1, <1>3 DEF Transfer
  <2>2. /\ k.at = j.at /\ k.op = j.op /\ k.dev = j.dev /\ k.off = j.off /\ k.len = j.len /\ k.todo = j.todo
        /\ k.done = j.done /\ k.i = j.i + 1 /\ k.buf = j.buf
    BY <1>1 DEF IsJob, JobRec
  <2> HIDE DEF k
  <2>3. Comes(k) /\ HasToWrite(j, t)
    BY <1>1, <1>3, <2>2 DEF Comes, Carries, Writing
  <2>4. \A b \in DOMAIN shadow :
           LET next == b[1] = DriveOf(j) /\ b[2] \div SectorSize = Sector(j)
           IN  /\ ~InBlocks(j, b) => media'[b[1]][b[2]] = Byte(b)
               /\ b \in Window(j) => /\ next => media'[b[1]][b[2]] = t
                                     /\ ~next => media'[b[1]][b[2]] = Byte(b)
                                     /\ t \in shadow[b]
               /\ b \notin Window(j) => media'[b[1]][b[2]] = Byte(b)
    BY <1>1, <2>1, <2>3, WriteOne DEF Byte
  <2>5. BytesAreKept'
    BY <1>1, <2>4 DEF BytesAreKept, Byte
  <2>6. Carries(job[t], t)'
    <3>1. job'[t] = k
      BY <1>1, <2>1
    <3>2. /\ First(k) = First(j) /\ Blocks(k) = Blocks(j) /\ Window(k) = Window(j) /\ DriveOf(k) = DriveOf(j)
          /\ \A b : (InBlocks(k, b) <=> InBlocks(j, b)) /\ At(k, b[2]) = At(j, b[2])
      BY <2>2, SamePlace
    <3>3. ASSUME NEW b \in DOMAIN shadow, InBlocks(k, b)
          PROVE  /\ b \in Window(k) => /\ k.buf[At(k, b[2])] = t /\ t \in shadow[b]
                                       /\ Reached(k, b) => media'[b[1]][b[2]] = t
                 /\ b \notin Window(k) => k.buf[At(k, b[2])] = media'[b[1]][b[2]]
      <4>1. InBlocks(j, b) /\ b[1] = DriveOf(j)
        BY <3>2, <3>3 DEF InBlocks
      <4>2. Reached(k, b) => Reached(j, b) \/ b[2] \div SectorSize = Sector(j)
        <5>1. b[2] \in Nat
          BY <1>1 DEF Shadowed
        <5> QED  BY <1>1, <2>2, <3>2, <4>1, <5>1, NextSector DEF Reached
      <4> QED  BY <2>2, <2>3, <2>4, <3>2, <4>1, <4>2 DEF HasToWrite
    <3>4. HasToWrite(job[t], t)'
      BY <3>1, <3>3, AfterStep DEF HasToWrite, InBlocks, Reached, At, Byte
    <3>5. job[t].todo' # "read"
      BY <1>3, <2>2, <3>1
    <3> QED  BY <3>4, <3>5 DEF Carries
  <2>7. \A b \in DOMAIN shadow : ~InBlocks(j, b) => Byte(b)' = Byte(b) /\ shadow[b] \subseteq shadow'[b]
    BY <2>4 DEF Byte
  <2>8. DOMAIN media' = DOMAIN media /\ \A e \in DOMAIN media : DOMAIN media'[e] = DOMAIN media[e]
    BY <1>1, <2>1, PutIs
  <2>9. Writing(j)
    BY <1>1, <1>3 DEF Writing
  <2> QED  BY <2>1, <2>3, <2>5, <2>6, <2>7, <2>8, <2>9, DataKept
<1> QED  BY <1>2, <1>3

\* A drive moves the sector that its command has come to, which is the request's.
LEMMA DataPhaseCarries == ASSUME NEW t \in DiskUsers PROVE DataInv /\ DriveInv /\ Apart /\ DataPhase(t) => DataInv'
<1> SUFFICES ASSUME DataInv, DriveInv, Apart, DataPhase(t) PROVE DataInv'
  OBVIOUS
<1> DEFINE j == job[t]
<1>1. IsJob(j) /\ Holds(t)
  BY DEF DriveInv, Jobs
<1>2. j.at = "data" /\ UNCHANGED <<devs, shadow>> /\ Transfer(t, drive.sector) /\ j.i < Chunk(j)
  BY DEF DataPhase
<1>3. drive.sector = Sector(j)
  BY <1>1, <1>2 DEF Holds, Asked
<1>4. j.done + j.i < Blocks(j)
  <2>1. j.done \in Nat /\ j.i \in Nat /\ Blocks(j) \in Nat /\ MaxChunk \in Nat
    BY <1>1, Layout, DrivesAssumption
  <2>2. Chunk(j) <= Blocks(j) - j.done
    BY <2>1 DEF Chunk
  <2>3. Chunk(j) \in Int
    BY <1>1, Numbers
  <2> QED  BY <1>2, <2>1, <2>2, <2>3
<1> QED  BY <1>2, <1>3, <1>4, TransferCarries

\* The RAM disk's sector is copied.
LEMMA CopyCarries == ASSUME NEW t \in DiskUsers PROVE DataInv /\ DriveInv /\ Apart /\ Copy(t) => DataInv'
<1> SUFFICES ASSUME DataInv, DriveInv, Apart, Copy(t) PROVE DataInv'
  OBVIOUS
<1>1. job[t].at = "copy" /\ UNCHANGED <<devs, shadow>> /\ Transfer(t, Sector(job[t])) /\ job[t].i < Blocks(job[t])
  BY DEF Copy
<1>2. job[t].done = 0 /\ job[t].i \in Nat
  BY <1>1, Layout DEF DataInv, Comes, DriveInv, Jobs
<1> QED  BY <1>1, <1>2, TransferCarries

-----------------------------------------------------------------------------
(* Requests that begin and end.                                            *)

\* What may be at a place when a task is about to write there.
LEMMA WrittenIs ==
    ASSUME NEW j, NEW t, NEW b \in DOMAIN shadow
    PROVE  /\ DOMAIN Written(j, t) = DOMAIN shadow /\ shadow[b] \subseteq Written(j, t)[b]
           /\ b \in Window(j) => t \in Written(j, t)[b]
  BY DEF Written

\* The caller's bytes are put among those that were read: now the request has something
\* to write.
LEMMA PatchCarries == ASSUME NEW t \in DiskUsers PROVE DataInv /\ DriveInv /\ Apart /\ Patch(t) => DataInv'
<1> SUFFICES ASSUME DataInv, DriveInv, Apart, Patch(t) PROVE DataInv'
  OBVIOUS
<1> DEFINE j == job[t]
           buf == Patched(j, t)
           at == IF OnChannel(j) THEN "acquire" ELSE "copy"
           k == [j EXCEPT !.buf = buf, !.todo = "write", !.done = 0, !.i = 0, !.at = at]
<1>1. DOMAIN job = DiskUsers /\ IsJob(j) /\ Comes(j) /\ Carries(j, t) /\ Shadowed /\ BytesAreKept
  BY DEF DriveInv, Jobs, DataInv
<1>2. /\ j.at = "moved" /\ j.op = "write" /\ j.todo = "read" /\ UNCHANGED <<devs, media>>
      /\ job' = [job EXCEPT ![t] = k] /\ shadow' = Written(j, t)
  BY <1>1 DEF Patch
<1>3. at \in {"acquire", "copy"}
  OBVIOUS
<1> HIDE DEF buf, at
<1>4. /\ k.at = at /\ k.op = j.op /\ k.dev = j.dev /\ k.off = j.off /\ k.len = j.len /\ k.todo = "write"
      /\ k.done = 0 /\ k.i = 0 /\ k.buf = buf
  BY <1>1 DEF IsJob, JobRec
<1> HIDE DEF k
<1>5. Comes(k) /\ HasRead(j) /\ j.done + j.i = Blocks(j)
  BY <1>1, <1>2, <1>3, <1>4 DEF Comes, Carries, Writing
<1>6. job'[t] = k
  BY <1>1, <1>2
<1>7. /\ First(k) = First(j) /\ Window(k) = Window(j) /\ DriveOf(k) = DriveOf(j)
      /\ \A b : (InBlocks(k, b) <=> InBlocks(j, b)) /\ At(k, b[2]) = At(j, b[2])
  BY <1>4, SamePlace
<1>8. ASSUME NEW b \in DOMAIN shadow, InBlocks(k, b)
      PROVE  ~Reached(k, b) /\ k.buf[At(k, b[2])] = IF b \in Window(k) THEN t ELSE media[b[1]][b[2]]
  <2> DEFINE F == First(j)
  <2>1. InBlocks(j, b) /\ b[2] \in Nat
    BY <1>1, <1>7, <1>8 DEF Shadowed
  <2>2. F \in Int /\ j.done \in Nat /\ j.i \in Nat /\ F * SectorSize \in Int
    BY <1>1, Layout
  <2>3. F * SectorSize <= b[2] /\ b[2] < (F + Blocks(j)) * SectorSize
    BY <2>1 DEF InBlocks
  <2>4. Reached(j, b)
    <3>1. F + j.done + j.i = F + Blocks(j)
      BY <1>5, <2>2
    <3> QED  BY <2>3, <3>1 DEF Reached
  <2>5. ~Reached(k, b)
    <3>1. First(k) + k.done + k.i = F
      BY <1>4, <1>7, <2>2
    <3> QED  BY <2>1, <2>2, <2>3, <3>1 DEF Reached
  <2>6. j.buf[At(j, b[2])] = media[b[1]][b[2]]
    BY <1>5, <2>1, <2>4 DEF HasRead, Byte
  <2>7. buf[At(j, b[2])] = IF b \in Window(j) THEN t ELSE j.buf[At(j, b[2])]
    BY <1>1, <2>1, PatchedIs DEF buf
  <2> QED  BY <1>4, <1>7, <2>5, <2>6, <2>7
<1>9. Carries(job[t], t)'
  <2>1. DOMAIN shadow' = DOMAIN shadow /\ \A b \in DOMAIN shadow : b \in Window(k) => t \in shadow'[b]
    <3>1. Window(k) = Window(j)
      BY <1>7
    <3> QED  BY <1>2, <3>1 DEF Written
  <2>2. HasToWrite(job[t], t)'
    BY <1>2, <1>6, <1>8, <2>1, AfterStep DEF HasToWrite, InBlocks, Reached, At, Byte
  <2>3. job[t].todo' # "read"
    BY <1>4, <1>6
  <2> QED  BY <2>2, <2>3 DEF Carries
<1>10. \A b \in DOMAIN shadow : Byte(b)' = Byte(b) /\ shadow[b] \subseteq shadow'[b]
  BY <1>2, WrittenIs DEF Byte
<1>11. DOMAIN shadow' = DOMAIN shadow
  BY <1>2 DEF Written
<1>12. BytesAreKept'
  BY <1>1, <1>2, <1>10, <1>11 DEF BytesAreKept
<1> QED  BY <1>2, <1>5, <1>9, <1>10, <1>11, <1>12, DataKept

\* A request is over; of a write that was made all is on the drive.
LEMMA EndCarries ==
    ASSUME NEW t \in DiskUsers PROVE DataInv /\ DriveInv /\ Apart /\ (Returned(t) \/ RequestFailed(t)) => DataInv'
<1> SUFFICES ASSUME DataInv, DriveInv, Apart, Returned(t) \/ RequestFailed(t) PROVE DataInv'
  OBVIOUS
<1> DEFINE j == job[t]
<1>1. DOMAIN job = DiskUsers /\ IsJob(j) /\ Comes(j) /\ Carries(j, t) /\ Shadowed /\ BytesAreKept
  BY DEF DriveInv, Jobs, DataInv
<1>2. UNCHANGED <<devs, media>> /\ job' = [job EXCEPT ![t] = NoJob]
  BY DEF Returned, RequestFailed
<1>3. Comes(NoJob) /\ ~Writing(NoJob)
  BY DEF Comes, Writing, NoJob
<1>4. Carries(job[t], t)'
  <2>1. job'[t] = NoJob
    BY <1>1, <1>2
  <2>2. ~Writing(job[t])'
    BY <1>2, <1>3, <2>1, AfterStep
  <2> QED  BY <2>2 DEF Carries
<1>5. ASSUME NEW b \in DOMAIN shadow
      PROVE  /\ DOMAIN shadow' = DOMAIN shadow /\ media[b[1]][b[2]] \in shadow'[b]
             /\ ~(Writing(j) /\ InBlocks(j, b)) => shadow[b] \subseteq shadow'[b]
  <2>1. media[b[1]][b[2]] \in shadow[b]
    BY <1>1 DEF BytesAreKept
  <2>2. CASE shadow' = shadow
    BY <2>1, <2>2
  <2>3. CASE shadow' # shadow
    <3>1. /\ j.at = "moved" /\ j.todo = j.op /\ j.op # "read"
          /\ shadow' = [c \in DOMAIN shadow |-> IF c \in Window(j) THEN {t} ELSE shadow[c]]
      BY <2>3 DEF Returned, RequestFailed
    <3>2. Writing(j) /\ HasToWrite(j, t) /\ j.done + j.i = Blocks(j)
      BY <1>1, <3>1 DEF Comes, Carries, Writing
    <3>3. b \in Window(j) => InBlocks(j, b) /\ media[b[1]][b[2]] = t
      <4> SUFFICES ASSUME b \in Window(j) PROVE InBlocks(j, b) /\ media[b[1]][b[2]] = t
        OBVIOUS
      <4>1. InBlocks(j, b)
        BY <1>1, WindowIs
      <4>2. Reached(j, b)
        <5>1. First(j) \in Int /\ j.done \in Nat /\ j.i \in Nat
          BY <1>1, Layout
        <5>2. First(j) + j.done + j.i = First(j) + Blocks(j)
          BY <3>2, <5>1
        <5> QED  BY <4>1, <5>2 DEF Reached, InBlocks
      <4> QED  BY <3>2, <4>1, <4>2 DEF HasToWrite, Byte
    <3> QED  BY <2>1, <3>1, <3>2, <3>3
  <2> QED  BY <2>2, <2>3
<1>6. DOMAIN shadow' = DOMAIN shadow
  BY DEF Returned, RequestFailed
<1>7. BytesAreKept'
  BY <1>2, <1>5, <1>6 DEF BytesAreKept
<1>8. \A b \in DOMAIN shadow : ~(Writing(j) /\ InBlocks(j, b)) => Byte(b)' = Byte(b) /\ shadow[b] \subseteq shadow'[b]
  BY <1>2, <1>5 DEF Byte
<1> QED  BY <1>2, <1>3, <1>4, <1>6, <1>7, <1>8, DataKept

\* READ and WRITE begin: a write of whole blocks with its bytes, another with what it has to
\* read first.
LEMMA AskCarries ==
    ASSUME NEW t \in DiskUsers, NEW w \in Windows[t], NEW op \in {"read", "write"}
    PROVE  DataInv /\ DriveInv /\ Apart /\ Ask(t, op, w) => DataInv'
<1> SUFFICES ASSUME DataInv, DriveInv, Apart, Ask(t, op, w) PROVE DataInv'
  OBVIOUS
<1> DEFINE off == IF w.handle THEN pos[t][w.dev] ELSE w.off
           mine == IF op = "write" THEN [k \in 1..(w.len + 2 * SectorSize) |-> 0] ELSE <<>>
           j == [NoJob EXCEPT !.op = op, !.dev = w.dev, !.off = off, !.len = w.len, !.handle = w.handle, !.buf = mine]
           reads == op = "read" \/ Readback(j)
           at == IF OnChannel(j) THEN "acquire" ELSE "copy"
           todo == IF reads THEN "read" ELSE "write"
           buf == IF reads THEN <<>> ELSE Patched(j, t)
           k == [j EXCEPT !.at = at, !.todo = todo, !.buf = buf]
<1>1. DOMAIN job = DiskUsers /\ Positions /\ Shadowed /\ BytesAreKept
  BY DEF DriveInv, Jobs, DataInv
<1>2. /\ job[t].at = "idle" /\ UNCHANGED <<devs, media>> /\ job' = [job EXCEPT ![t] = k] /\ w.dev \in DOMAIN devs
      /\ shadow' = IF reads THEN shadow ELSE Written(j, t)
  BY DEF Ask
<1>3. at \in {"acquire", "copy"} /\ todo \in {"read", op} /\ (todo = "read" <=> reads)
  OBVIOUS
<1>4. off \in Nat /\ w.len \in Nat /\ w.handle \in BOOLEAN
  BY <1>1, <1>2, MachinesAssumption DEF Positions
<1>5. (todo = "read" => buf = <<>>) /\ (todo # "read" => op = "write" /\ ~Readback(j) /\ buf = Patched(j, t))
  BY <1>3
<1> HIDE DEF off, mine, at, todo, buf, reads
<1>6. IsJob(j) /\ j.op = op
  <2>1. j \in JobRec({mine}) /\ j.op = op
    BY <1>2, <1>4 DEF JobRec, NoJob, Places, Ops
  <2> HIDE DEF j
  <2> QED  BY <2>1 DEF IsJob
<1> HIDE DEF j
<1>7. /\ k.at = at /\ k.op = j.op /\ k.dev = j.dev /\ k.off = j.off /\ k.len = j.len /\ k.todo = todo
      /\ k.done = 0 /\ k.i = 0 /\ k.buf = buf
  <2>1. j.done = 0 /\ j.i = 0
    BY DEF j, NoJob
  <2> QED  BY <1>6, <2>1 DEF IsJob, JobRec
<1> HIDE DEF k
<1>8. Comes(k)
  BY <1>3, <1>6, <1>7 DEF Comes
<1>9. job'[t] = k
  BY <1>1, <1>2
<1>10. /\ First(k) = First(j) /\ Window(k) = Window(j) /\ DriveOf(k) = DriveOf(j)
       /\ \A b : (InBlocks(k, b) <=> InBlocks(j, b)) /\ At(k, b[2]) = At(j, b[2])
  BY <1>7, SamePlace
<1>11. ASSUME NEW b \in DOMAIN shadow, InBlocks(k, b)
       PROVE  /\ ~Reached(k, b)
              /\ todo # "read" => b \in Window(k) /\ k.buf[At(k, b[2])] = t /\ t \in shadow'[b]
  <2>1. InBlocks(j, b) /\ b[2] \in Nat
    BY <1>1, <1>10, <1>11 DEF Shadowed
  <2>2. ~Reached(k, b)
    <3>1. First(j) \in Int /\ First(j) * SectorSize \in Int
      BY <1>6, Layout
    <3>2. First(k) + k.done + k.i = First(j)
      BY <1>7, <1>10, <3>1
    <3> QED  BY <2>1, <3>1, <3>2 DEF InBlocks, Reached
  <2>3. ASSUME todo # "read" PROVE b \in Window(k) /\ k.buf[At(k, b[2])] = t /\ t \in shadow'[b]
    <3>1. Aligned(j)
      BY <1>5, <1>6, <2>3 DEF Readback
    <3>2. b \in Window(j)
      BY <1>1, <1>6, <2>1, <3>1, AlignedIsAll
    <3>3. Patched(j, t)[At(j, b[2])] = t
      BY <1>1, <1>6, <2>1, <3>2, PatchedIs
    <3>4. t \in shadow'[b]
      BY <1>2, <1>3, <2>3, <3>2, WrittenIs
    <3> QED  BY <1>5, <1>7, <1>10, <2>3, <3>2, <3>3, <3>4
  <2> QED  BY <2>2, <2>3
<1>12. /\ DOMAIN shadow' = DOMAIN shadow
       /\ \A b \in DOMAIN shadow : Byte(b)' = Byte(b) /\ shadow[b] \subseteq shadow'[b]
  <2>1. shadow' = shadow \/ shadow' = Written(j, t)
    BY <1>2
  <2>2. DOMAIN shadow' = DOMAIN shadow /\ \A b \in DOMAIN shadow : shadow[b] \subseteq shadow'[b]
    BY <2>1 DEF Written
  <2> QED  BY <1>2, <2>2 DEF Byte
<1>13. Carries(job[t], t)'
  <2>1. todo = "read" => HasRead(job[t])'
    <3> SUFFICES ASSUME todo = "read" PROVE HasRead(job[t])'
      OBVIOUS
    <3>1. Len(k.buf) = 0 /\ k.buf \in Seq({})
      BY <1>5, <1>7
    <3>2. (k.done + k.i) * SectorSize = 0
      BY <1>7, DrivesAssumption
    <3>3. HasRead(k)
      BY <1>11, <3>1, <3>2 DEF HasRead, Filled
    <3> QED  BY <1>2, <1>9, <1>11, <1>12, <3>3, AfterStep DEF HasRead, Filled, InBlocks, Reached, At, Byte
  <2>2. todo # "read" => HasToWrite(job[t], t)'
    BY <1>2, <1>9, <1>11, <1>12, AfterStep DEF HasToWrite, InBlocks, Reached, At, Byte
  <2>3. job[t].todo' = todo
    BY <1>7, <1>9
  <2> QED  BY <2>1, <2>2, <2>3 DEF Carries
<1>14. BytesAreKept'
  BY <1>1, <1>2, <1>12 DEF BytesAreKept
<1> QED  BY <1>2, <1>8, <1>12, <1>13, <1>14, DataKept

\* Nothing is moved.
LEMMA BytesStay == DataInv /\ UNCHANGED <<devs, media, job, shadow>> => DataInv'
<1> SUFFICES ASSUME DataInv, UNCHANGED <<devs, media, job, shadow>> PROVE DataInv'
  OBVIOUS
<1>1. Shadowed' /\ BytesAreKept'
  BY DEF DataInv, Shadowed, BytesAreKept
<1>2. ASSUME NEW t \in DiskUsers PROVE Comes(job[t])' /\ Carries(job[t], t)'
  <2>1. Comes(job[t]) /\ Carries(job[t], t) /\ job'[t] = job[t]
    BY <1>2 DEF DataInv
  <2>2. HasRead(job[t]) => HasRead(job[t])'
    BY <2>1, AfterStep DEF HasRead, Filled, InBlocks, Reached, At, Byte
  <2>3. HasToWrite(job[t], t) => HasToWrite(job[t], t)'
    BY <2>1, AfterStep DEF HasToWrite, InBlocks, Reached, At, Byte
  <2> QED  BY <2>1, <2>2, <2>3, AfterStep DEF Carries
<1> QED  BY <1>1, <1>2 DEF DataInv

\* Before the first request.
LEMMA DataInvInit == DrivesInit => DataInv
<1> SUFFICES ASSUME DrivesInit PROVE DataInv
  OBVIOUS
<1>1. /\ media = [d \in DOMAIN devs \intersect {"disk", "cdrom", "ram"} |-> [b \in 0..(devs[d].count * SectorSize - 1) |-> 0]]
      /\ shadow = [b \in UNION {{d} \X DOMAIN media[d] : d \in DOMAIN media} |-> {0}]
      /\ job = [t \in DiskUsers |-> NoJob]
  BY DEF DrivesInit
<1>2. ASSUME NEW b \in DOMAIN shadow
      PROVE  /\ b = <<b[1], b[2]>> /\ b[1] \in DOMAIN media /\ b[2] \in DOMAIN media[b[1]] /\ b[2] \in Nat
             /\ media[b[1]][b[2]] = 0 /\ shadow[b] = {0}
  <2>1. PICK d \in DOMAIN media : b \in {d} \X DOMAIN media[d]
    BY <1>1
  <2>2. b = <<b[1], b[2]>> /\ b[1] = d /\ b[2] \in DOMAIN media[d]
    BY <2>1
  <2>3. \A x \in DOMAIN media[d] : x \in Nat /\ media[d][x] = 0
    BY <1>1, <2>1
  <2> QED  BY <1>1, <2>2, <2>3
<1>3. Shadowed /\ BytesAreKept
  BY <1>2 DEF Shadowed, BytesAreKept
<1>4. Comes(NoJob) /\ ~Writing(NoJob)
  BY DEF Comes, Writing, NoJob
<1>5. \A t \in DiskUsers : Comes(job[t]) /\ Carries(job[t], t)
  BY <1>1, <1>4 DEF Carries
<1> QED  BY <1>3, <1>5 DEF DataInv

\* As long as no two tasks that are writing have a sector in common, every byte of every
\* drive is what was last written to it: a block that is written in part keeps what is
\* beside the window (utils.c:72), however requests interleave, and whatever fails.
THEOREM BytesStayKept == DrivesSpec /\ []Apart => []BytesAreKept
<1>1. DrivesInit => DriveInv /\ DataInv
  BY DriveInvInit, DataInvInit
<1>2. DriveInv /\ DataInv /\ Apart /\ [DrivesNext]_driveVars => DriveInv' /\ DataInv'
  <2> SUFFICES ASSUME DriveInv, DataInv, Apart, [DrivesNext]_driveVars PROVE DriveInv' /\ DataInv'
    OBVIOUS
  <2>1. ASSUME NEW d \in Faults, Sticks(d) PROVE DataInv'
    BY <2>1, BytesStay DEF Sticks
  <2>2. ASSUME NEW t \in DiskUsers, DriveStep(t) PROVE DataInv'
    BY <2>2, AcquireCarries, CommandCarries, DataPhaseCarries, EndChunkCarries, FlushCarries, TimeoutCarries,
       CopyCarries, PatchCarries, EndCarries DEF DriveStep
  <2>3. ASSUME NEW t \in DiskUsers, NEW w \in Windows[t], BlockSeek(t, w) \/ Ask(t, "read", w) \/ Ask(t, "write", w)
        PROVE  DataInv'
    <3>1. BlockSeek(t, w) => DataInv'
      BY BytesStay DEF BlockSeek
    <3> QED  BY <2>3, <3>1, AskCarries
  <2>4. ASSUME UNCHANGED driveVars PROVE DataInv'
    <3>1. UNCHANGED <<devs, media, job, shadow>>
      BY <2>4 DEF driveVars
    <3> QED  BY <3>1, BytesStay
  <2>5. DataInv'
    BY <2>1, <2>2, <2>3, <2>4 DEF DrivesNext
  <2>6. DriveInv'
    BY DriveInvStep
  <2> QED  BY <2>5, <2>6
<1>3. DataInv => BytesAreKept
  BY DEF DataInv
<1> QED  BY <1>1, <1>2, <1>3, PTL DEF DrivesSpec

-----------------------------------------------------------------------------
(***************************************************************************)
(* The clock: it shows the time that was written to it, in whatever way    *)
(* the chip counts.                                                        *)
(***************************************************************************)
\* The days of a month, and the days before it.
LEMMA MonthLengths ==
    ASSUME NEW mo \in 1..12, NEW y \in Nat
    PROVE  days_in_month(mo, y) \in 28..31
<1>1. mo \in {1, 2, 3, 4, 5, 6, 7, 8, 9, 10, 11, 12}
  OBVIOUS
<1> QED  BY <1>1 DEF days_in_month

LEMMA MonthStarts ==
    ASSUME NEW y \in Nat, NEW f \in {28, 29}, f = IF is_leap_year(y) THEN 29 ELSE 28
    PROVE  /\ MonthStart(1, y) = 0 /\ MonthStart(2, y) = 31 /\ MonthStart(3, y) = 31 + f
           /\ MonthStart(4, y) = 62 + f /\ MonthStart(5, y) = 92 + f /\ MonthStart(6, y) = 123 + f
           /\ MonthStart(7, y) = 153 + f /\ MonthStart(8, y) = 184 + f /\ MonthStart(9, y) = 215 + f
           /\ MonthStart(10, y) = 245 + f /\ MonthStart(11, y) = 276 + f /\ MonthStart(12, y) = 306 + f
           /\ days_in_month(1, y) = 31 /\ days_in_month(2, y) = f /\ days_in_month(3, y) = 31
           /\ days_in_month(4, y) = 30 /\ days_in_month(5, y) = 31 /\ days_in_month(6, y) = 30
           /\ days_in_month(7, y) = 31 /\ days_in_month(8, y) = 31 /\ days_in_month(9, y) = 30
           /\ days_in_month(10, y) = 31 /\ days_in_month(11, y) = 30 /\ days_in_month(12, y) = 31
<1>1. /\ days_in_month(1, y) = 31 /\ days_in_month(2, y) = f /\ days_in_month(3, y) = 31
      /\ days_in_month(4, y) = 30 /\ days_in_month(5, y) = 31 /\ days_in_month(6, y) = 30
      /\ days_in_month(7, y) = 31 /\ days_in_month(8, y) = 31 /\ days_in_month(9, y) = 30
      /\ days_in_month(10, y) = 31 /\ days_in_month(11, y) = 30 /\ days_in_month(12, y) = 31
  BY DEF days_in_month
<1> QED  BY <1>1 DEF MonthStart

\* The division of the days of a year meets a month.
LEMMA SomeMonth ==
    ASSUME NEW y \in Nat, NEW n \in 0..(YearLen(y) - 1)
    PROVE  \E m \in 1..12 : MonthStart(m, y) <= n /\ n < MonthStart(m, y) + days_in_month(m, y)
<1> DEFINE f == IF is_leap_year(y) THEN 29 ELSE 28
<1>1. f \in {28, 29} /\ YearLen(y) = 337 + f
  BY DEF YearLen
<1> HIDE DEF f
<1>2. f = IF is_leap_year(y) THEN 29 ELSE 28
  BY DEF f
<1>3. n \in 0..(336 + f)
  BY <1>1
<1> QED  BY <1>1, <1>2, <1>3, MonthStarts

\* The years of the Gregorian calendar.
LEMMA YearsFollow ==
    ASSUME NEW y \in Nat, y >= 1970
    PROVE  /\ YearStart(1970) = 0 /\ YearStart(y) \in Int /\ YearLen(y) \in {365, 366}
           /\ YearStart(y + 1) = YearStart(y) + YearLen(y)
<1>1. YearLen(y) \in {365, 366}
  BY DEF YearLen
<1>2. YearStart(1970) = 0
  BY DEF YearStart, LeapsTo
<1>3. LeapsTo(y) - LeapsTo(y - 1) = IF is_leap_year(y) THEN 1 ELSE 0
  BY SMTT(60) DEF LeapsTo, is_leap_year
<1>4. LeapsTo(y) \in Int /\ LeapsTo(y - 1) \in Int /\ LeapsTo(1969) \in Int
  BY DEF LeapsTo
<1>5. YearStart(y + 1) = 365 * (y + 1 - 1970) + LeapsTo(y) - LeapsTo(1969)
  BY (y + 1) - 1 = y DEF YearStart
<1>6. YearStart(y) = 365 * (y - 1970) + LeapsTo(y - 1) - LeapsTo(1969)
  BY DEF YearStart
<1> QED  BY <1>1, <1>2, <1>3, <1>4, <1>5, <1>6 DEF YearLen

\* They have 365 days or 366.
LEMMA YearBounds ==
    ASSUME NEW y \in Nat, y >= 1970
    PROVE  365 * (y - 1970) <= YearStart(y) /\ YearStart(y) <= 366 * (y - 1970)
<1>1. LeapsTo(1969) <= LeapsTo(y - 1) /\ LeapsTo(y - 1) - LeapsTo(1969) <= y - 1970
  BY SMTT(60) DEF LeapsTo
<1>4. LeapsTo(y) \in Int /\ LeapsTo(y - 1) \in Int /\ LeapsTo(1969) \in Int
  BY DEF LeapsTo
<1> QED  BY <1>1, <1>4 DEF YearStart

\* The division of the days since 1970 meets a year.
LEMMA SomeYear ==
    ASSUME NEW day \in Nat
    PROVE  \E y \in (1970 + (day \div 366))..(1970 + (day \div 365)) :
              y \in Nat /\ YearStart(y) <= day /\ day < YearStart(y) + YearLen(y)
<1> DEFINE T == {k \in Nat : day < YearStart(1970 + k + 1)}
<1>1. T \in SUBSET Nat /\ day \in T
  <2>1. 365 * (1970 + day + 1 - 1970) <= YearStart(1970 + day + 1)
    BY YearBounds, 1970 + day + 1 \in Nat, 1970 + day + 1 >= 1970
  <2>2. YearStart(1970 + day + 1) \in Int
    BY YearsFollow, 1970 + day + 1 \in Nat, 1970 + day + 1 >= 1970
  <2> QED  BY <2>1, <2>2
<1>2. PICK k \in T : \A n \in T : k <= n
  <2> HIDE DEF T
  <2> QED  BY <1>1, LeastNumber, Zenon
<1> DEFINE y == 1970 + k
<1>3. k \in Nat /\ y \in Nat /\ y >= 1970 /\ y + 1 \in Nat /\ day < YearStart(y + 1)
  BY <1>2
<1>4. YearStart(y) <= day
  <2>1. CASE k = 0
    BY <2>1, <1>3, YearsFollow
  <2>2. CASE k # 0
    <3>1. k - 1 \in Nat /\ k - 1 \notin T
      BY <1>2, <1>3, <2>2
    <3>2. 1970 + (k - 1) + 1 = y
      BY <1>3
    <3>3. ~(day < YearStart(y))
      BY <3>1, <3>2
    <3> QED  BY <3>3, <1>3, YearsFollow
  <2> QED  BY <2>1, <2>2
<1> HIDE DEF T, y
<1>5. day < YearStart(y) + YearLen(y)
  BY <1>3, YearsFollow
<1>6. y \in (1970 + (day \div 366))..(1970 + (day \div 365))
  <2>1. 365 * (y - 1970) <= day
    BY <1>3, <1>4, YearBounds, YearsFollow
  <2>2. day < 366 * (y - 1970 + 1)
    <3>1. YearStart(y + 1) <= 366 * (y + 1 - 1970)
      BY <1>3, YearBounds, y + 1 >= 1970
    <3>2. YearStart(y + 1) \in Int
      BY <1>3, YearsFollow
    <3> QED  BY <1>3, <3>1, <3>2
  <2> QED  BY <1>3, <2>1, <2>2
<1> QED  BY <1>3, <1>4, <1>5, <1>6

\* A day of a month of a year is a date, and adds up to the days before it.
LEMMA DateOf ==
    ASSUME NEW y \in Nat, y >= 1970, NEW m \in 1..12, NEW rest \in Nat, NEW s \in 0..(DaySeconds - 1),
           MonthStart(m, y) <= rest, rest < MonthStart(m, y) + days_in_month(m, y),
           NEW t, t = [y |-> y, mo |-> m, d |-> rest - MonthStart(m, y) + 1, s |-> s]
    PROVE  IsDate(t) /\ Stamp(t) = [day |-> YearStart(y) + rest, s |-> s]
<1>1. days_in_month(m, y) \in 28..31
  BY MonthLengths
<1>2. MonthStart(m, y) \in Int
  <2>1. days_in_month(1, y) \in Int /\ days_in_month(2, y) \in Int /\ days_in_month(3, y) \in Int
        /\ days_in_month(4, y) \in Int /\ days_in_month(5, y) \in Int /\ days_in_month(6, y) \in Int
        /\ days_in_month(7, y) \in Int /\ days_in_month(8, y) \in Int /\ days_in_month(9, y) \in Int
        /\ days_in_month(10, y) \in Int /\ days_in_month(11, y) \in Int
    BY MonthLengths
  <2> QED  BY <2>1 DEF MonthStart
<1> DEFINE d == rest - MonthStart(m, y) + 1
<1>3. d \in 1..31 /\ d <= days_in_month(m, y)
  BY <1>1, <1>2
<1>4. t.y = y /\ t.mo = m /\ t.d = d /\ t.s = s
  OBVIOUS
<1>5. YearStart(y) \in Int
  BY YearsFollow
<1>6. YearStart(y) + MonthStart(m, y) + d - 1 = YearStart(y) + rest
  BY <1>2, <1>5
<1>7. t \in [y : Nat, mo : 1..12, d : 1..31, s : 0..(DaySeconds - 1)]
  BY <1>3
<1> HIDE DEF d
<1>8. IsDate(t)
  BY <1>3, <1>4, <1>7 DEF IsDate
<1>9. Stamp(t) = [day |-> YearStart(y) + rest, s |-> s]
  BY <1>4, <1>6 DEF Stamp
<1> QED  BY <1>8, <1>9

\* rtc_set_timestamp and rtc_cur_timestamp are each other's inverse (rtc.c:190-244):
\* the date that a timestamp is divided into is one of the calendar, and adds up to it.
THEOREM CalendarInverse ==
    ASSUME NEW day \in Nat, NEW s \in 0..(DaySeconds - 1)
    PROVE  IsDate(Civil(day, s)) /\ Stamp(Civil(day, s)) = [day |-> day, s |-> s]
<1> DEFINE Y(y) == YearStart(y) <= day /\ day < YearStart(y) + YearLen(y)
           M(y, m) == /\ MonthStart(m, y) <= day - YearStart(y)
                      /\ day - YearStart(y) < MonthStart(m, y) + days_in_month(m, y)
           Years == (1970 + (day \div 366))..(1970 + (day \div 365))
           y == CHOOSE y \in Years : Y(y)
           mo == CHOOSE m \in 1..12 : M(y, m)
           t == [y |-> y, mo |-> mo, d |-> day - YearStart(y) - MonthStart(mo, y) + 1, s |-> s]
<1>1. Civil(day, s) = t
  BY Zenon DEF Civil
<1>2. \E x \in Years : x \in Nat /\ Y(x)
  BY SomeYear
<1>3. Years \subseteq Nat /\ \A x \in Years : x >= 1970
  BY SMTT(60)
<1> HIDE DEF Years
<1>4. y \in Years /\ Y(y)
  <2> HIDE DEF Y
  <2> QED  BY <1>2
<1> HIDE DEF t, mo, y
<1>5. y \in Nat /\ y >= 1970
  BY <1>3, <1>4
<1>6. YearStart(y) \in Int /\ YearLen(y) \in {365, 366}
  BY <1>5, YearsFollow
<1>7. day - YearStart(y) \in 0..(YearLen(y) - 1)
  BY <1>4, <1>6
<1>8. \E m \in 1..12 : M(y, m)
  BY <1>5, <1>7, SomeMonth
<1>9. mo \in 1..12 /\ M(y, mo)
  <2> HIDE DEF M
  <2> QED  BY <1>8 DEF mo
<1>10. day - YearStart(y) \in Nat
  BY <1>6, <1>7
<1>11. IsDate(t) /\ Stamp(t) = [day |-> YearStart(y) + (day - YearStart(y)), s |-> s]
  <2>1. t = [y |-> y, mo |-> mo, d |-> (day - YearStart(y)) - MonthStart(mo, y) + 1, s |-> s]
    BY DEF t
  <2> QED  BY <1>5, <1>9, <1>10, <2>1, DateOf
<1>12. YearStart(y) + (day - YearStart(y)) = day
  BY <1>6
<1> QED  BY <1>1, <1>11, <1>12

\* Two digits are in the registers as the chip has them, and can be got back.
LEMMA TwoDigits ==
    ASSUME NEW m \in [bcd : BOOLEAN, h24 : BOOLEAN, century : BOOLEAN], NEW n \in 0..99
    PROVE  Coded(m, n) \in Nat /\ Plain0(m, Coded(m, n)) = n /\ (n <= 23 => Coded(m, n) < PM)
<1>1. to_bcd(n) \in Nat /\ from_bcd(to_bcd(n)) = n /\ (n <= 23 => to_bcd(n) < 128)
  BY DEF to_bcd, from_bcd
<1> QED  BY <1>1 DEF Coded, Plain0, PM

\* So can the hours of a chip that counts to twelve.
LEMMA Hours ==
    ASSUME NEW m \in [bcd : BOOLEAN, h24 : BOOLEAN, century : BOOLEAN], NEW h \in 0..23,
           NEW x, x = Coded(m, Hour12(h)) + (IF h >= 12 THEN PM ELSE 0)
    PROVE  (Plain0(m, x % PM) % 12) + (IF x >= PM THEN 12 ELSE 0) = h
<1>1. Hour12(h) \in 1..12 /\ Hour12(h) % 12 = h % 12
  BY DEF Hour12
<1>2. /\ Coded(m, Hour12(h)) \in Nat /\ Coded(m, Hour12(h)) < PM
      /\ Plain0(m, Coded(m, Hour12(h))) = Hour12(h)
  BY <1>1, TwoDigits
<1> DEFINE c == Coded(m, Hour12(h))
<1> HIDE DEF c
<1>3. x % PM = c /\ (x >= PM <=> h >= 12)
  BY <1>2 DEF PM, c
<1>4. (h % 12) + (IF h >= 12 THEN 12 ELSE 0) = h
  BY DEF PM
<1> QED  BY <1>1, <1>2, <1>3, <1>4 DEF c

\* Seconds, minutes and hours of a time of day.
LEMMA TimeOfDay ==
    ASSUME NEW s \in 0..(DaySeconds - 1)
    PROVE  /\ s % 60 \in 0..59 /\ (s \div 60) % 60 \in 0..59 /\ s \div 3600 \in 0..23
           /\ (s \div 3600) * 3600 + ((s \div 60) % 60) * 60 + (s % 60) = s
<1> DEFINE q == s \div 60
<1>1. q \in Nat /\ s = 60 * q + (s % 60) /\ s % 60 \in 0..59
  BY SMTT(60) DEF DaySeconds
<1>2. s \div 3600 = q \div 60
  BY SMTT(60) DEF DaySeconds
<1>3. q < 24 * 60
  BY <1>1, SMTT(60) DEF DaySeconds
<1> HIDE DEF q
<1>4. q = 60 * (q \div 60) + (q % 60) /\ q % 60 \in 0..59 /\ q \div 60 \in 0..23
  BY <1>1, <1>3
<1> QED  BY <1>1, <1>2, <1>4, SMTT(60) DEF q

\* The chip's registers beside the century.
Fields == {"sec", "min", "hour", "day", "mon", "year"}

\* What the registers show of a date is read back as that date.
LEMMA ShowsMeans ==
    ASSUME NEW m \in [bcd : BOOLEAN, h24 : BOOLEAN, century : BOOLEAN], NEW t, IsDate(t),
           NEW r, \A f \in Fields : r[f] = Shows(m, t)[f]
    PROVE  Means(m, r, t.y \div 100) = t
<1>1. t \in [y : Nat, mo : 1..12, d : 1..31, s : 0..(DaySeconds - 1)]
  BY DEF IsDate
<1> DEFINE h == t.s \div 3600
           mi == (t.s \div 60) % 60
           se == t.s % 60
<1>2. /\ h \in 0..23 /\ mi \in 0..59 /\ se \in 0..59
      /\ h * 3600 + mi * 60 + se = t.s
  BY <1>1, TimeOfDay, SMTT(60)
<1>3. /\ r.sec = Coded(m, se) /\ r.min = Coded(m, mi) /\ r.day = Coded(m, t.d) /\ r.mon = Coded(m, t.mo)
      /\ r.year = Coded(m, t.y % 100)
      /\ r.hour = IF m.h24 THEN Coded(m, h) ELSE Coded(m, Hour12(h)) + (IF h >= 12 THEN PM ELSE 0)
  BY DEF Fields, Shows
<1>4. t.y % 100 \in 0..99 /\ (t.y \div 100) * 100 + (t.y % 100) = t.y
  BY <1>1
<1> HIDE DEF h, mi, se
<1>5. /\ Plain0(m, r.sec) = se /\ Plain0(m, r.min) = mi /\ Plain0(m, r.day) = t.d /\ Plain0(m, r.mon) = t.mo
      /\ Plain0(m, r.year) = t.y % 100
  <2>1. se \in 0..99 /\ mi \in 0..99 /\ t.d \in 0..99 /\ t.mo \in 0..99
    BY <1>1, <1>2
  <2> QED  BY <1>3, <1>4, <2>1, TwoDigits
<1> DEFINE g == IF m.h24 THEN Plain0(m, r.hour)
                ELSE (Plain0(m, r.hour % PM) % 12) + (IF r.hour >= PM THEN 12 ELSE 0)
<1>6. g = h
  <2>1. CASE m.h24
    BY <1>2, <1>3, <2>1, TwoDigits, h \in 0..99
  <2>2. CASE ~m.h24
    BY <1>2, <1>3, <2>2, Hours
  <2> QED  BY <2>1, <2>2
<1> HIDE DEF g
<1>7. Means(m, r, t.y \div 100)
        = [y |-> (t.y \div 100) * 100 + Plain0(m, r.year), mo |-> Plain0(m, r.mon), d |-> Plain0(m, r.day),
           s |-> g * 3600 + Plain0(m, r.min) * 60 + Plain0(m, r.sec)]
  BY DEF Means, g
<1>8. Means(m, r, t.y \div 100) = [y |-> t.y, mo |-> t.mo, d |-> t.d, s |-> t.s]
  BY <1>2, <1>4, <1>5, <1>6, <1>7
<1> QED  BY <1>1, <1>8

\* What may be in a register.
RegsType == [sec : Nat, min : Nat, hour : Nat, day : Nat, mon : Nat, year : Nat, cent : Nat]

\* The chip's registers and the kernel's values for them agree, but for the century.
LEMMA ValuesShow ==
    ASSUME NEW m \in Modes, NEW t, IsDate(t)
    PROVE  /\ Shows(m, t) \in RegsType /\ Values(m, t) \in RegsType
           /\ \A f \in Fields : Values(m, t)[f] = Shows(m, t)[f]
<1>1. t \in [y : Nat, mo : 1..12, d : 1..31, s : 0..(DaySeconds - 1)]
  BY DEF IsDate
<1>2. \A n \in Nat : Coded(m, n) \in Nat
  BY DEF Coded, to_bcd
<1>3. /\ t.s % 60 \in Nat /\ (t.s \div 60) % 60 \in Nat /\ t.s \div 3600 \in Nat
      /\ t.y % 100 \in Nat /\ t.y \div 100 \in Nat /\ t.d \in Nat /\ t.mo \in Nat
  <2>1. t.s \in 0..(DaySeconds - 1) /\ t.y \in Nat /\ t.d \in 1..31 /\ t.mo \in 1..12
    BY <1>1
  <2>2. t.s % 60 \in Nat /\ (t.s \div 60) % 60 \in Nat /\ t.s \div 3600 \in Nat
    BY <2>1, TimeOfDay
  <2> QED  BY <2>1, <2>2
<1>4. HourValue(m, t.s \div 3600) \in Nat
  <2>1. Hour12(t.s \div 3600) \in Nat
    BY <1>3 DEF Hour12
  <2> QED  BY <1>2, <1>3, <2>1 DEF HourValue, PM
<1>5. Shows(m, t) = [Values(m, t) EXCEPT !.cent = Shows(m, t).cent]
  BY DEF Shows, Values, HourValue
<1>6. Shows(m, t).cent \in Nat
  BY <1>2, <1>3 DEF Shows
<1>7. Values(m, t) \in RegsType
  BY <1>2, <1>3, <1>4 DEF Values, RegsType
<1> QED  BY <1>5, <1>6, <1>7 DEF RegsType, Fields

-----------------------------------------------------------------------------
\* The time is a date, and between two updates the registers show it.
ClockInv ==
    /\ IsDate(wall)
    /\ chip \in [mode : Modes, regs : RegsType, uip : BOOLEAN]
    /\ ~chip.uip => \A f \in Fields : chip.regs[f] = Shows(chip.mode, wall)[f]

\* When the machine starts.
LEMMA ClockInvInit == ClockInit => ClockInv
<1> SUFFICES ASSUME ClockInit PROVE ClockInv
  OBVIOUS
<1>1. PICK m \in Modes, t \in Starts0 : wall = t /\ chip = [mode |-> m, regs |-> Shows(m, t), uip |-> FALSE]
  BY DEF ClockInit
<1>2. IsDate(t)
  BY ClockAssumption
<1> QED  BY <1>1, <1>2, ValuesShow DEF ClockInv

\* The second that follows one.
NextSecond(p) == IF p.s + 1 < DaySeconds THEN [day |-> p.day, s |-> p.s + 1] ELSE [day |-> p.day + 1, s |-> 0]

\* After the last day of a month, February's in a leap year or not, and after the last
\* of a year, the chip goes on with the date of the day that follows.
LEMMA AfterIsNext ==
    ASSUME NEW t, IsDate(t)
    PROVE  IsDate(After(t)) /\ Stamp(After(t)) = NextSecond(Stamp(t))
<1>1. t \in [y : Nat, mo : 1..12, d : 1..31, s : 0..(DaySeconds - 1)] /\ t.y >= 1970 /\ t.d <= days_in_month(t.mo, t.y)
  BY DEF IsDate
<1>2. DaySeconds \in Nat \ {0}
  BY DEF DaySeconds
<1>3. CASE t.s + 1 < DaySeconds
  <2>1. After(t) = [t EXCEPT !.s = @ + 1]
    BY <1>3 DEF After
  <2>2. /\ After(t) \in [y : Nat, mo : 1..12, d : 1..31, s : 0..(DaySeconds - 1)]
        /\ After(t).y = t.y /\ After(t).mo = t.mo /\ After(t).d = t.d /\ After(t).s = t.s + 1
    BY <1>1, <1>2, <1>3, <2>1
  <2> HIDE DEF After
  <2>3. IsDate(After(t))
    BY <1>1, <2>2 DEF IsDate
  <2>4. Stamp(After(t)) = NextSecond(Stamp(t))
    BY <1>3, <2>2 DEF Stamp, NextSecond
  <2> QED  BY <2>3, <2>4
<1>4. CASE ~(t.s + 1 < DaySeconds)
  <2>1. After(t) = Civil(Stamp(t).day + 1, 0)
    BY <1>4 DEF After
  <2>2. Stamp(t).day \in Nat
    <3>1. YearStart(t.y) \in Nat
      BY <1>1, YearBounds, YearsFollow
    <3>2. MonthStart(t.mo, t.y) \in Nat
      <4>1. \A m \in {1, 2, 3, 4, 5, 6, 7, 8, 9, 10, 11} : days_in_month(m, t.y) \in Nat
        BY <1>1, MonthLengths
      <4> QED  BY <1>1, <4>1 DEF MonthStart
    <3>3. t.d \in 1..31
      BY <1>1
    <3>4. Stamp(t).day = YearStart(t.y) + MonthStart(t.mo, t.y) + t.d - 1
      BY DEF Stamp
    <3> QED  BY <3>1, <3>2, <3>3, <3>4
  <2>3. IsDate(After(t)) /\ Stamp(After(t)) = [day |-> Stamp(t).day + 1, s |-> 0]
    <3>1. 0 \in 0..(DaySeconds - 1) /\ Stamp(t).day + 1 \in Nat
      BY <1>2, <2>2
    <3> QED  BY <2>1, <3>1, CalendarInverse
  <2>4. Stamp(t).s = t.s
    BY DEF Stamp
  <2> QED  BY <1>4, <2>3, <2>4 DEF NextSecond
<1> QED  BY <1>3, <1>4

\* A timestamp that is written to the clock.
LEMMA WrittenIsDate ==
    ASSUME NEW v \in SetTimes
    PROVE  LET t == Civil(v.day, v.cs \div 100) IN IsDate(t) /\ Stamp(t) = [day |-> v.day, s |-> v.cs \div 100]
<1>1. v.day \in Nat /\ v.cs \in 0..(100 * DaySeconds - 1)
  BY ClockAssumption
<1>2. DaySeconds \in Nat
  BY DEF DaySeconds
<1>3. v.cs \div 100 \in 0..(DaySeconds - 1)
  BY <1>1, <1>2
<1> QED  BY <1>1, <1>3, CalendarInverse

\* The chip goes from a second to the next one, and the kernel sets it.
LEMMA SecondKeeps == ClockInv /\ Second => ClockInv'
<1> SUFFICES ASSUME ClockInv, Second PROVE ClockInv'
  OBVIOUS
<1>1. wall' = After(wall) /\ chip' = [chip EXCEPT !.uip = FALSE, !.regs = Shows(chip.mode, After(wall))]
  BY DEF Second
<1>2. IsDate(After(wall))
  BY AfterIsNext DEF ClockInv
<1> DEFINE a == After(wall)
<1> HIDE DEF a
<1>3. chip.mode \in Modes /\ chip \in [mode : Modes, regs : RegsType, uip : BOOLEAN]
  BY DEF ClockInv
<1>4. Shows(chip.mode, a) \in RegsType
  BY <1>2, <1>3, ValuesShow DEF a
<1>5. chip' \in [mode : Modes, regs : RegsType, uip : BOOLEAN] /\ chip'.mode = chip.mode /\ chip'.regs = Shows(chip.mode, a)
  BY <1>1, <1>3, <1>4 DEF a
<1>6. wall' = a /\ IsDate(a)
  BY <1>1, <1>2 DEF a
<1> QED  BY <1>5, <1>6 DEF ClockInv

LEMMA ClockWriteKeeps == ASSUME NEW v \in SetTimes PROVE ClockInv /\ ClockWrite(v) => ClockInv'
<1> SUFFICES ASSUME ClockInv, ClockWrite(v) PROVE ClockInv'
  OBVIOUS
<1> DEFINE t == Civil(v.day, v.cs \div 100)
           values == Values(chip.mode, t)
           kept == [values EXCEPT !.cent = chip.regs.cent]
           new == IF read_century(chip) THEN values ELSE kept
<1>1. wall' = t /\ chip' = [chip EXCEPT !.regs = new]
  BY DEF ClockWrite
<1>2. IsDate(t)
  BY WrittenIsDate
<1> HIDE DEF t
<1>3. chip.mode \in Modes /\ chip \in [mode : Modes, regs : RegsType, uip : BOOLEAN]
  BY DEF ClockInv
<1>4. values \in RegsType /\ \A f \in Fields : values[f] = Shows(chip.mode, t)[f]
  BY <1>2, <1>3, ValuesShow
<1> HIDE DEF values
<1>5. chip.regs.cent \in Nat
  BY <1>3 DEF RegsType
<1>6. kept \in RegsType /\ \A f \in Fields : kept[f] = values[f]
  BY <1>4, <1>5 DEF RegsType, Fields
<1> HIDE DEF kept
<1>7. new \in RegsType /\ \A f \in Fields : new[f] = Shows(chip.mode, t)[f]
  BY <1>4, <1>6
<1> HIDE DEF new
<1>8. chip' \in [mode : Modes, regs : RegsType, uip : BOOLEAN] /\ chip'.mode = chip.mode /\ chip'.regs = new
  BY <1>1, <1>3, <1>7
<1> QED  BY <1>1, <1>2, <1>7, <1>8 DEF ClockInv

\* Every step.
LEMMA ClockInvStep == ClockInv /\ [ClockNext]_clockVars => ClockInv'
<1> SUFFICES ASSUME ClockInv, [ClockNext]_clockVars PROVE ClockInv'
  OBVIOUS
<1>1. CASE Announce
  <2>1. wall' = wall /\ chip' = [chip EXCEPT !.uip = TRUE] /\ chip \in [mode : Modes, regs : RegsType, uip : BOOLEAN]
    BY <1>1 DEF Announce, ClockInv
  <2>2. chip' \in [mode : Modes, regs : RegsType, uip : BOOLEAN] /\ chip'.uip
    BY <2>1
  <2> QED  BY <2>1, <2>2 DEF ClockInv
<1>2. CASE Second
  BY <1>2, SecondKeeps
<1>3. ASSUME NEW v \in SetTimes, ClockWrite(v) PROVE ClockInv'
  BY <1>3, ClockWriteKeeps
<1>4. ASSUME UNCHANGED <<chip, wall>> PROVE ClockInv'
  BY <1>4 DEF ClockInv
<1>5. ASSUME ReadRtc \/ AwaitUpdate \/ ReadReg \/ ReadCentury \/ ReadOver \/ PitTick PROVE UNCHANGED <<chip, wall>>
  BY <1>5 DEF ReadRtc, AwaitUpdate, ReadReg, ReadCentury, ReadOver, PitTick
<1>6. ASSUME clock_open \/ boot_open \/ uptime_open \/ TimeClose \/ \E n \in TextReads : TimeRead(n)
      PROVE  UNCHANGED <<chip, wall>>
  BY <1>6 DEF clock_open, boot_open, uptime_open, TimeOpen, TimeClose, TimeRead
<1>7. ASSUME UNCHANGED clockVars PROVE UNCHANGED <<chip, wall>>
  BY <1>7 DEF clockVars
<1> QED  BY <1>1, <1>2, <1>3, <1>4, <1>5, <1>6, <1>7 DEF ClockNext

\* In every mode, the registers that the kernel or the chip has set are those of the
\* time that it is: twelve at noon and at midnight, and the afternoon's bit, are right,
\* for every date from 1970 on (rtc.c:216-305).
THEOREM ClockStaysRight == ClockSpec => []ClockKeepsTime
<1>1. ClockInv => ClockKeepsTime
  <2> SUFFICES ASSUME ClockInv, ~chip.uip PROVE Stamp(Means(chip.mode, chip.regs, wall.y \div 100)) = Stamp(wall)
    BY DEF ClockKeepsTime
  <2>1. chip.mode \in [bcd : BOOLEAN, h24 : BOOLEAN, century : BOOLEAN]
    BY ClockAssumption DEF ClockInv
  <2>2. Means(chip.mode, chip.regs, wall.y \div 100) = wall
    BY <2>1, ShowsMeans DEF ClockInv
  <2> QED  BY <2>2
<1> QED  BY <1>1, ClockInvInit, ClockInvStep, PTL DEF ClockSpec

\* The time goes from a second to the next one, over the ends of months and of years,
\* leap years or not, or is set to the timestamp that a task wrote (rtc.c:216-244).
GoesOn ==
    \/ wall' = wall
    \/ Stamp(wall') = NextSecond(Stamp(wall))
    \/ \E v \in SetTimes : ClockWrite(v) /\ Stamp(wall') = [day |-> v.day, s |-> v.cs \div 100]
TimeGoesOn == [][GoesOn]_clockVars

\* No step makes the clock show anything but the time that was written to it and the
\* seconds since then, whatever is read meanwhile (clock.c:72-106, rtc.c:216-305).
THEOREM ClockGoesOn == ClockSpec => TimeGoesOn
<1>1. ClockInv /\ [ClockNext]_clockVars => [GoesOn]_clockVars
  <2> SUFFICES ASSUME ClockInv, ClockNext PROVE GoesOn
    BY Zenon
  <2>1. CASE Second
    <3>1. wall' = After(wall)
      BY <2>1 DEF Second
    <3>2. IsDate(wall)
      BY DEF ClockInv
    <3> QED  BY <3>1, <3>2, AfterIsNext DEF GoesOn
  <2>2. ASSUME NEW v \in SetTimes, ClockWrite(v) PROVE GoesOn
    <3>1. wall' = Civil(v.day, v.cs \div 100)
      BY <2>2 DEF ClockWrite
    <3>2. Stamp(wall') = [day |-> v.day, s |-> v.cs \div 100]
      BY <3>1, WrittenIsDate
    <3> QED  BY <2>2, <3>2 DEF GoesOn
  <2>3. ASSUME Announce \/ ReadRtc \/ AwaitUpdate \/ ReadReg \/ ReadCentury \/ ReadOver \/ PitTick PROVE wall' = wall
    BY <2>3 DEF Announce, ReadRtc, AwaitUpdate, ReadReg, ReadCentury, ReadOver, PitTick
  <2>4. ASSUME clock_open \/ boot_open \/ uptime_open \/ TimeClose \/ \E n \in TextReads : TimeRead(n)
        PROVE  wall' = wall
    BY <2>4 DEF clock_open, boot_open, uptime_open, TimeOpen, TimeClose, TimeRead
  <2>5. wall' = wall => GoesOn
    BY DEF GoesOn
  <2> QED  BY <2>1, <2>2, <2>3, <2>4, <2>5 DEF ClockNext
<1> QED  BY <1>1, ClockInvInit, ClockInvStep, PTL DEF ClockSpec, TimeGoesOn
=============================================================================
