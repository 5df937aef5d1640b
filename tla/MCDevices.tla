------------------------------ MODULE MCDevices ------------------------------
(* Instances of the devices. *)
EXTENDS Devices, TLC

CONSTANTS t1, t2

MCBodies == {<<65>>, <<66, 67, 68>>}

\* Chips count in either base, to twelve or to twenty-four, with or without a
\* century, and start before a leap day or at the end of a year.
MCModes ==
    {[bcd |-> TRUE, h24 |-> FALSE, century |-> TRUE], [bcd |-> FALSE, h24 |-> FALSE, century |-> FALSE],
     [bcd |-> TRUE, h24 |-> TRUE, century |-> FALSE]}
MCStarts == {[y |-> 2000, mo |-> 2, d |-> 28, s |-> 86399], [y |-> 2026, mo |-> 12, d |-> 31, s |-> 86399]}
\* The last second of 2068, and one o'clock in the afternoon of a day in 2100.
MCSetTimes == {[day |-> 36159, cs |-> 8639900], [day |-> 47540, cs |-> 4680000]}

\* One machine has a disk that says it has four sectors, where 28 bits name three, and
\* no believable total of 48 bits; its first partition fits and its second does not;
\* and a CD-ROM of two sectors.  The disk of the other does not answer IDENTIFY.  The
\* third has a CD-ROM without a medium, and a disk of four sectors without a table.
Part(s, n) == [type |-> "linux", status |-> 0, start |-> <<s, 0, 0, 0>>, count |-> <<n, 0, 0, 0>>]
MCMachines ==
    LET ata == [sec |-> 1, mid |-> 0, hi |-> 0]
        atapi == [sec |-> 1, mid |-> 20, hi |-> 235]
        m == [slots |-> {ata, atapi}, answers |-> TRUE, last |-> 1,
              words |-> [lba48 |-> TRUE, total |-> 15, lo28 |-> 4, cache |-> TRUE, flush |-> TRUE],
              signed |-> TRUE, mbr |-> [p1 |-> Part(1, 2), p2 |-> Part(3, 1)]]
    IN  {m, [m EXCEPT !.answers = FALSE], [m EXCEPT !.words.total = 4, !.signed = FALSE, !.last = -1]}

\* One task uses the partition and the CD-ROM, whose third sector is not there, through
\* handles; the other the whole disk, outside the partition, and the RAM disk.
W(d, o, l, h) == [dev |-> d, off |-> o, len |-> l, handle |-> h]
MCWindows ==
    (t1 :> {W("p1", 1, 2, TRUE), W("cdrom", 0, 3, TRUE)})
        @@ (t2 :> {W("disk", 0, 2, FALSE), W("ram", 0, 1, TRUE)})

\* Two tasks that write their half of one sector.
MCSharedWindows == (t1 :> {W("p1", 0, 1, FALSE)}) @@ (t2 :> {W("p1", 1, 1, FALSE)})
=============================================================================
