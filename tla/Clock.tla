-------------------------------- MODULE Clock --------------------------------
(***************************************************************************)
(* The time of day: the CMOS clock and the code that reads and sets it     *)
(* (rtc.c), the time of boot that the wall clock is counted from (coord.c) *)
(* and the devices clock, boot and uptime.                                 *)
(*                                                                         *)
(* The chip goes on while its registers are read one by one.  A timestamp  *)
(* is a day since 1970 and a part of that day: [day, s] in seconds,        *)
(* [day, cs] in hundredths.  One task at a time uses the chip.             *)
(***************************************************************************)
EXTENDS Integers, Sequences

CONSTANTS
    Modes,            \* how chips count: [bcd, h24, century]
    Starts0,          \* what the chip says when the machine starts: [y, mo, d, s]
    SetTimes,         \* timestamps [day, cs] that are written to the clock
    MaxSeconds,       \* seconds that pass in one behaviour
    MaxPit,           \* ticks of the PIT in one behaviour
    TextLen,          \* length of a device's text
    TextReads         \* lengths it is read in

VARIABLES
    chip,             \* the CMOS registers, their mode, and the update flag
    wall,             \* the time that it is
    reading,          \* a reading of the chip under way
    boott,            \* boot time
    ticks,            \* the PIT's
    text,             \* an open handle of one of the devices
    past              \* seconds that have passed

clockVars == <<chip, wall, reading, boott, ticks, text, past>>

-----------------------------------------------------------------------------
(***************************************************************************)
(* The calendar.                                                           *)
(***************************************************************************)
is_leap_year(y) == y % 400 = 0 \/ (y % 4 = 0 /\ y % 100 # 0)
YearLen(y) == IF is_leap_year(y) THEN 366 ELSE 365
days_in_month(mo, y) ==
    CASE mo = 2 -> IF is_leap_year(y) THEN 29 ELSE 28
      [] mo \in {4, 6, 9, 11} -> 30
      [] OTHER -> 31
\* What the loops over the years add up to.
LeapsTo(y) == (y \div 4) - (y \div 100) + (y \div 400)
YearStart(y) == 365 * (y - 1970) + LeapsTo(y - 1) - LeapsTo(1969)
MonthStart(mo, y) ==
    LET of(m) == IF m < mo THEN days_in_month(m, y) ELSE 0
    IN  of(1) + of(2) + of(3) + of(4) + of(5) + of(6) + of(7) + of(8) + of(9) + of(10) + of(11)

DaySeconds == 24 * 60 * 60

\* A date of the calendar, and a time of day.  The clock counts from 1970.
IsDate(t) ==
    /\ t \in [y : Nat, mo : 1..12, d : 1..31, s : 0..(DaySeconds - 1)]
    /\ t.y >= 1970 /\ t.d <= days_in_month(t.mo, t.y)
ASSUME ClockAssumption ==
    /\ Modes \subseteq [bcd : BOOLEAN, h24 : BOOLEAN, century : BOOLEAN]
    /\ \A t \in Starts0 : IsDate(t)
    /\ SetTimes \subseteq [day : Nat, cs : 0..(100 * DaySeconds - 1)]

\* The end of rtc_cur_timestamp.
Stamp(t) == [day |-> YearStart(t.y) + MonthStart(t.mo, t.y) + t.d - 1, s |-> t.s]

\* The divisions of rtc_set_timestamp.
Civil(day, s) ==
    LET y == CHOOSE y \in (1970 + (day \div 366))..(1970 + (day \div 365)) : YearStart(y) <= day /\ day < YearStart(y) + YearLen(y)
        rest == day - YearStart(y)
        mo == CHOOSE m \in 1..12 : MonthStart(m, y) <= rest /\ rest < MonthStart(m, y) + days_in_month(m, y)
    IN  [y |-> y, mo |-> mo, d |-> rest - MonthStart(mo, y) + 1, s |-> s]

to_bcd(n) == 16 * (n \div 10) + (n % 10)
from_bcd(n) == (n % 16) + 10 * (n \div 16)
PM == 128

-----------------------------------------------------------------------------
(***************************************************************************)
(* The chip.                                                               *)
(***************************************************************************)
Coded(m, n) == IF m.bcd THEN to_bcd(n) ELSE n
Plain0(m, n) == IF m.bcd THEN from_bcd(n) ELSE n
Hour12(h) == IF h % 12 = 0 THEN 12 ELSE h % 12
Shows(m, t) ==
    LET h == t.s \div 3600
    IN  [sec |-> Coded(m, t.s % 60), min |-> Coded(m, (t.s \div 60) % 60),
         hour |-> IF m.h24 THEN Coded(m, h) ELSE Coded(m, Hour12(h)) + (IF h >= 12 THEN PM ELSE 0),
         day |-> Coded(m, t.d), mon |-> Coded(m, t.mo), year |-> Coded(m, t.y % 100),
         cent |-> IF m.century THEN Coded(m, t.y \div 100) ELSE 0]
Means(m, r, century) ==
    LET h == IF m.h24 THEN Plain0(m, r.hour) ELSE (Plain0(m, r.hour % PM) % 12) + (IF r.hour >= PM THEN 12 ELSE 0)
    IN  [y |-> century * 100 + Plain0(m, r.year), mo |-> Plain0(m, r.mon), d |-> Plain0(m, r.day),
         s |-> h * 3600 + Plain0(m, r.min) * 60 + Plain0(m, r.sec)]

\* The second that follows.
After(t) == LET n == Stamp(t)
            IN  IF t.s + 1 < DaySeconds THEN [t EXCEPT !.s = @ + 1] ELSE Civil(n.day + 1, 0)

Regs == <<"sec", "min", "hour", "day", "mon", "year">>

\* The chip announces an update, and makes it.
Announce ==
    /\ ~chip.uip /\ past < MaxSeconds /\ chip' = [chip EXCEPT !.uip = TRUE]
    /\ UNCHANGED <<wall, reading, boott, ticks, text, past>>
Second ==
    /\ chip.uip /\ wall' = After(wall) /\ past' = past + 1
    /\ chip' = [chip EXCEPT !.uip = FALSE, !.regs = Shows(chip.mode, After(wall))]
    /\ reading' = IF reading.at = "no" THEN reading ELSE [reading EXCEPT !.seen = @ \union {Stamp(After(wall))}]
    /\ UNCHANGED <<boott, ticks, text>>

-----------------------------------------------------------------------------
(***************************************************************************)
(* read_rtc: registers are read until two rounds agree.                    *)
(***************************************************************************)
NotReading == [at |-> "no", now |-> <<>>, last |-> <<>>, seen |-> {}, result |-> {}]

ReadRtc ==
    /\ reading.at = "no" /\ reading' = [NotReading EXCEPT !.at = "wait", !.seen = {Stamp(wall)}]
    /\ UNCHANGED <<chip, wall, boott, ticks, text, past>>
AwaitUpdate ==
    /\ reading.at = "wait" /\ ~chip.uip
    /\ reading' = [reading EXCEPT !.at = "regs", !.now = <<>>]
    /\ UNCHANGED <<chip, wall, boott, ticks, text, past>>

\* As a bug: one round is enough.
Agree_Once(last, now) == TRUE

Agree(last, now) == last = now

ReadReg ==
    LET now == Append(reading.now, chip.regs[Regs[Len(reading.now) + 1]])
    IN  /\ reading.at = "regs"
        /\ reading' = IF Len(now) < Len(Regs) THEN [reading EXCEPT !.now = now]
                      ELSE [reading EXCEPT !.now = now, !.last = now,
                                           !.at = IF Agree(reading.last, now) THEN "century" ELSE "wait"]
        /\ UNCHANGED <<chip, wall, boott, ticks, text, past>>

\* The hour of a chip that counts to twelve.
Hour24(h) == IF h >= PM THEN ((h % PM) + 12) % 24 ELSE IF h = 12 THEN 0 ELSE h

\* What the registers are taken for, with a century only if there is one.
Decoded(m, r, cent) ==
    LET dec(n) == IF m.bcd THEN from_bcd(n) ELSE n
        h == dec(r[3] % PM) + (IF r[3] >= PM THEN PM ELSE 0)
        hour == IF m.h24 THEN h ELSE Hour24(h)
        year == dec(r[6])
        c == dec(cent)
    IN  [y |-> IF c \in 19..99 THEN c * 100 + year ELSE IF year < 70 THEN 2000 + year ELSE 1900 + year,
         mo |-> dec(r[5]), d |-> dec(r[4]), s |-> hour * 3600 + dec(r[2]) * 60 + dec(r[1])]

\* The mode and the century are read last.  The first reading is the time of boot.
ReadCentury ==
    LET t == Stamp(Decoded(chip.mode, reading.now, chip.regs.cent))
    IN  /\ reading.at = "century"
        /\ reading' = [reading EXCEPT !.at = "done", !.result = {t}]
        /\ boott' = IF boott.set THEN boott ELSE [set |-> TRUE, day |-> t.day, cs |-> t.s * 100]
        /\ UNCHANGED <<chip, wall, ticks, text, past>>
ReadOver ==
    /\ reading.at = "done" /\ reading' = NotReading
    /\ UNCHANGED <<chip, wall, boott, ticks, text, past>>

-----------------------------------------------------------------------------
(***************************************************************************)
(* The clock device.                                                       *)
(***************************************************************************)
Later(t, cs) ==
    LET n == t.cs + cs
    IN  [day |-> t.day + (n \div (100 * DaySeconds)), cs |-> n % (100 * DaySeconds)]

\* As a bug: afternoon is looked for after the hour was reduced.
HourValue_Late(m, h) == IF m.h24 THEN Coded(m, h) ELSE Coded(m, Hour12(h)) + (IF Hour12(h) > 12 THEN PM ELSE 0)

HourValue(m, h) == IF m.h24 THEN Coded(m, h) ELSE Coded(m, Hour12(h)) + (IF h >= 12 THEN PM ELSE 0)

\* rtc_set_timestamp: the values for the registers.
Values(m, t) ==
    [sec |-> Coded(m, t.s % 60), min |-> Coded(m, (t.s \div 60) % 60), hour |-> HourValue(m, t.s \div 3600),
     day |-> Coded(m, t.d), mon |-> Coded(m, t.mo), year |-> Coded(m, t.y % 100), cent |-> Coded(m, t.y \div 100)]
read_century(c) == Plain0(c.mode, c.regs.cent) \in 19..99

\* WRITE of a number to the clock; the chip stands still while it is set.
ClockWrite(v) ==
    LET t == Civil(v.day, v.cs \div 100)
        values == Values(chip.mode, t)
    IN  /\ boott.set /\ reading.at = "no" /\ ~chip.uip
        /\ t.y <= 9999 /\ (read_century(chip) \/ t.y <= 2069)
        /\ chip' = [chip EXCEPT !.regs = IF read_century(chip) THEN values ELSE [values EXCEPT !.cent = chip.regs.cent]]
        /\ wall' = t
        /\ boott' = [set |-> TRUE, day |-> Later(v, -ticks).day, cs |-> Later(v, -ticks).cs]
        /\ UNCHANGED <<reading, ticks, text, past>>

-----------------------------------------------------------------------------
PitTick ==
    /\ ticks < MaxPit /\ ticks' = ticks + 1
    /\ UNCHANGED <<chip, wall, reading, boott, text, past>>

\* OPEN renders the device's number, and READ gives the text in pieces.
NoText == [value |-> {}, pos |-> 0]
TimeOpen(value) ==
    /\ boott.set /\ text = NoText /\ text' = [value |-> {value}, pos |-> 0]
    /\ UNCHANGED <<chip, wall, reading, boott, ticks, past>>
clock_open == TimeOpen(Later(boott, ticks))
boot_open == TimeOpen(Later(boott, 0))
uptime_open == TimeOpen([day |-> 0, cs |-> ticks])
TimeRead(len) ==
    /\ text # NoText /\ text.pos < TextLen
    /\ text' = [text EXCEPT !.pos = IF @ + len > TextLen THEN TextLen ELSE @ + len]
    /\ UNCHANGED <<chip, wall, reading, boott, ticks, past>>
TimeClose ==
    /\ text # NoText /\ text' = NoText
    /\ UNCHANGED <<chip, wall, reading, boott, ticks, past>>

-----------------------------------------------------------------------------
ClockInit ==
    /\ \E m \in Modes, t \in Starts0 :
          /\ wall = t
          /\ chip = [mode |-> m, regs |-> Shows(m, t), uip |-> FALSE]
    /\ reading = NotReading /\ boott = [set |-> FALSE, day |-> 0, cs |-> 0]
    /\ ticks = 0 /\ text = NoText /\ past = 0

ClockNext ==
    \/ Announce \/ Second
    \/ ReadRtc \/ AwaitUpdate \/ ReadReg \/ ReadCentury \/ ReadOver
    \/ PitTick \/ clock_open \/ boot_open \/ uptime_open \/ TimeClose
    \/ \E v \in SetTimes : ClockWrite(v)
    \/ \E n \in TextReads : TimeRead(n)

ClockSpec == ClockInit /\ [][ClockNext]_clockVars

-----------------------------------------------------------------------------
\* The chip, set by the kernel in whatever way it counts, shows the time that was
\* written to the clock, and the time since then (rtc.c:216-305).
ClockKeepsTime ==
    ~chip.uip => Stamp(Means(chip.mode, chip.regs, wall.y \div 100)) = Stamp(wall)

\* A reading that the chip's updates break into gives a time that it was while
\* the registers were read (rtc.c:110-188).
ReadingIsATime == reading.result \subseteq reading.seen
=============================================================================
