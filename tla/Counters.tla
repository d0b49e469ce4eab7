------------------------------ MODULE Counters ------------------------------
(***************************************************************************)
(* The two counters advanced by arithmetic instead of one tick at a time:  *)
(* SysTick (nvic.c), which crosses whole periods in one call, and the real *)
(* time clock (rtc.c), which turns microseconds into a calendar.  Each is  *)
(* run beside a plain reference: SysTick beside the loop over single       *)
(* cycles its comment describes, the clock beside a count of elapsed time. *)
(***************************************************************************)
EXTENDS Integers, FiniteSets

CONSTANTS
    MaxReload,   \* 2^24 - 1: largest reload value
    MaxCycles,   \* bound on the cycles of a call
    UsPerSec,    \* 1000000
    SecPerMin,   \* 60
    MinPerHour,  \* 60
    HourPerDay,  \* 24
    Dates,       \* dates set up, <<year, month, day>>
    MaxSecs      \* bound on the seconds of a history

VARIABLE ct

-----------------------------------------------------------------------------
\* SysTick.

Stopped == [en |-> FALSE, tickint |-> FALSE, cf |-> FALSE, rvr |-> 0, cvr |-> 0, pend |-> FALSE]

\* The event: COUNTFLAG, and the exception when TICKINT is set.
Fire(s) == [s EXCEPT !.cf = TRUE, !.pend = @ \/ s.tickint]

\* nvic.c:88, the per-cycle loop.
Cycle(s) ==
    LET dec == IF s.cvr > 0 THEN s.cvr - 1 ELSE 0
    IN IF dec = 0 THEN [Fire(s) EXCEPT !.cvr = s.rvr] ELSE [s EXCEPT !.cvr = dec]

RECURSIVE Cycles(_, _)
Cycles(s, n) == IF n = 0 THEN s ELSE Cycles(Cycle(s), n - 1)

\* A call that finds the counter at zero with nothing to reload fires once.
ZeroReload(d) ==
    IF d.zf THEN d ELSE [d EXCEPT !.s = Fire(d.s), !.zf = TRUE, !.fired0 = @ + 1]

\* Variant: the whole periods are reckoned with the reload cycle added.
SkipPeriodsLong(remaining, reload) ==
    IF remaining > reload
    THEN remaining - ((remaining - 1) \div (reload + 1)) * (reload + 1) ELSE remaining

\* Whole periods ahead are skipped, leaving 1 to reload cycles.
SkipPeriods(remaining, reload) ==
    IF remaining > reload
    THEN remaining - ((remaining - 1) \div reload) * reload ELSE remaining

\* systick_tick.
RECURSIVE SystickTick(_, _)
SystickTick(d, remaining) ==
    LET s == d.s
        hit == [Fire(s) EXCEPT !.cvr = s.rvr]
    IN CASE ~s.en \/ remaining = 0 -> d
         [] s.en /\ remaining > 0 /\ s.cvr = 0 /\ s.rvr = 0 -> ZeroReload(d)
         [] s.en /\ remaining > 0 /\ s.cvr = 0 /\ s.rvr > 0 ->
                SystickTick([d EXCEPT !.s = hit], remaining - 1)
         [] s.en /\ remaining > 0 /\ s.cvr > remaining ->
                [d EXCEPT !.s.cvr = @ - remaining]
         [] s.en /\ remaining > 0 /\ s.cvr \in 1..remaining /\ s.rvr = 0 ->
                [d EXCEPT !.s = hit, !.fired0 = @ + 1]
         [] OTHER ->
                SystickTick([d EXCEPT !.s = hit], SkipPeriods(remaining - s.cvr, s.rvr))

\* SYST_CSR, SYST_RVR, SYST_CVR; reading CSR clears COUNTFLAG.
WriteCsr(d, en, tickint) == [d EXCEPT !.s.en = en, !.s.tickint = tickint]
ReadCsr(d) == [d EXCEPT !.s.cf = FALSE]
WriteRvr(d, v) == [d EXCEPT !.s.rvr = v, !.zf = FALSE, !.fired0 = 0]
WriteCvr(d) == [d EXCEPT !.s.cvr = 0, !.s.cf = FALSE]
\* The exception is taken.
Taken(d) == [d EXCEPT !.s.pend = FALSE]

Systick(n) ==
    /\ ct.what = "systick"
    /\ LET d == SystickTick(ct.dev, n)
       IN ct' = [ct EXCEPT !.dev = d,
                           !.ref = CASE d.s.rvr = 0 -> d.s
                                     [] d.s.rvr > 0 /\ ~d.s.en -> @
                                     [] OTHER -> Cycles(@, n)]

\* A register access does the same to both.
Access ==
    /\ ct.what = "systick"
    /\ \E d \in {WriteCsr(ct.dev, en, int) : en \in BOOLEAN, int \in BOOLEAN}
                \cup {ReadCsr(ct.dev), WriteCvr(ct.dev), Taken(ct.dev)}
                \cup {WriteRvr(ct.dev, v) : v \in 0..MaxReload} :
           ct' = [ct EXCEPT !.dev = d, !.ref = d.s]

-----------------------------------------------------------------------------
\* The real time clock.

Field(w, shift, size) == (w \div shift) % size

DaysInMonth(month, year) ==
    IF month \notin 1..12 THEN 30
    ELSE IF month = 2
         THEN (IF (year % 4 = 0 /\ year % 100 # 0) \/ year % 400 = 0 THEN 29 ELSE 28)
    ELSE IF month \in {4, 6, 9, 11} THEN 30 ELSE 31

\* rtc_advance_second, from the day's end outward.
NextMonth(r) ==
    IF r.month >= 12
    THEN [r EXCEPT !.month = 1, !.year = IF @ >= 4095 THEN 0 ELSE @ + 1]
    ELSE [r EXCEPT !.month = @ + 1]
NextDay(r) ==
    LET n == [r EXCEPT !.hour = 0, !.dotw = (@ + 1) % 7]
    IN IF r.day + 1 > DaysInMonth(r.month, r.year)
       THEN NextMonth([n EXCEPT !.day = 1]) ELSE [n EXCEPT !.day = @ + 1]
RtcAdvanceSecond(r) ==
    IF r.sec + 1 < SecPerMin THEN [r EXCEPT !.sec = @ + 1]
    ELSE LET m == [r EXCEPT !.sec = 0] IN
         IF r.min + 1 < MinPerHour THEN [m EXCEPT !.min = @ + 1]
         ELSE LET h == [m EXCEPT !.min = 0] IN
              IF r.hour + 1 < HourPerDay THEN [h EXCEPT !.hour = @ + 1] ELSE NextDay(h)

\* rtc_load_setup: SETUP_0 and SETUP_1 unpacked.
RtcLoadSetup(r) ==
    [r EXCEPT !.year = Field(r.setup0, 4096, 4096), !.month = Field(r.setup0, 256, 16),
              !.day = Field(r.setup0, 1, 32), !.dotw = Field(r.setup1, 2^24, 8),
              !.hour = Field(r.setup1, 2^16, 32), !.min = Field(r.setup1, 256, 64),
              !.sec = Field(r.setup1, 1, 64), !.acc = 0]

\* rtc_pack_rtc1, rtc_pack_rtc0.
RtcPack1(r) == (r.year % 4096) * 4096 + (r.month % 16) * 256 + (r.day % 32)
RtcPack0(r) ==
    (r.dotw % 8) * 2^24 + (r.hour % 32) * 2^16 + (r.min % 64) * 256 + (r.sec % 64)

\* rtc_write32: CTRL with the LOAD strobe, or with ENABLE alone.
WriteCtrl(r, load, enable) ==
    [(IF load THEN RtcLoadSetup(r) ELSE r) EXCEPT !.en = enable]

\* rtc_tick.
RECURSIVE Carry(_)
Carry(r) ==
    IF r.acc >= UsPerSec THEN Carry(RtcAdvanceSecond([r EXCEPT !.acc = @ - UsPerSec])) ELSE r
RtcTick(r, us) == IF r.en THEN Carry([r EXCEPT !.acc = @ + us]) ELSE r

Elapse(us) ==
    /\ ct.what = "rtc"
    /\ ct.us + us <= MaxSecs * UsPerSec
    /\ ct' = [ct EXCEPT !.dev = RtcTick(@, us), !.us = IF ct.dev.en THEN @ + us ELSE @]
Control(load, enable) ==
    /\ ct.what = "rtc"
    /\ ct' = [ct EXCEPT !.dev = WriteCtrl(@, load, enable), !.us = IF load THEN 0 ELSE @]

-----------------------------------------------------------------------------
\* rtc_init and the date the guest sets up, in the last minute of a day.
Clock(date) ==
    LET zero == [year |-> 0, month |-> 0, day |-> 0, dotw |-> 0, hour |-> 0, min |-> 0, sec |-> 0,
                 acc |-> 0, en |-> FALSE, setup0 |-> 0, setup1 |-> 0]
        start == [zero EXCEPT !.year = date[1], !.month = date[2], !.day = date[3], !.dotw = 6,
                              !.hour = HourPerDay - 1, !.min = MinPerHour - 1]
    IN [zero EXCEPT !.setup0 = RtcPack1(start), !.setup1 = RtcPack0(start)]

Init ==
    \/ ct = [what |-> "systick", dev |-> [s |-> Stopped, zf |-> FALSE, fired0 |-> 0], ref |-> Stopped]
    \/ \E date \in Dates :
           ct = [what |-> "rtc", dev |-> RtcLoadSetup(Clock(date)), us |-> 0]

Next ==
    \/ \E n \in 1..MaxCycles : Systick(n)
    \/ Access
    \/ \E us \in 1..(UsPerSec + 1) : Elapse(us)
    \/ \E load, enable \in BOOLEAN : Control(load, enable)

Spec == Init /\ [][Next]_ct

-----------------------------------------------------------------------------
\* What is claimed.

\* Days since 1 March of year 0, by the usual count over shifted years.
DayNumber(y, m, d) ==
    LET yy == IF m > 2 THEN y ELSE y - 1
        mm == (m + 9) % 12
    IN 365 * yy + (yy \div 4) - (yy \div 100) + (yy \div 400) + (153 * mm + 2) \div 5 + d - 1

\* The clock's time in seconds; the year after 4095 is 0.
Seconds(r, from) ==
    LET year == IF r.year < from THEN r.year + 4096 ELSE r.year
    IN ((DayNumber(year, r.month, r.day) * HourPerDay + r.hour) * MinPerHour + r.min) * SecPerMin
           + r.sec

\* SysTick crosses any number of cycles in one call exactly as the loop over
\* single cycles does, and the clock shows the set-up time plus the whole seconds
\* elapsed while it was enabled, over month ends, leap days and the wrap of the
\* year (nvic.c systick_tick, rtc.c rtc_tick), with the day of the week in step.
CountersExact ==
    IF ct.what = "systick" THEN ct.dev.s = ct.ref
    ELSE LET r == ct.dev
             at == RtcLoadSetup(r)
             days == DayNumber(IF r.year < at.year THEN r.year + 4096 ELSE r.year, r.month, r.day)
                         - DayNumber(at.year, at.month, at.day)
         IN /\ Seconds(r, at.year) = Seconds(at, at.year) + ct.us \div UsPerSec
            /\ r.acc = ct.us % UsPerSec
            /\ r.dotw = (at.dotw + days) % 7
            /\ RtcPack1(at) = r.setup0 /\ RtcPack0(at) = r.setup1

\* nvic.c:105: with reload 0, "fire once until RVR is rewritten".
ZeroFiresOnce == ct.what = "systick" => ct.dev.fired0 <= 1

=============================================================================
