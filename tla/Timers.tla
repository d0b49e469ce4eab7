------------------------------- MODULE Timers -------------------------------
(***************************************************************************)
(* The 64-bit microsecond timers (timer.c; TIMER1 in rp2350_periph.c), the *)
(* conversion of instruction cycles to microseconds (timing_tick) and the  *)
(* jumps made while every core sleeps (dual_core_step, cpu.c), for two     *)
(* cores stepping in turn.                                                 *)
(*                                                                         *)
(* The low word has Low values, the high one Highs.  Each core             *)
(* enables the interrupt of the alarm with its own number.  History: left  *)
(* is how far ahead of an armed alarm the counter is, counted down by the  *)
(* ticks and free of wrapping; early, missed and over are alarms fired too *)
(* soon, not fired though due, and jumped over; still counts steps without *)
(* time; torn is a TIMELR/TIMEHR pair that was never the time.             *)
(***************************************************************************)
EXTENDS Integers, FiniteSetsExt

CONSTANTS
    Kinds,         \* subset of {"timer0", "timer1"}
    Low,           \* 2^32: values of a word
    Highs,         \* values of the high word
    CyclesPerUs,   \* cycles_per_us
    ChunkCap,      \* 10000: longest jump
    IdleChunk,     \* 1000: jump with no alarm armed
    WfeBudget,     \* 5000: time between forced wakeups
    Offsets,       \* how far ahead the guest sets an alarm
    MaxWrites      \* bound on register writes

VARIABLE t

Cores == {0, 1}
Alarms == {0, 1}
Half == Low \div 2
Now(s) == s.us % Low
High(s) == s.us \div Low
Signed(d) == LET m == d % Low IN IF m < Half THEN m ELSE m - Low

\* timer_reset; the guest either programs alarms or reads the time.
Init ==
    \E kind \in Kinds, guest \in {"alarms", "reads"} :
        t = [kind |-> kind, guest |-> guest, us |-> Low - 2, hw |-> 0, latch |-> 0, paused |-> FALSE,
             alarm |-> [i \in Alarms |-> 0], armed |-> {}, intr |-> {}, inte |-> {}, intf |-> {},
             acc |-> 0, pend |-> [c \in Cores |-> {}], seen |-> [c \in Cores |-> {}],
             core |-> [c \in Cores |-> "run"], cur |-> 0, wfe |-> 0,
             left |-> [i \in Alarms |-> 0], early |-> FALSE, missed |-> FALSE, over |-> FALSE,
             still |-> 0, rd |-> -1, torn |-> FALSE, writes |-> 0]

-----------------------------------------------------------------------------
\* Ticking.

Ints(s) == (s.intr \cup s.intf) \cap s.inte

\* nvic_signal_irq: the line goes to both cores.
Signal(s, set) == [s EXCEPT !.pend = [c \in Cores |-> @[c] \cup set]]

\* timer_fire_alarm: recorded, disarmed, signalled to the NVIC.
FireAlarms(s, due, signalled) ==
    Signal([s EXCEPT !.intr = @ \cup due, !.armed = @ \ due], due \cap signalled)

\* The alarms reached or passed, by signed comparison.
Due(s) == {i \in s.armed : Signed(Now(s) - s.alarm[i]) >= 0}

\* The counter moves and what is due fires, with what the history says of it.
Elapse(s, us, signalled) ==
    LET moved == [s EXCEPT !.us = (@ + us) % (Low * Highs),
                           !.left = [i \in Alarms |-> IF i \in s.armed THEN @[i] - us ELSE 0],
                           !.still = IF us > 0 THEN 0 ELSE @]
        fired == FireAlarms(moved, Due(moved), signalled)
        gone == s.armed \ fired.armed
    IN [fired EXCEPT !.early = @ \/ \E i \in gone : moved.left[i] > 0,
                     !.missed = @ \/ \E i \in fired.armed : moved.left[i] <= 0,
                     !.over = @ \/ \E i \in s.armed : s.left[i] > 0 /\ moved.left[i] < 0,
                     !.left = [i \in Alarms |-> IF i \in fired.armed THEN @[i] ELSE 0]]

TimerTick(s, us) == IF s.paused THEN s ELSE Elapse(s, us, Alarms)
\* rp2350_timer1_tick: signals only what INTE lets through.
Timer1Tick(s, us) == IF s.paused \/ us = 0 THEN s ELSE Elapse(s, us, s.inte)
Tick(s, us) == IF s.kind = "timer0" THEN TimerTick(s, us) ELSE Timer1Tick(s, us)

\* timer_next_wakeup_us of timer 0, the only one it looks at.
TimerNextWakeup(s) ==
    IF s.kind = "timer1" \/ s.armed = {} THEN IdleChunk
    ELSE IF Due(s) # {} THEN 1
    ELSE Min({(s.alarm[i] - Now(s)) % Low : i \in s.armed})

Asleep(s, c) == s.core[c] \in {"wfi", "halted"}

\* timing_tick after one cycle of core c: core 0 owns the shared time, the
\* other core while core 0 sleeps or is halted.
TimingTick(s, c) ==
    IF c # 0 /\ ~Asleep(s, 0) THEN s
    ELSE LET acc == s.acc + 1
             us == acc \div CyclesPerUs
             kept == [s EXCEPT !.acc = acc % CyclesPerUs, !.still = 0]
         IN IF us = 0 THEN kept ELSE Tick(kept, us)

-----------------------------------------------------------------------------
\* Registers.

\* A served interrupt is forgotten once its cause is gone.
Settle(s) == [s EXCEPT !.seen = [c \in Cores |-> @[c] \cap Ints(s)]]

WriteAlarm(s, i, v) ==
    [s EXCEPT !.alarm[i] = v, !.armed = @ \cup {i}, !.left[i] = Signed(v - Now(s))]
WriteArmed(s, set) == [s EXCEPT !.armed = @ \ set]
WriteIntr(s, set) == Settle([s EXCEPT !.intr = @ \ set])

WriteInte(s, set) == LET w == Settle([s EXCEPT !.inte = set]) IN Signal(w, Ints(w))
WriteIntf(s, set) == LET w == Settle([s EXCEPT !.intf = set]) IN Signal(w, Ints(w))
WritePause(s, b) == [s EXCEPT !.paused = b]

\* TIMEHW waits for TIMELW.
WriteTimehw(s, v) == [s EXCEPT !.hw = v]
WriteTimelw(s, v) == [s EXCEPT !.us = s.hw * Low + v]
\* timer1_write: each half is set at once.
Timer1SetHigh(s, v) == [s EXCEPT !.us = v * Low + Now(s)]
Timer1SetLow(s, v) == [s EXCEPT !.us = High(s) * Low + v]

\* TIMELR latches the high word; core 0's pair is given up when core 1 reads,
\* the latch is shared.
ReadTimelr(s, c) == [s EXCEPT !.latch = High(s), !.rd = IF c = 0 THEN High(s) ELSE -1]

\* TIMEHR gives the latched word; TIMER1's gives the current one, latched or not.
ReadTimehr(s) == [s EXCEPT !.rd = -1, !.torn = @ \/ (s.rd # -1 /\ s.latch # s.rd)]
Timer1Timehr(s) == [s EXCEPT !.rd = -1, !.torn = @ \/ (s.rd # -1 /\ High(s) # s.rd)]

-----------------------------------------------------------------------------
\* The cores.

Longer(n) == Min({n + 1, 3})
Written(s) == [s EXCEPT !.writes = @ + 1]

\* The guest sets the time while no alarm is armed.
SetsTime(s) ==
    IF s.kind = "timer0" THEN {WriteTimehw(s, 1), WriteTimelw(s, Low - 1)}
    ELSE {Timer1SetHigh(s, 1), Timer1SetLow(s, Low - 1)}

\* The instructions of core c; core 0 is the one that programs the timer,
\* and a core halts only once that is done.
Writes(s, c) ==
    IF s.writes >= MaxWrites \/ c = 1 THEN {}
    ELSE {Written(w) : w \in
             {WriteAlarm(s, i, (Now(s) + d) % Low) : i \in Alarms, d \in Offsets}
             \cup {WriteArmed(s, {i}) : i \in s.armed}
             \cup {WriteInte(s, set) : set \in {{}, Alarms}}
             \cup {WriteIntf(s, set) : set \in {{}, {c}}}
             \cup {WritePause(s, ~s.paused)}
             \cup (IF s.armed # {} THEN {} ELSE SetsTime(s))}

Instructions(s, c) ==
    {s}
    \cup (IF s.guest = "alarms" THEN Writes(s, c) ELSE {ReadTimelr(s, c)})
    \cup (IF s.guest = "reads" /\ c = 0
          THEN {IF s.kind = "timer0" THEN ReadTimehr(s) ELSE Timer1Timehr(s)} ELSE {})
    \cup {WriteIntr(s, s.seen[c])}
    \cup {[s EXCEPT !.core[c] = "wfi"]}
    \cup (IF s.writes = MaxWrites THEN {[s EXCEPT !.core[c] = "halted"]} ELSE {})

Waiting(s, c) == s.pend[c] \cap {c}

\* cpu_step: an enabled interrupt is taken first, then an instruction runs,
\* and the step is paid for in time.
CpuSteps(s, c) ==
    IF Waiting(s, c) # {}
    THEN {TimingTick([s EXCEPT !.pend[c] = @ \ {c}, !.seen[c] = @ \cup (Ints(s) \cap {c})], c)}
    ELSE {TimingTick(i, c) : i \in Instructions(s, c)}

\* dual_core_step, a core that runs.
Run(c) ==
    /\ t.cur = c
    /\ t.core[c] = "run"
    /\ \E s \in CpuSteps([t EXCEPT !.still = Longer(@)], c) : t' = [s EXCEPT !.cur = 1 - c]

\* dual_core_step: the fast-forward when every core sleeps.
Jump(s) == Min({TimerNextWakeup(s), ChunkCap})

\* dual_core_step, a core in WFI or WFE: frozen is the wait for a neighbour's
\* answer, which makes the jump empty.
Sleep(c) ==
    /\ t.cur = c
    /\ t.core[c] = "wfi"
    /\ \E frozen \in BOOLEAN :
        LET all == c = 0 /\ Asleep(t, 1)
            us == IF all /\ ~frozen THEN Jump(t) ELSE 0
            s == IF all THEN Tick([t EXCEPT !.still = IF frozen THEN 0 ELSE Longer(@)], us)
                        ELSE [t EXCEPT !.still = Longer(@)]
            acc == IF all /\ Waiting(s, c) = {} THEN s.wfe + us ELSE s.wfe
            forced == acc >= WfeBudget
            woken == [s EXCEPT !.core[c] = "run", !.wfe = IF forced THEN 0 ELSE acc]
        IN \/ /\ Waiting(s, c) = {} /\ ~forced
              /\ t' = [s EXCEPT !.wfe = acc, !.cur = 1 - c]
           \/ /\ Waiting(s, c) # {} \/ forced
              /\ \E r \in CpuSteps(woken, c) : t' = [r EXCEPT !.cur = 1 - c]

\* A halted core is passed over.
Skip(c) ==
    /\ t.cur = c
    /\ t.core[c] = "halted"
    /\ t.core[1 - c] # "halted"
    /\ t' = [t EXCEPT !.cur = 1 - c, !.still = Longer(@)]

\* Every core halted: the loop in main ends.
Ended == t.core[0] = "halted" /\ t.core[1] = "halted" /\ UNCHANGED t

Next ==
    \/ \E c \in Cores : Run(c) \/ Sleep(c) \/ Skip(c)
    \/ Ended

Spec == Init /\ [][Next]_t

-----------------------------------------------------------------------------
\* What is claimed.

Stuck == t.core[0] = "halted" /\ t.core[1] = "wfi"

\* Alarms fire at the first tick that reaches them, whatever wraps, is
\* re-armed or rewritten; a jump while the cores sleep never passes an alarm of
\* timer 0; an enabled interrupt is pending or being served on each core; a
\* TIMELR/TIMEHR pair is a time the counter had unless the other core used the
\* latch between; and time stands still for at most one round, unless paused or
\* the only core left awake is asleep (timer.c, cpu.c timing_tick).
TimersHonest ==
    /\ ~t.early /\ ~t.missed
    /\ t.kind = "timer0" => ~t.over /\ ~t.torn
    /\ \A c \in Cores : Ints(t) \subseteq t.pend[c] \cup t.seen[c]
    /\ t.still > 2 => t.paused \/ Stuck

\* rp2350_periph.c:290: "TIMEHR (latched on TIMELR read)".
PairConsistent == ~t.torn

\* cpu.c:1299: "let the currently executing core own shared time whenever Core 0
\* is asleep or halted so dual-core workloads do not starve the system timer".
TimeFlows == t.still > 2 => t.paused

=============================================================================
