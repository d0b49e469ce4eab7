------------------------------ MODULE CorePool ------------------------------
(***************************************************************************)
(* Threaded execution: corepool.c, the threaded loop of main.c and the     *)
(* parts of cpu.c the core threads share with it.  Every emulated core has *)
(* a host thread that takes the big lock for a burst of guest instructions *)
(* and sleeps on a condition variable while its core is in WFI or halted.  *)
(* The main thread creates the threads, polls the host, reboots the        *)
(* machine on a watchdog request and joins the threads at the end.         *)
(*                                                                         *)
(* Critical sections that no other thread can observe half-way are one     *)
(* step.  The lock is a variable because of the one section that others do *)
(* observe: the launch of Core 1, which creates a thread under the lock    *)
(* while the main thread, in corepool_start_threads, does not take it.     *)
(* A burst is one instruction (-thread-quantum 1); a longer one is a       *)
(* sequence of these during which no other thread gets the lock.           *)
(***************************************************************************)
EXTENDS Naturals, FiniteSets

CONSTANTS
  Threads,        \* identities of host threads
  Free,           \* no thread
  InitialCores,   \* num_active_cores, as -cores may leave it
  MaxReboots,     \* bound: the reboots after which a behaviour ends
  SlowBoot        \* the firmware launches Core 1 only after
                  \* corepool_start_threads has returned

ASSUME PoolAssumption ==
  /\ Free \notin Threads
  /\ InitialCores \subseteq {1, 2}
  /\ MaxReboots \in Nat
  /\ SlowBoot \in BOOLEAN

CORE0 == 0
CORE1 == 1
Cores == {CORE0, CORE1}

VARIABLES
  running,        \* corepool.running
  numActive,      \* num_active_cores
  lock,           \* holder of emu_lock between two steps, or Free
  handle,         \* corepool.threads
  threadActive,   \* the cores whose thread_active is set
  failed,         \* history: the cores whose pthread_create failed since
                  \* corepool_start_threads, as stderr reports
  pc,             \* where each host thread is
  core,           \* core_id of each host thread
  halted, wfi,    \* the cores with is_halted, is_wfi
  pend,           \* the cores with an interrupt that ends WFI
  psmOff,         \* PROC1 bit of PSM FRCE_OFF
  waiting,        \* core1_bootrom.waiting_for_launch
  odd,            \* the cores whose step_count is odd
  reboot,         \* watchdog_reboot_pending
  reboots,        \* reboots so far
  mpc, mi, started, rebooting   \* the main thread and its locals

machine == <<halted, wfi, pend, psmOff, waiting, odd>>
pool == <<running, numActive, handle, threadActive, failed>>
main == <<mpc, mi, started, rebooting, reboots>>
vars == <<machine, pool, main, reboot, lock, pc, core>>

Asleep == {"sleep", "haltSleep"}
Launching == {"spawn", "create", "flag"}
Gone == {"unborn", "done"}
ThreadPCs == Asleep \cup Launching \cup Gone
               \cup {"top", "lock", "relock", "haltLock", "haltRelock"}
MainPCs == {"start", "check", "create", "flag", "loop", "poll", "watch",
            "stop", "join", "reboot", "exited"}

TypeOK ==
  /\ running \in BOOLEAN /\ numActive \in {1, 2}
  /\ lock \in Threads \cup {Free}
  /\ handle \in [Cores -> Threads \cup {Free}]
  /\ threadActive \subseteq Cores /\ failed \subseteq Cores
  /\ pc \in [Threads -> ThreadPCs] /\ core \in [Threads -> Cores]
  /\ halted \subseteq Cores /\ wfi \subseteq Cores
  /\ pend \subseteq Cores /\ odd \subseteq Cores
  /\ {psmOff, waiting, reboot, rebooting, started} \subseteq BOOLEAN
  /\ reboots \in 0..MaxReboots
  /\ mpc \in MainPCs /\ mi \in 0..2

(***************************************************************************)
(* corepool_init, dual_core_init and cpu_reset_core: Core 1 is halted and  *)
(* its boot ROM is not waiting until the firmware cycles PSM FRCE_OFF.     *)
(***************************************************************************)
Init ==
  /\ running = FALSE /\ numActive \in InitialCores /\ lock = Free
  /\ handle = [c \in Cores |-> Free] /\ threadActive = {} /\ failed = {}
  /\ pc = [t \in Threads |-> "unborn"] /\ core = [t \in Threads |-> CORE0]
  /\ halted = {CORE1} /\ wfi = {} /\ pend = {} /\ odd = {}
  /\ psmOff = FALSE /\ waiting = FALSE
  /\ reboot = FALSE /\ reboots = 0
  /\ mpc = "start" /\ mi = 0 /\ started = FALSE /\ rebooting = FALSE

-----------------------------------------------------------------------------
(***************************************************************************)
(* The condition variable.                                                 *)
(***************************************************************************)

\* What a thread that stops waiting does next: take the lock again.
Rouse(p) == CASE p = "sleep" -> "relock"
              [] p = "haltSleep" -> "haltRelock"
              [] OTHER -> p

\* corepool_wake_cores, on the program counters ps: all waiting threads leave.
Broadcast(ps) == [t \in Threads |-> Rouse(ps[t])]

\* Interrupts raised on the cores P wake every sleeping thread.
Signal(P, ps) == IF P = {} THEN ps ELSE Broadcast(ps)

\* Variant: pthread_cond_wait, without a timeout.
NoTimeout(t) == FALSE /\ UNCHANGED vars

\* The 1 ms timeout of pthread_cond_timedwait.
Timeout(t) ==
  /\ pc[t] \in Asleep
  /\ pc' = [pc EXCEPT ![t] = Rouse(pc[t])]
  /\ UNCHANGED <<machine, pool, main, reboot, lock, core>>

\* pthread_create of a thread for core c by a thread whose step leads to ps.
Create(c, ps) ==
  \E t \in Threads :
    /\ pc[t] = "unborn"
    /\ pc' = [ps EXCEPT ![t] = "top"]
    /\ core' = [core EXCEPT ![t] = c]
    /\ handle' = [handle EXCEPT ![c] = t]

-----------------------------------------------------------------------------
(***************************************************************************)
(* core_thread_fn.                                                         *)
(***************************************************************************)

\* while (corepool.running), read without the lock.
Top(t) ==
  /\ pc[t] = "top"
  /\ pc' = [pc EXCEPT ![t] = IF running THEN "lock" ELSE "done"]
  /\ UNCHANGED <<machine, pool, main, reboot, lock, core>>

\* The core is halted, or the pool is stopping: unlock and sleep or leave.
HaltedOrStopped(t) ==
  /\ pc[t] = "lock" /\ lock = Free
  /\ ~running \/ core[t] \in halted
  /\ pc' = [pc EXCEPT ![t] = IF core[t] \in halted THEN "haltLock" ELSE "done"]
  /\ UNCHANGED <<machine, pool, main, reboot, lock, core>>

\* The lock is taken a second time, and given up again by the wait.
HaltedSleep(t) ==
  /\ pc[t] = "haltLock" /\ lock = Free
  /\ pc' = [pc EXCEPT ![t] = "haltSleep"]
  /\ UNCHANGED <<machine, pool, main, reboot, lock, core>>

HaltedWoken(t) ==
  /\ pc[t] = "haltRelock" /\ lock = Free
  /\ pc' = [pc EXCEPT ![t] = "top"]
  /\ UNCHANGED <<machine, pool, main, reboot, lock, core>>

\* What pio_step and usb_step may raise while core c's thread drives them.
RaisedBy(c) == IF c = CORE0 THEN SUBSET Cores ELSE {{}}

\* WFI with nothing pending, also after the peripherals made a step.
WfiSleep(t) ==
  /\ pc[t] = "lock" /\ lock = Free /\ running
  /\ core[t] \in wfi \ halted
  /\ \E P \in RaisedBy(core[t]) :
       /\ core[t] \notin pend \cup P
       /\ pend' = pend \cup P
       /\ pc' = [Signal(P, pc) EXCEPT ![t] = "sleep"]
  /\ UNCHANGED <<halted, wfi, psmOff, waiting, odd, pool, main, reboot,
                 lock, core>>

\* After the wait SysTick catches up; Core 0's thread also moves the timers
\* on when the other core sleeps, and now and then ends its WFI regardless.
FastForward(c) == c = CORE0 /\ (numActive = 1 \/ CORE1 \in wfi \cup halted)

WfiWoken(t) ==
  LET c == core[t] IN
  /\ pc[t] = "relock" /\ lock = Free
  /\ \E P \in IF FastForward(c) THEN SUBSET Cores ELSE SUBSET {c} :
       /\ pend' = pend \cup P
       /\ pc' = [Signal(P, pc) EXCEPT ![t] = "top"]
  /\ wfi' \in IF FastForward(c) THEN {wfi, wfi \ {c}} ELSE {wfi}
  /\ UNCHANGED <<halted, psmOff, waiting, odd, pool, main, reboot, lock,
                 core>>

-----------------------------------------------------------------------------
(***************************************************************************)
(* A burst of guest execution: the thread has the lock, its core is not    *)
(* halted and is awake or has a pending interrupt.                         *)
(***************************************************************************)
Executes(t) ==
  /\ pc[t] = "lock" /\ lock = Free /\ running
  /\ core[t] \notin halted
  /\ core[t] \in wfi => core[t] \in pend

Awake(t) == wfi \ {core[t]}
Stepped(t) ==
  odd' = IF core[t] \in odd THEN odd \ {core[t]} ELSE odd \cup {core[t]}

\* An instruction, the time it takes and what the peripherals raise.  A core
\* in WFI executes when what pio_step or usb_step raises includes itself.
Instr(t) ==
  /\ pc[t] = "lock" /\ lock = Free /\ running /\ core[t] \notin halted
  /\ \E P \in SUBSET Cores :
       /\ core[t] \in wfi => \/ core[t] \in pend
                             \/ P \in RaisedBy(core[t]) /\ core[t] \in P
       /\ pend' = pend \cup P
       /\ pc' = [Signal(P, pc) EXCEPT ![t] = "top"]
  /\ wfi' = Awake(t) /\ Stepped(t)
  /\ UNCHANGED <<halted, psmOff, waiting, pool, main, reboot, lock, core>>

\* The core takes its pending interrupt.
TakeIrq(t) ==
  /\ Executes(t) /\ core[t] \in pend
  /\ pend' = pend \ {core[t]}
  /\ wfi' = Awake(t) /\ Stepped(t)
  /\ pc' = [pc EXCEPT ![t] = "top"]
  /\ UNCHANGED <<halted, psmOff, waiting, pool, main, reboot, lock, core>>

\* instr_wfi, instr_wfe.
Wfi(t) ==
  /\ Executes(t)
  /\ wfi' = wfi \cup {core[t]} /\ Stepped(t)
  /\ pc' = [pc EXCEPT ![t] = "top"]
  /\ UNCHANGED <<halted, pend, psmOff, waiting, pool, main, reboot, lock, core>>

\* instr_sev clears is_wfi of both cores and does not broadcast.
Sev(t) ==
  /\ Executes(t)
  /\ wfi' = {} /\ Stepped(t)
  /\ pc' = [pc EXCEPT ![t] = "top"]
  /\ UNCHANGED <<halted, pend, psmOff, waiting, pool, main, reboot, lock, core>>

\* The core stops with PC = 0xFFFFFFFF; unbinding it sets is_halted.
Halt(t) ==
  /\ Executes(t)
  /\ halted' = halted \cup {core[t]}
  /\ wfi' = Awake(t) /\ Stepped(t)
  /\ pc' = [pc EXCEPT ![t] = "top"]
  /\ UNCHANGED <<pend, psmOff, waiting, pool, main, reboot, lock, core>>

\* Watchdog TRIGGER or AIRCR.SYSRESETREQ.
RequestReboot(t) ==
  /\ Executes(t)
  /\ reboot' = TRUE
  /\ wfi' = Awake(t) /\ Stepped(t)
  /\ pc' = [pc EXCEPT ![t] = "top"]
  /\ UNCHANGED <<halted, pend, psmOff, waiting, pool, main, lock, core>>

\* sio_set_core1_reset from a write to PSM FRCE_OFF that changes the bit.
ResetCore1(t) ==
  /\ Executes(t) /\ core[t] = CORE0
  /\ psmOff' = ~psmOff
  /\ halted' = halted \cup {CORE1}
  /\ waiting' = psmOff
  /\ wfi' = Awake(t) /\ Stepped(t)
  /\ pc' = [pc EXCEPT ![t] = "top"]
  /\ UNCHANGED <<pend, pool, main, reboot, lock, core>>

\* The sixth word of the launch sequence.  With one core active the launch
\* goes on to create a thread for Core 1, still holding the lock.
Launch(t) ==
  /\ Executes(t) /\ core[t] = CORE0 /\ waiting
  /\ SlowBoot => mpc \notin {"check", "create", "flag"}
  /\ halted' = halted \ {CORE1} /\ waiting' = FALSE
  /\ wfi' = Awake(t) /\ Stepped(t)
  /\ numActive' = 2
  /\ IF numActive < 2
     THEN /\ lock' = t
          /\ pc' = [pc EXCEPT ![t] = "spawn"]
     ELSE /\ lock' = lock
          /\ pc' = [Broadcast(pc) EXCEPT ![t] = "top"]
  /\ UNCHANGED <<pend, psmOff, running, handle, threadActive, failed, main,
                 reboot, core>>

\* The early returns of corepool_start_core_thread, and the failed create.
LaunchDone(t) ==
  /\ lock' = Free
  /\ pc' = [Broadcast(pc) EXCEPT ![t] = "top"]
  /\ UNCHANGED <<running, numActive, handle, core>>

Spawn(t) ==
  /\ pc[t] = "spawn"
  /\ IF CORE1 \in threadActive \/ ~running
     THEN LaunchDone(t)
     ELSE /\ pc' = [pc EXCEPT ![t] = "create"]
          /\ UNCHANGED <<running, numActive, handle, lock, core>>
  /\ UNCHANGED <<machine, threadActive, failed, main, reboot>>

\* pthread_create and, as a step of its own, what follows it.
SpawnCreate(t) ==
  /\ pc[t] = "create"
  /\ \/ /\ Create(CORE1, [pc EXCEPT ![t] = "flag"])
        /\ UNCHANGED <<running, numActive, failed, lock>>
     \/ LaunchDone(t) /\ failed' = failed \cup {CORE1}
  /\ UNCHANGED <<machine, threadActive, main, reboot>>

SpawnFlag(t) ==
  /\ pc[t] = "flag"
  /\ threadActive' = threadActive \cup {CORE1}
  /\ LaunchDone(t)
  /\ UNCHANGED <<machine, failed, main, reboot>>

-----------------------------------------------------------------------------
(***************************************************************************)
(* The main thread: corepool_start_threads, the polling loop,              *)
(* corepool_stop_threads, reboot_from_watchdog.                            *)
(***************************************************************************)
Start ==
  /\ mpc = "start" /\ mpc' = "check"
  /\ running' = TRUE /\ mi' = 0 /\ started' = FALSE /\ failed' = {}
  /\ UNCHANGED <<machine, numActive, handle, threadActive, rebooting, reboots,
                 reboot, lock, pc, core>>

\* Variant of the loop condition: Core 0 alone.
StartCheckCore0 ==
  /\ mpc = "check"
  /\ mpc' = IF mi < 1 THEN "create" ELSE "loop"
  /\ UNCHANGED <<machine, pool, mi, started, rebooting, reboots, reboot, lock,
                 pc, core>>

\* The loop condition reads num_active_cores every time round.
StartCheck ==
  /\ mpc = "check"
  /\ mpc' = IF mi < numActive THEN "create" ELSE "loop"
  /\ running' = IF mi < numActive THEN running ELSE running /\ started
  /\ UNCHANGED <<machine, numActive, handle, threadActive, failed, mi, started,
                 rebooting, reboots, reboot, lock, pc, core>>

StartCreate ==
  /\ mpc = "create"
  /\ \/ /\ Create(mi, pc)
        /\ mpc' = "flag"
        /\ UNCHANGED <<threadActive, failed, mi>>
     \/ /\ mpc' = "check" /\ mi' = mi + 1
        /\ threadActive' = threadActive \ {mi} /\ failed' = failed \cup {mi}
        /\ UNCHANGED <<handle, pc, core>>
  /\ UNCHANGED <<machine, running, numActive, started, rebooting, reboots,
                 reboot, lock>>

StartFlag ==
  /\ mpc = "flag" /\ mpc' = "check"
  /\ threadActive' = threadActive \cup {mi}
  /\ started' = TRUE /\ mi' = mi + 1
  /\ UNCHANGED <<machine, running, numActive, handle, failed, rebooting,
                 reboots, reboot, lock, pc, core>>

\* while (any_core_running() && corepool.running)
AnyCoreRunning == \E c \in 0..(numActive - 1) : c \notin halted

Loop ==
  /\ mpc = "loop"
  /\ mpc' = IF AnyCoreRunning /\ running THEN "poll" ELSE "stop"
  /\ UNCHANGED <<machine, pool, mi, started, rebooting, reboots, reboot, lock,
                 pc, core>>

\* Polling stdin, network, wire and radio under the lock may raise anything.
Poll ==
  /\ mpc = "poll" /\ mpc' = "watch" /\ lock = Free
  /\ \E P \in SUBSET Cores : pend' = pend \cup P /\ pc' = Signal(P, pc)
  /\ UNCHANGED <<halted, wfi, psmOff, waiting, odd, pool, mi, started,
                 rebooting, reboots, reboot, lock, core>>

\* Variant: the request is not looked at.
WatchBlind ==
  /\ mpc = "watch"
  /\ mpc' \in {"loop", "stop"}
  /\ UNCHANGED <<machine, pool, mi, started, rebooting, reboots, reboot, lock,
                 pc, core>>

\* The watchdog check; without a request the loop goes round or, on a
\* timeout, a semihosting exit or the step limit, ends.
Watch ==
  /\ mpc = "watch"
  /\ mpc' \in IF reboot THEN {"stop"} ELSE {"loop", "stop"}
  /\ rebooting' = reboot
  /\ UNCHANGED <<machine, pool, mi, started, reboots, reboot, lock, pc, core>>

Stop ==
  /\ mpc = "stop" /\ mpc' = "join" /\ mi' = 0
  /\ running' = FALSE
  /\ pc' = Broadcast(pc)
  /\ UNCHANGED <<machine, numActive, handle, threadActive, failed, started,
                 rebooting, reboots, reboot, lock, core>>

\* Variants: only Core 0's thread is joined; a flag is cleared unjoined.
JoinCore0 ==
  /\ mpc = "join" /\ mi < 2 /\ mi' = 2
  /\ CORE0 \in threadActive => pc[handle[CORE0]] = "done"
  /\ pc' = IF CORE0 \in threadActive
           THEN [pc EXCEPT ![handle[CORE0]] = "unborn"] ELSE pc
  /\ threadActive' = {}
  /\ UNCHANGED <<machine, running, numActive, handle, failed, mpc, started,
                 rebooting, reboots, reboot, lock, core>>

JoinUnwaited ==
  /\ mpc = "join" /\ mi < 2 /\ mi' = mi + 1
  /\ threadActive' = threadActive \ {mi}
  /\ UNCHANGED <<machine, running, numActive, handle, failed, mpc, started,
                 rebooting, reboots, reboot, lock, pc, core>>

\* pthread_join blocks until the thread the handle names has returned.
Join ==
  /\ mpc = "join" /\ mi < 2 /\ mi' = mi + 1
  /\ \/ mi \notin threadActive /\ UNCHANGED <<threadActive, pc>>
     \/ /\ mi \in threadActive /\ pc[handle[mi]] = "done"
        /\ threadActive' = threadActive \ {mi}
        /\ pc' = [pc EXCEPT ![handle[mi]] = "unborn"]
  /\ UNCHANGED <<machine, running, numActive, handle, failed, mpc, started,
                 rebooting, reboots, reboot, lock, core>>

\* The last join: on to the reboot, or through the end of main to
\* corepool_cleanup, which destroys the lock and the condition variable.
Joined ==
  /\ mpc = "join" /\ mi = 2
  /\ mpc' = IF rebooting THEN "reboot" ELSE "exited"
  /\ UNCHANGED <<machine, pool, mi, started, rebooting, reboots, reboot, lock,
                 pc, core>>

\* The request is dropped, the peripherals and both cores are reset;
\* num_active_cores stays.
Reboot ==
  /\ mpc = "reboot" /\ reboots < MaxReboots /\ mpc' = "start"
  /\ reboot' = FALSE /\ rebooting' = FALSE /\ reboots' = reboots + 1
  /\ halted' = {CORE1} /\ wfi' = {} /\ pend' = {}
  /\ psmOff' = FALSE /\ waiting' = FALSE /\ odd' = {}
  /\ UNCHANGED <<pool, mi, started, lock, pc, core>>

\* main has returned, or the bound is reached.
Exited ==
  /\ mpc = "exited" \/ (mpc = "reboot" /\ reboots = MaxReboots)
  /\ UNCHANGED vars

-----------------------------------------------------------------------------
Guest(t) ==
  \/ Instr(t) \/ TakeIrq(t) \/ Wfi(t) \/ Sev(t) \/ Halt(t)
  \/ RequestReboot(t) \/ ResetCore1(t) \/ Launch(t)

CoreThread(t) ==
  \/ Top(t) \/ HaltedOrStopped(t) \/ HaltedSleep(t) \/ HaltedWoken(t)
  \/ WfiSleep(t) \/ WfiWoken(t) \/ Guest(t)
  \/ Spawn(t) \/ SpawnCreate(t) \/ SpawnFlag(t)

Main ==
  \/ Start \/ StartCheck \/ StartCreate \/ StartFlag \/ Loop \/ Poll \/ Watch
  \/ Stop \/ Join \/ Joined \/ Reboot

Next == Main \/ Exited \/ \E t \in Threads : CoreThread(t) \/ Timeout(t)

Spec == Init /\ [][Next]_vars

\* The host schedules every thread, no thread is passed over for the lock
\* forever, and a timed wait ends.
FairSpec ==
  /\ Spec
  /\ WF_vars(Main)
  /\ \A t \in Threads : WF_vars(CoreThread(t)) /\ WF_vars(Timeout(t))

-----------------------------------------------------------------------------
(***************************************************************************)
(* Properties.                                                             *)
(***************************************************************************)
Live(t) == pc[t] \notin Gone

\* corepool.h:14: "One pthread per active emulated core".  No two live host
\* threads ever execute the same core.
OneThreadPerCore ==
  \A t, u \in Threads : Live(t) /\ Live(u) /\ core[t] = core[u] => t = u

\* reboot_from_watchdog resets the machine and corepool_cleanup destroys the
\* lock without taking it: both only after the last core thread is gone.
QuietReboot ==
  mpc \in {"reboot", "start", "exited"} => \A t \in Threads : ~Live(t)

\* Once the main loop polls, every active core has its host thread, unless
\* its creation failed or a launch is about to create it: no launch is
\* forgotten between the two places that create threads, not across a reboot
\* either.
ActiveCoresHaveThreads ==
  mpc \in {"loop", "poll", "watch"} /\ running =>
    \A c \in 0..(numActive - 1) :
       \/ c \in failed
       \/ \E t \in Threads : Live(t) /\ core[t] = c
       \/ \E t \in Threads : pc[t] \in Launching

\* The thread that corepool_stop_threads joins is the one that runs the core.
HandlesTrackThreads ==
  \A t \in Threads : Live(t) =>
     /\ handle[core[t]] = t
     /\ \/ core[t] \in threadActive
        \/ mpc = "flag" /\ mi = core[t]
        \/ \E u \in Threads : pc[u] = "flag" /\ core[t] = CORE1

\* Both: the threads corepool_start_threads and a launch of Core 1 create are
\* the ones their cores need, and the ones corepool_stop_threads will join.
ThreadsTracked == ActiveCoresHaveThreads /\ HandlesTrackThreads

\* corepool_stop_threads returns, although running is cleared and the wake-up
\* is broadcast without the lock.
StopCompletes == mpc = "stop" ~> mpc \in {"reboot", "exited"}

\* A core that is not halted and is awake, or asleep in WFI with an interrupt
\* pending, executes its next instruction: no wake-up is lost for good, not
\* the one of a launch between the unlock and the wait of a halted core's
\* thread (corepool.c:297 to 308), nor the SEV that broadcasts nothing.
CoreProgress ==
  \A c \in Cores, o \in BOOLEAN :
    (/\ running /\ c \notin failed
     /\ c \notin halted /\ (c \in wfi => c \in pend) /\ (c \in odd) = o)
       ~> (~running \/ c \in failed \/ c \in halted \/ (c \in odd) # o)

\* clocks.c:333: "Bit 31 = TRIGGER: request system reboot".  A request is
\* answered by a reboot, unless the firmware lets every core halt before the
\* main loop looks, which ends the program instead.
RebootHappens ==
  (reboot /\ mpc = "loop") ~> (~reboot \/ rebooting \/ ~AnyCoreRunning)
=============================================================================
