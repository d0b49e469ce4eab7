--------------------------- MODULE CorePoolProofs ---------------------------
(***************************************************************************)
(* Proofs about CorePool, for every number of host threads and reboots and *)
(* every initial core count: the threads that corepool_start_threads and a *)
(* launch of Core 1 create are one per core, known to                      *)
(* corepool_stop_threads, and gone when the machine is reset.              *)
(***************************************************************************)
EXTENDS CorePool, TLAPS

USE PoolAssumption DEF CORE0, CORE1, Cores

-----------------------------------------------------------------------------
(* The inductive invariant *)

\* A host thread exists until it is joined, also after it has returned.
Born(t) == pc[t] # "unborn"

\* The handle of core c names a thread that executes c.
Runs(c) == handle[c] \in Threads /\ Born(handle[c]) /\ core[handle[c]] = c

Starting == {"check", "create", "flag"}
Polling  == {"loop", "poll", "watch"}

\* Handles and threads agree, and thread_active marks them except between
\* pthread_create and the assignment that follows it.
Tracked ==
  /\ \A t \in Threads : Born(t) =>
       /\ handle[core[t]] = t
       /\ \/ core[t] \in threadActive
          \/ mpc = "flag" /\ mi = core[t]
          \/ core[t] = CORE1 /\ \E u \in Threads : pc[u] = "flag"
  /\ \A c \in threadActive : Runs(c)
  /\ mpc = "flag" => mi \in Cores /\ Runs(mi)

\* Only Core 0's thread launches, holding the lock, and never while the main
\* thread starts threads.
LaunchAlone ==
  \A t \in Threads : pc[t] \in Launching =>
    /\ core[t] = CORE0 /\ lock = t
    /\ mpc \in Polling \cup {"stop", "join"}
    /\ pc[t] = "create" => CORE1 \notin threadActive
    /\ pc[t] = "flag" => Runs(CORE1)

\* Which threads exist in each phase of the main thread.
Phases ==
  /\ running => /\ mpc \in Starting \cup Polling \cup {"stop"}
                /\ \A t \in Threads : pc[t] # "done"
  /\ mpc \in Starting => running
  /\ mpc \in {"create", "flag"} => mi < numActive
  /\ \A t \in Threads : Born(t) =>
       /\ mpc \notin {"start", "reboot", "exited"}
       /\ mpc \in {"check", "create"} => core[t] < mi
       /\ mpc = "flag" => core[t] <= mi
       /\ mpc = "join" => core[t] >= mi

\* The cores passed by the loop of corepool_start_threads, and then all active
\* ones, have a thread, or it could not be created, or is about to be.
Staffed ==
  /\ mpc \in Starting => \A c \in Cores : c < mi => c \in failed \/ Runs(c)
  /\ mpc \in Polling /\ running =>
       \A c \in Cores : c < numActive =>
         \/ c \in failed
         \/ Runs(c)
         \/ c = CORE1 /\ \E t \in Threads : pc[t] \in Launching

PoolInv == TypeOK /\ Tracked /\ LaunchAlone /\ Phases /\ Staffed

-----------------------------------------------------------------------------
(* Type correctness *)

\* A wake-up moves the sleeping threads only.
LEMMA RouseFacts ==
  \A p \in ThreadPCs :
    /\ Rouse(p) \in ThreadPCs
    /\ p \notin Asleep => Rouse(p) = p
    /\ p \in Asleep => Rouse(p) \in {"relock", "haltRelock"}
  BY DEF Rouse, ThreadPCs, Asleep, Launching, Gone

\* Program counters stay program counters when all sleepers are woken.
LEMMA SignalType ==
  ASSUME TypeOK, NEW P
  PROVE  /\ Broadcast(pc) \in [Threads -> ThreadPCs]
         /\ Signal(P, pc) \in [Threads -> ThreadPCs]
  BY RouseFacts DEF TypeOK, Broadcast, Signal

\* The steps of core_thread_fn outside the guest's instructions keep the types.
LEMMA ThreadType ==
  ASSUME TypeOK, NEW t \in Threads,
         \/ Top(t) \/ HaltedOrStopped(t) \/ HaltedSleep(t) \/ HaltedWoken(t)
         \/ WfiSleep(t) \/ WfiWoken(t) \/ Timeout(t)
  PROVE  TypeOK'
<1>0. {"top", "lock", "done", "haltLock", "haltSleep", "sleep"} \subseteq ThreadPCs
  BY DEF ThreadPCs, Asleep, Gone
<1>1. pc' \in [Threads -> ThreadPCs]
  BY <1>0, SignalType, RouseFacts
     DEF Top, HaltedOrStopped, HaltedSleep, HaltedWoken, WfiSleep, WfiWoken, Timeout, TypeOK
<1>2. CASE Top(t) \/ HaltedOrStopped(t) \/ HaltedSleep(t) \/ HaltedWoken(t) \/ Timeout(t)
  BY <1>1, <1>2, Zenon DEF Top, HaltedOrStopped, HaltedSleep, HaltedWoken, Timeout, TypeOK,
                    machine, pool, main
<1>3. CASE WfiSleep(t)
  <2>1. pend' \subseteq Cores
    BY <1>3, Zenon DEF WfiSleep, RaisedBy, TypeOK
  <2> QED
    BY <1>1, <1>3, <2>1 DEF WfiSleep, TypeOK, pool, main
<1>4. CASE WfiWoken(t)
  <2>1. pend' \subseteq Cores /\ wfi' \subseteq Cores
    BY <1>4 DEF WfiWoken, TypeOK
  <2> QED
    BY <1>1, <1>4, <2>1 DEF WfiWoken, TypeOK, pool, main
<1> QED
  BY <1>2, <1>3, <1>4

\* A burst of guest execution keeps the types.
LEMMA GuestType ==
  ASSUME TypeOK, NEW t \in Threads, Guest(t)
  PROVE  TypeOK'
<1>0. "top" \in ThreadPCs /\ "spawn" \in ThreadPCs
  BY DEF ThreadPCs, Launching
<1>1. pc' \in [Threads -> ThreadPCs]
  BY <1>0, SignalType DEF Guest, Instr, TakeIrq, Wfi, Sev, Halt, RequestReboot, ResetCore1,
                          Launch, TypeOK
<1>2. core[t] \in Cores
  BY DEF TypeOK
<1>3. wfi' \subseteq Cores /\ odd' \subseteq Cores /\ pend' \subseteq Cores /\ halted' \subseteq Cores
  BY <1>2, Zenon DEF Guest, Instr, TakeIrq, Wfi, Sev, Halt, RequestReboot, ResetCore1, Launch, TypeOK,
              Awake, Stepped
<1>4. psmOff' \in BOOLEAN /\ waiting' \in BOOLEAN /\ reboot' \in BOOLEAN
  <2>1. psmOff \in BOOLEAN /\ waiting \in BOOLEAN /\ reboot \in BOOLEAN
    BY DEF TypeOK
  <2> QED
    BY <2>1, Zenon DEF Guest, Instr, TakeIrq, Wfi, Sev, Halt, RequestReboot, ResetCore1, Launch
<1>5. lock' \in Threads \cup {Free} /\ numActive' \in {1, 2}
  BY DEF Guest, Instr, TakeIrq, Wfi, Sev, Halt, RequestReboot, ResetCore1, Launch, TypeOK, pool
<1>6. UNCHANGED <<running, handle, threadActive, failed, main, core>>
  BY DEF Guest, Instr, TakeIrq, Wfi, Sev, Halt, RequestReboot, ResetCore1, Launch, pool
<1> QED
  BY <1>1, <1>3, <1>4, <1>5, <1>6 DEF TypeOK, main

\* pthread_create keeps the types.
LEMMA CreateType ==
  ASSUME TypeOK, NEW c \in Cores, NEW ps \in [Threads -> ThreadPCs], Create(c, ps)
  PROVE  /\ pc' \in [Threads -> ThreadPCs]
         /\ core' \in [Threads -> Cores]
         /\ handle' \in [Cores -> Threads \cup {Free}]
<1>1. "top" \in ThreadPCs
  BY DEF ThreadPCs
<1> QED
  BY <1>1 DEF Create, TypeOK

\* The launch of Core 1 keeps the types.
LEMMA SpawnType ==
  ASSUME TypeOK, NEW t \in Threads, Spawn(t) \/ SpawnCreate(t) \/ SpawnFlag(t)
  PROVE  TypeOK'
<1>0. "top" \in ThreadPCs /\ "create" \in ThreadPCs /\ "flag" \in ThreadPCs
  BY DEF ThreadPCs, Launching
<1>1. CASE Spawn(t)
  BY <1>0, <1>1, SignalType DEF Spawn, LaunchDone, TypeOK, machine, main
<1>2. CASE SpawnCreate(t)
  <2>1. [pc EXCEPT ![t] = "flag"] \in [Threads -> ThreadPCs]
    BY <1>0 DEF TypeOK
  <2>2. CASE Create(CORE1, [pc EXCEPT ![t] = "flag"]) /\ UNCHANGED <<running, numActive, failed, lock>>
    <3>1. /\ pc' \in [Threads -> ThreadPCs] /\ core' \in [Threads -> Cores]
          /\ handle' \in [Cores -> Threads \cup {Free}]
      BY <2>1, <2>2, CreateType, Zenon
    <3> QED
      BY <1>2, <2>2, <3>1 DEF SpawnCreate, TypeOK, machine, main
  <2>3. CASE LaunchDone(t) /\ failed' = failed \cup {CORE1}
    BY <1>0, <1>2, <2>3, SignalType DEF SpawnCreate, LaunchDone, TypeOK, machine, main
  <2> QED
    BY <1>2, <2>2, <2>3 DEF SpawnCreate
<1>3. CASE SpawnFlag(t)
  BY <1>0, <1>3, SignalType DEF SpawnFlag, LaunchDone, TypeOK, machine, main
<1> QED
  BY <1>1, <1>2, <1>3

\* The main thread keeps the types, with its loop index below the core count.
LEMMA MainType ==
  ASSUME TypeOK, Phases, Main
  PROVE  TypeOK'
<1>1. CASE Start \/ StartCheck \/ Loop \/ Watch \/ Joined
  <2>1. CASE Start
    <3>1. mi' \in 0 .. 2 /\ mpc' \in MainPCs /\ failed' \subseteq Cores
      BY <2>1 DEF Start, MainPCs
    <3>3. running' \in BOOLEAN
      BY <2>1, Zenon DEF Start
    <3>2. {psmOff, waiting, reboot, rebooting, started}' \subseteq BOOLEAN
      BY <2>1, Zenon DEF Start, TypeOK, machine
    <3> QED
      BY <2>1, <3>1, <3>2, <3>3 DEF Start, TypeOK, machine
  <2>2. CASE StartCheck
    <3>1. running' \in BOOLEAN /\ mpc' \in MainPCs
      BY <2>2 DEF StartCheck, TypeOK, MainPCs
    <3> QED
      BY <2>2, <3>1 DEF StartCheck, TypeOK, machine
  <2>3. CASE Loop \/ Joined
    BY <2>3, Zenon DEF Loop, Joined, TypeOK, MainPCs, machine, pool
  <2>4. CASE Watch
    <3>1. mpc' \in MainPCs
      BY <2>4 DEF Watch, MainPCs
    <3> QED
      BY <2>4, <3>1 DEF Watch, TypeOK, machine, pool
  <2> QED
    BY <1>1, <2>1, <2>2, <2>3, <2>4
<1>2. CASE StartCreate
  <2>1. mi \in Cores /\ mi + 1 \in 0 .. 2
    BY <1>2 DEF StartCreate, Phases, TypeOK
  <2>2. CASE Create(mi, pc) /\ mpc' = "flag" /\ UNCHANGED <<threadActive, failed, mi>>
    <3>1. /\ pc' \in [Threads -> ThreadPCs] /\ core' \in [Threads -> Cores]
          /\ handle' \in [Cores -> Threads \cup {Free}]
      BY <2>1, <2>2, CreateType DEF TypeOK
    <3> QED
      BY <1>2, <2>2, <3>1 DEF StartCreate, TypeOK, machine, MainPCs
  <2>3. CASE /\ mpc' = "check" /\ mi' = mi + 1
             /\ threadActive' = threadActive \ {mi} /\ failed' = failed \cup {mi}
             /\ UNCHANGED <<handle, pc, core>>
    BY <1>2, <2>1, <2>3 DEF StartCreate, TypeOK, machine, MainPCs
  <2> QED
    BY <1>2, <2>2, <2>3 DEF StartCreate
<1>3. CASE StartFlag
  <2>1. mi \in Cores /\ mi + 1 \in 0 .. 2
    BY <1>3 DEF StartFlag, Phases, TypeOK
  <2> QED
    BY <1>3, <2>1 DEF StartFlag, TypeOK, MainPCs, machine
<1>4. CASE Poll
  <2>1. pc' \in [Threads -> ThreadPCs] /\ pend' \subseteq Cores
    BY <1>4, SignalType DEF Poll, TypeOK
  <2> QED
    BY <1>4, <2>1 DEF Poll, TypeOK, MainPCs, pool
<1>5. CASE Stop
  <2>1. pc' \in [Threads -> ThreadPCs]
    BY <1>5, SignalType DEF Stop
  <2>2. mi' \in 0 .. 2 /\ mpc' \in MainPCs
    BY <1>5 DEF Stop, MainPCs
  <2>3. running' \in BOOLEAN
    BY <1>5, Zenon DEF Stop
  <2> QED
    BY <1>5, <2>1, <2>2, <2>3 DEF Stop, TypeOK, machine
<1>6. CASE Join
  <2>1. mi + 1 \in 0 .. 2 /\ "unborn" \in ThreadPCs
    BY <1>6 DEF Join, TypeOK, ThreadPCs, Gone
  <2>2. pc' \in [Threads -> ThreadPCs] /\ threadActive' \subseteq Cores
    <3>1. CASE UNCHANGED <<threadActive, pc>>
      BY <3>1 DEF TypeOK
    <3>2. CASE /\ threadActive' = threadActive \ {mi}
               /\ pc' = [pc EXCEPT ![handle[mi]] = "unborn"]
      BY <2>1, <3>2, Zenon DEF TypeOK
    <3> QED
      BY <1>6, <3>1, <3>2 DEF Join
  <2> QED
    BY <1>6, <2>1, <2>2 DEF Join, TypeOK, machine
<1>7. CASE Reboot
  <2>1. reboots + 1 \in 0 .. MaxReboots
    BY <1>7 DEF Reboot, TypeOK
  <2> QED
    BY <1>7, <2>1, Zenon DEF Reboot, TypeOK, MainPCs, pool
<1> QED
  BY <1>1, <1>2, <1>3, <1>4, <1>5, <1>6, <1>7 DEF Main

\* The threads of a quiet step: none is born or joined, a launch goes nowhere,
\* and a thread returns only when the pool is stopping.
PcKept ==
  \A t \in Threads :
    /\ pc'[t] = "unborn" <=> pc[t] = "unborn"
    /\ pc[t] \in Launching \/ pc'[t] \in Launching => pc'[t] = pc[t]
    /\ pc'[t] = "done" => pc[t] = "done" \/ ~running

\* A quiet step keeps the invariant.
LEMMA KeptInv ==
  ASSUME PoolInv, TypeOK', PcKept, UNCHANGED <<pool, mpc, mi, core, lock>>
  PROVE  PoolInv'
<1>0. /\ running' = running /\ numActive' = numActive /\ handle' = handle
      /\ threadActive' = threadActive /\ failed' = failed
      /\ mpc' = mpc /\ mi' = mi /\ core' = core /\ lock' = lock
  BY DEF pool
<1>1. \A t \in Threads : Born(t)' <=> Born(t)
  BY DEF PcKept, Born
<1>2. \A c : Runs(c)' <=> Runs(c)
  BY <1>0, <1>1 DEF Runs
<1>3. \A t \in Threads : /\ pc'[t] \in Launching <=> pc[t] \in Launching
                         /\ pc[t] \in Launching => pc'[t] = pc[t]
  BY DEF PcKept
<1>4. \A t \in Threads : pc'[t] = "flag" <=> pc[t] = "flag"
  BY DEF PcKept, Launching
<1>5. Tracked'
  BY <1>0, <1>1, <1>2, <1>4 DEF PoolInv, Tracked
<1>6. LaunchAlone'
  BY <1>0, <1>2, <1>3 DEF PoolInv, LaunchAlone
<1>7. Phases'
  BY <1>0, <1>1 DEF PoolInv, Phases, PcKept
<1>8. Staffed'
  BY <1>0, <1>2, <1>3 DEF PoolInv, Staffed
<1> QED
  BY <1>5, <1>6, <1>7, <1>8 DEF PoolInv

\* A thread that is neither unborn nor launching moves; others may be woken.
LEMMA MoveKept ==
  ASSUME TypeOK, NEW t \in Threads, NEW P, NEW x,
         x \notin Launching \cup {"unborn"}, x = "done" => ~running,
         pc[t] \notin Launching \cup {"unborn"},
         pc' = [Signal(P, pc) EXCEPT ![t] = x] \/ pc' = [pc EXCEPT ![t] = x]
  PROVE  PcKept
<1>1. \A u \in Threads : pc[u] \in ThreadPCs
  BY DEF TypeOK
<1>2. \A u \in Threads : u # t => pc'[u] = pc[u] \/ pc'[u] = Rouse(pc[u])
  BY <1>1, Zenon DEF Signal, Broadcast, TypeOK
<1>3. pc'[t] = x
  BY DEF Signal, Broadcast, TypeOK
<1> QED
  BY <1>1, <1>2, <1>3, RouseFacts DEF PcKept, Asleep, Launching

\* Waking every sleeper is quiet.
LEMMA SignalKept ==
  ASSUME TypeOK, NEW P, pc' = Signal(P, pc) \/ pc' = Broadcast(pc) \/ pc' = pc
  PROVE  PcKept
<1>1. \A u \in Threads : pc[u] \in ThreadPCs
  BY DEF TypeOK
<1>2. \A u \in Threads : pc'[u] = pc[u] \/ pc'[u] = Rouse(pc[u])
  BY DEF Signal, Broadcast, TypeOK
<1> QED
  BY <1>1, <1>2, RouseFacts DEF PcKept, Asleep, Launching

\* The steps of core_thread_fn outside the guest's instructions are quiet.
LEMMA ThreadInv ==
  ASSUME PoolInv, NEW t \in Threads,
         \/ Top(t) \/ HaltedOrStopped(t) \/ HaltedSleep(t) \/ HaltedWoken(t)
         \/ WfiSleep(t) \/ WfiWoken(t) \/ Timeout(t)
  PROVE  PoolInv'
<1>0. TypeOK /\ TypeOK'
  BY ThreadType DEF PoolInv
<1>1. pc[t] \notin Launching \cup {"unborn"}
  BY DEF Top, HaltedOrStopped, HaltedSleep, HaltedWoken, WfiSleep, WfiWoken, Timeout,
         Launching, Asleep
<1>2. PICK x \in {"top", "lock", "done", "haltLock", "haltSleep", "sleep", "relock",
                  "haltRelock"} :
        /\ x = "done" => ~running
        /\ \/ \E P : pc' = [Signal(P, pc) EXCEPT ![t] = x]
           \/ pc' = [pc EXCEPT ![t] = x]
  <2>1. CASE Top(t) \/ HaltedOrStopped(t) \/ HaltedSleep(t) \/ HaltedWoken(t)
    BY <2>1 DEF Top, HaltedOrStopped, HaltedSleep, HaltedWoken
  <2>2. CASE WfiSleep(t) \/ WfiWoken(t)
    BY <2>2 DEF WfiSleep, WfiWoken
  <2>3. CASE Timeout(t)
    <3>1. Rouse(pc[t]) \in {"relock", "haltRelock"}
      BY <1>0, <2>3, RouseFacts DEF Timeout, TypeOK
    <3> QED
      BY <2>3, <3>1, Zenon DEF Timeout
  <2> QED
    BY <2>1, <2>2, <2>3
<1>3. PcKept
  BY <1>0, <1>1, <1>2, MoveKept DEF Launching
<1>4. UNCHANGED <<pool, mpc, mi, core, lock>>
  BY DEF Top, HaltedOrStopped, HaltedSleep, HaltedWoken, WfiSleep, WfiWoken, Timeout, main
<1> QED
  BY <1>0, <1>3, <1>4, KeptInv

\* A burst of guest execution that launches nothing is quiet.
LEMMA GuestInv ==
  ASSUME PoolInv, NEW t \in Threads,
         \/ Instr(t) \/ TakeIrq(t) \/ Wfi(t) \/ Sev(t) \/ Halt(t)
         \/ RequestReboot(t) \/ ResetCore1(t)
  PROVE  PoolInv'
<1>0. TypeOK /\ TypeOK'
  BY GuestType DEF PoolInv, Guest
<1>1. pc[t] = "lock"
  BY DEF Instr, TakeIrq, Wfi, Sev, Halt, RequestReboot, ResetCore1, Executes
<1>2. (\E P : pc' = [Signal(P, pc) EXCEPT ![t] = "top"]) \/ pc' = [pc EXCEPT ![t] = "top"]
  BY DEF Instr, TakeIrq, Wfi, Sev, Halt, RequestReboot, ResetCore1
<1>3. PcKept
  BY <1>0, <1>1, <1>2, MoveKept DEF Launching
<1>4. UNCHANGED <<pool, mpc, mi, core, lock>>
  BY DEF Instr, TakeIrq, Wfi, Sev, Halt, RequestReboot, ResetCore1, main
<1> QED
  BY <1>0, <1>3, <1>4, KeptInv

\* While the lock is free nobody launches, and only the launching thread does
\* when it is not.
LEMMA OneLauncher ==
  ASSUME PoolInv
  PROVE  /\ lock = Free => \A t \in Threads : pc[t] \notin Launching
         /\ \A t, u \in Threads : pc[t] \in Launching /\ pc[u] \in Launching => t = u
  BY DEF PoolInv, LaunchAlone

\* The launch of Core 1 finds the main thread past corepool_start_threads.
LEMMA LaunchInv ==
  ASSUME SlowBoot, PoolInv, NEW t \in Threads, Launch(t)
  PROVE  PoolInv'
<1>0. TypeOK /\ TypeOK'
  BY GuestType DEF PoolInv, Guest
<1>1. /\ pc[t] = "lock" /\ lock = Free /\ running /\ core[t] = CORE0 /\ numActive' = 2
      /\ mpc \notin Starting
      /\ UNCHANGED <<running, handle, threadActive, failed, mpc, mi, core>>
  BY DEF Launch, Executes, Starting, main
<1>2. mpc \in Polling \cup {"stop"}
  BY <1>1 DEF PoolInv, Phases
<1>3. CASE numActive = 2
  <2>1. lock' = lock /\ pc' = [Broadcast(pc) EXCEPT ![t] = "top"]
    BY <1>3 DEF Launch
  <2>2. pc' = [Signal({t}, pc) EXCEPT ![t] = "top"]
    BY <2>1, Zenon DEF Signal
  <2>3. PcKept
    <3>1. "top" \notin Launching \cup {"unborn"} /\ pc[t] \notin Launching \cup {"unborn"}
      BY <1>1 DEF Launching
    <3> QED
      BY <1>0, <2>2, <3>1, MoveKept, Zenon
  <2> QED
    BY <1>0, <1>1, <1>3, <2>1, <2>3, KeptInv DEF pool
<1>4. CASE numActive = 1
  <2>1. lock' = t /\ pc' = [pc EXCEPT ![t] = "spawn"]
    BY <1>4 DEF Launch
  <2>2. \A u \in Threads : u # t => pc'[u] = pc[u]
    BY <1>0, <2>1 DEF TypeOK
  <2>3. pc'[t] = "spawn"
    BY <1>0, <2>1 DEF TypeOK
  <2>4. \A u \in Threads : Born(u)' <=> Born(u)
    BY <1>1, <2>2, <2>3 DEF Born
  <2>5. \A c : Runs(c)' <=> Runs(c)
    BY <1>1, <2>4 DEF Runs
  <2>6. \A u \in Threads : pc[u] \notin Launching
    BY <1>1, OneLauncher
  <2>7. \A u \in Threads : pc[u] # "flag" /\ pc'[u] # "flag"
    BY <2>2, <2>3, <2>6 DEF Launching
  <2>8. Tracked'
    BY <1>1, <2>4, <2>5, <2>7 DEF PoolInv, Tracked
  <2>9. LaunchAlone'
    BY <1>1, <1>2, <2>1, <2>2, <2>3, <2>6, Zenon DEF LaunchAlone
  <2>10. Phases'
    <3>1. \A u \in Threads : pc'[u] # "done"
      BY <1>1, <2>2, <2>3 DEF PoolInv, Phases
    <3> QED
      BY <1>1, <1>2, <2>4, <3>1 DEF PoolInv, Phases, Polling
  <2>11. Staffed'
    <3>1. pc'[t] \in Launching
      BY <2>3 DEF Launching
    <3>2. mpc \in Polling => CORE0 \in failed \/ Runs(CORE0)
      BY <1>1, <1>4 DEF PoolInv, Staffed
    <3> QED
      BY <1>1, <2>5, <3>1, <3>2 DEF Staffed
  <2> QED
    BY <1>0, <2>8, <2>9, <2>10, <2>11 DEF PoolInv
<1> QED
  BY <1>0, <1>3, <1>4 DEF TypeOK

\* corepool_start_core_thread returns: Core 1 has its thread, or the pool is
\* stopping, or the thread could not be created.
LEMMA LaunchEnds ==
  ASSUME PoolInv, TypeOK', NEW t \in Threads, pc[t] \in Launching, LaunchDone(t),
         UNCHANGED <<mpc, mi>>, failed \subseteq failed',
         IF pc[t] = "flag" THEN threadActive' = threadActive \cup {CORE1}
                           ELSE threadActive' = threadActive,
         CORE1 \in threadActive' \/ ~running \/ CORE1 \in failed'
  PROVE  PoolInv'
<1>0. TypeOK
  BY DEF PoolInv
<1>1. /\ lock' = Free /\ pc' = [Broadcast(pc) EXCEPT ![t] = "top"]
      /\ UNCHANGED <<running, numActive, handle, core, mpc, mi>>
  BY DEF LaunchDone
<1>2. pc'[t] = "top" /\ \A u \in Threads : u # t => pc'[u] = Rouse(pc[u])
  BY <1>0, <1>1 DEF TypeOK, Broadcast
<1>3. \A u \in Threads : u # t => pc[u] \notin Launching
  BY OneLauncher
<1>4. \A u \in Threads : /\ pc'[u] \notin Launching
                         /\ pc'[u] = "unborn" <=> pc[u] = "unborn"
                         /\ pc'[u] = "done" <=> pc[u] = "done"
  BY <1>0, <1>2, <1>3, RouseFacts DEF TypeOK, Launching, Asleep
<1>5. \A u \in Threads : Born(u)' <=> Born(u)
  BY <1>4, Zenon DEF Born
<1>6. \A c : Runs(c)' <=> Runs(c)
  BY <1>1, <1>5 DEF Runs
<1>7. \A c \in Cores : c \in threadActive' => Runs(c)
  BY DEF PoolInv, Tracked, LaunchAlone
<1>8. Tracked'
  <2>1. ASSUME NEW u \in Threads, Born(u), core[u] = CORE1, NEW x \in Threads, pc[x] = "flag"
        PROVE  core[u] \in threadActive'
    BY <2>1, <1>3 DEF Launching
  <2>2. threadActive \subseteq threadActive'
    OBVIOUS
  <2>3. threadActive' \subseteq Cores
    BY DEF TypeOK
  <2>4. \A u \in Threads : Born(u) =>
          handle[core[u]] = u /\ (core[u] \in threadActive' \/ (mpc = "flag" /\ mi = core[u]))
    BY <2>1, <2>2 DEF PoolInv, Tracked
  <2>5. \A c \in threadActive' : Runs(c)
    BY <1>7, <2>3
  <2>6. mpc = "flag" => mi \in Cores /\ Runs(mi)
    BY DEF PoolInv, Tracked
  <2> QED
    BY <1>1, <1>5, <1>6, <2>4, <2>5, <2>6 DEF Tracked
<1>9. LaunchAlone'
  BY <1>4 DEF LaunchAlone
<1>10. Phases'
  BY <1>1, <1>4, <1>5, Zenon DEF PoolInv, Phases
<1>11. Staffed'
  <2>1. ~running \/ CORE1 \in failed' \/ Runs(CORE1)
    BY <1>7
  <2>2. mpc \notin Starting
    BY DEF PoolInv, LaunchAlone, Polling, Starting
  <2>3. mpc \in Polling /\ running => CORE0 \in failed' \/ Runs(CORE0)
    BY <1>0 DEF PoolInv, Staffed, TypeOK
  <2> QED
    BY <1>1, <1>6, <2>1, <2>2, <2>3 DEF Staffed
<1> QED
  BY <1>8, <1>9, <1>10, <1>11 DEF PoolInv

\* Thread u is new, runs core c, and nothing else has changed but ps.
NewThread(u, c, ps) ==
  /\ ~Born(u) /\ core'[u] = c /\ handle'[c] = u /\ pc'[u] = "top"
  /\ \A t \in Threads : t # u => pc'[t] = ps[t] /\ core'[t] = core[t]
  /\ \A d \in Cores : d # c => handle'[d] = handle[d]
  /\ \A t \in Threads : Born(t) => t # u /\ Born(t)' /\ handle'[core[t]] = handle[core[t]]
  /\ \A t \in Threads : Born(t)' => Born(t) \/ t = u
  /\ \A d \in Cores : d # c /\ Runs(d) => Runs(d)'
  /\ Runs(c)'

\* A new thread for core c, which has none.
LEMMA CreateFacts ==
  ASSUME PoolInv, NEW c \in Cores, NEW ps \in [Threads -> ThreadPCs],
         \A t \in Threads : ps[t] = "unborn" <=> pc[t] = "unborn",
         \A t \in Threads : Born(t) => core[t] # c,
         c \notin threadActive,
         Create(c, ps)
  PROVE  \E u \in Threads : NewThread(u, c, ps)
<1>0. pc \in [Threads -> ThreadPCs] /\ core \in [Threads -> Cores]
      /\ handle \in [Cores -> Threads \cup {Free}]
  BY DEF PoolInv, TypeOK
<1>1. PICK u \in Threads :
        /\ pc[u] = "unborn" /\ pc' = [ps EXCEPT ![u] = "top"]
        /\ core' = [core EXCEPT ![u] = c] /\ handle' = [handle EXCEPT ![c] = u]
  BY Zenon DEF Create
<1>2. /\ ~Born(u) /\ core'[u] = c /\ handle'[c] = u /\ pc'[u] = "top"
      /\ \A t \in Threads : t # u => pc'[t] = ps[t] /\ core'[t] = core[t]
      /\ \A d \in Cores : d # c => handle'[d] = handle[d]
  BY <1>0, <1>1 DEF Born
<1>3. \A t \in Threads : Born(t) => t # u /\ Born(t)' /\ handle'[core[t]] = handle[core[t]]
  BY <1>0, <1>2 DEF Born
<1>4. \A t \in Threads : Born(t)' => Born(t) \/ t = u
  BY <1>2 DEF Born
<1>5. Runs(c)'
  BY <1>2 DEF Runs, Born
<1>6. \A d \in Cores : d # c /\ Runs(d) => Runs(d)'
  BY <1>2, <1>3 DEF Runs
<1> QED
  BY <1>2, <1>3, <1>4, <1>5, <1>6 DEF NewThread

\* corepool_start_core_thread, from the test of thread_active to the flag.
LEMMA SpawnInv ==
  ASSUME PoolInv, NEW t \in Threads, Spawn(t) \/ SpawnCreate(t) \/ SpawnFlag(t)
  PROVE  PoolInv'
<1>0. TypeOK /\ TypeOK'
  BY SpawnType DEF PoolInv
<1>1. pc[t] \in Launching
  BY DEF Spawn, SpawnCreate, SpawnFlag, Launching
<1>2. /\ core[t] = CORE0 /\ lock = t /\ mpc \in Polling \cup {"stop", "join"}
      /\ \A u \in Threads : u # t => pc[u] \notin Launching
  BY <1>1, OneLauncher DEF PoolInv, LaunchAlone
<1>3. UNCHANGED <<mpc, mi>>
  BY DEF Spawn, SpawnCreate, SpawnFlag, main
<1>4. CASE Spawn(t)
  <2>1. pc[t] = "spawn" /\ UNCHANGED <<threadActive, failed>>
    BY <1>4 DEF Spawn
  <2>2. CASE CORE1 \in threadActive \/ ~running
    <3>1. LaunchDone(t)
      BY <1>4, <2>2 DEF Spawn
    <3> QED
      BY <1>0, <1>1, <1>3, <2>1, <2>2, <3>1, LaunchEnds
  <2>3. CASE CORE1 \notin threadActive /\ running
    <3>1. pc' = [pc EXCEPT ![t] = "create"] /\ UNCHANGED <<running, numActive, handle, lock, core>>
      BY <1>4, <2>3 DEF Spawn
    <3>2. pc'[t] = "create" /\ \A u \in Threads : u # t => pc'[u] = pc[u]
      BY <1>0, <3>1 DEF TypeOK
    <3>3. \A u \in Threads : Born(u)' <=> Born(u)
      BY <2>1, <3>2 DEF Born
    <3>4. \A c : Runs(c)' <=> Runs(c)
      BY <3>1, <3>3 DEF Runs
    <3>5. \A u \in Threads : pc[u] # "flag"
      BY <1>2, <2>1 DEF Launching
    <3>6. Tracked'
      BY <1>3, <2>1, <3>1, <3>3, <3>4, <3>5 DEF PoolInv, Tracked
    <3>7. LaunchAlone'
      BY <1>2, <1>3, <2>1, <2>3, <3>1, <3>2 DEF LaunchAlone
    <3>8. Phases'
      <4>1. \A u \in Threads : pc'[u] = "done" => pc[u] = "done"
        BY <3>2
      <4> QED
        BY <1>3, <3>1, <3>3, <4>1 DEF PoolInv, Phases
    <3>9. Staffed'
      <4>1. pc'[t] \in Launching
        BY <3>2 DEF Launching
      <4> QED
        BY <1>3, <2>1, <3>1, <3>4, <4>1 DEF PoolInv, Staffed
    <3> QED
      BY <1>0, <3>6, <3>7, <3>8, <3>9 DEF PoolInv
  <2> QED
    BY <2>2, <2>3
<1>5. CASE SpawnFlag(t)
  <2>1. pc[t] = "flag" /\ threadActive' = threadActive \cup {CORE1} /\ failed' = failed /\ LaunchDone(t)
    BY <1>5 DEF SpawnFlag
  <2> QED
    BY <1>0, <1>1, <1>3, <2>1, LaunchEnds
<1>6. CASE SpawnCreate(t)
  <2>1. pc[t] = "create" /\ threadActive' = threadActive
    BY <1>6 DEF SpawnCreate
  <2>2. CASE LaunchDone(t) /\ failed' = failed \cup {CORE1}
    BY <1>0, <1>1, <1>3, <2>1, <2>2, LaunchEnds
  <2>3. CASE Create(CORE1, [pc EXCEPT ![t] = "flag"]) /\ UNCHANGED <<running, numActive, failed, lock>>
    <3> DEFINE ps == [pc EXCEPT ![t] = "flag"]
    <3>1. CORE1 \notin threadActive
      BY <2>1 DEF PoolInv, LaunchAlone, Launching
    <3>2. \A u \in Threads : pc[u] # "flag"
      BY <1>2, <2>1 DEF Launching
    <3>3. \A u \in Threads : Born(u) => core[u] # CORE1
      BY <1>2, <3>1, <3>2 DEF PoolInv, Tracked, Polling
    <3>4. ps[t] = "flag" /\ \A u \in Threads : u # t => ps[u] = pc[u]
      BY <1>0 DEF TypeOK
    <3>5. ps \in [Threads -> ThreadPCs]
      BY <1>0 DEF TypeOK, ThreadPCs, Launching
    <3>6. \A u \in Threads : ps[u] = "unborn" <=> pc[u] = "unborn"
      BY <2>1, <3>4
    <3> HIDE DEF ps
    <3>7. PICK n \in Threads : NewThread(n, CORE1, ps)
      BY <2>3, <3>1, <3>3, <3>5, <3>6, CreateFacts, Zenon DEF ps
    <3> USE DEF NewThread
    <3>8. Born(t) /\ t # n /\ pc'[t] = "flag" /\ core'[t] = CORE0
      BY <1>2, <2>1, <3>4, <3>7, Zenon DEF Born
    <3>9. Tracked'
      <4>1. ASSUME NEW u \in Threads, Born(u)'
            PROVE  handle'[core'[u]] = u /\ (core'[u] \in threadActive \/ core'[u] = CORE1)
        <5>1. CASE u = n
          BY <3>7, <5>1
        <5>2. CASE u # n
          <6>1. Born(u) /\ core'[u] = core[u]
            BY <3>7, <4>1, <5>2
          <6>2. handle[core[u]] = u /\ core[u] \in threadActive
            BY <1>2, <3>2, <6>1, Zenon DEF PoolInv, Tracked, Polling
          <6> QED
            BY <3>7, <6>1, <6>2
        <5> QED
          BY <5>1, <5>2
      <4>2. \A c \in threadActive : Runs(c)'
        BY <1>0, <3>1, <3>7 DEF PoolInv, Tracked, TypeOK
      <4>3. mpc' # "flag"
        BY <1>2, <1>3, Zenon DEF Polling
      <4> QED
        BY <2>1, <3>8, <4>1, <4>2, <4>3 DEF Tracked
    <3>10. LaunchAlone'
      <4>1. \A u \in Threads : u # t => pc'[u] \notin Launching
        BY <1>2, <3>4, <3>7, Zenon DEF Launching
      <4> QED
        BY <1>2, <1>3, <2>3, <3>7, <3>8, <4>1, Zenon DEF LaunchAlone
    <3>11. Phases'
      <4>1. \A u \in Threads : pc'[u] = "done" => pc[u] = "done"
        BY <3>4, <3>7, <3>8, Zenon
      <4>2. mpc = "join" => mi = 0
        <5>1. mpc = "join" => core[t] >= mi
          BY <3>8, Zenon DEF PoolInv, Phases
        <5>2. mi \in 0..2
          BY <1>0, Zenon DEF TypeOK
        <5> QED
          BY <1>2, <5>1, <5>2
      <4>3. mpc = "join" => \A u \in Threads : core'[u] >= mi
        BY <1>0, <4>2 DEF TypeOK
      <4> QED
        BY <1>2, <1>3, <2>3, <4>1, <4>3 DEF PoolInv, Phases, Polling, Starting
    <3>12. Staffed'
      <4>1. mpc \in Polling /\ running => CORE0 \in failed \/ Runs(CORE0)
        <5>1. CORE0 \in Cores /\ CORE0 < numActive /\ CORE0 # CORE1
          BY <1>0 DEF TypeOK
        <5> QED
          BY <5>1, Zenon DEF PoolInv, Staffed
      <4> QED
        BY <1>2, <1>3, <2>3, <3>7, <4>1 DEF Staffed, Polling, Starting
    <3> QED
      BY <1>0, <3>9, <3>10, <3>11, <3>12 DEF PoolInv
  <2> QED
    BY <1>6, <2>2, <2>3 DEF SpawnCreate
<1> QED
  BY <1>4, <1>5, <1>6

\* The main thread's steps that touch no thread keep the invariant.
LEMMA MainQuietInv ==
  ASSUME PoolInv, Start \/ StartCheck \/ Loop \/ Poll \/ Watch \/ Stop \/ Joined \/ Reboot
  PROVE  PoolInv'
<1>0. TypeOK /\ TypeOK' /\ Tracked /\ LaunchAlone /\ Phases /\ Staffed
  BY MainType DEF PoolInv, Main
<1>1. UNCHANGED <<numActive, handle, threadActive, core, lock>>
  BY DEF Start, StartCheck, Loop, Poll, Watch, Stop, Joined, Reboot, pool
<1>2. PcKept
  <2>1. (\E P : pc' = Signal(P, pc)) \/ pc' = Broadcast(pc) \/ pc' = pc
    BY DEF Start, StartCheck, Loop, Poll, Watch, Stop, Joined, Reboot
  <2> QED
    BY <1>0, <2>1, SignalKept
<1>3. \A t \in Threads : Born(t)' <=> Born(t)
  BY <1>2 DEF PcKept, Born
<1>4. \A c : Runs(c)' <=> Runs(c)
  BY <1>1, <1>3 DEF Runs
<1>5. \A t \in Threads : /\ pc'[t] \in Launching <=> pc[t] \in Launching
                         /\ pc[t] \in Launching => pc'[t] = pc[t]
                         /\ pc'[t] = "flag" <=> pc[t] = "flag"
  BY <1>2 DEF PcKept, Launching
<1>6. mpc # "flag" /\ mpc' # "flag"
  BY DEF Start, StartCheck, Loop, Poll, Watch, Stop, Joined, Reboot
<1>7. Tracked'
  BY <1>0, <1>1, <1>3, <1>4, <1>5, <1>6, Zenon DEF Tracked
<1>8. CASE Start
  <2>1. mpc = "start" /\ mpc' = "check" /\ mi' = 0 /\ pc' = pc /\ running'
    BY <1>8 DEF Start
  <2>2. \A t \in Threads : ~Born(t) /\ ~Born(t)'
    BY <1>0, <1>3, <2>1 DEF Phases
  <2>3. LaunchAlone'
    BY <2>2 DEF LaunchAlone, Born, Launching
  <2>4. Phases'
    BY <2>1, <2>2 DEF Phases, Born, Starting
  <2>5. Staffed'
    BY <2>1 DEF Staffed, Polling
  <2> QED
    BY <1>0, <1>7, <2>3, <2>4, <2>5 DEF PoolInv
<1>9. CASE StartCheck
  <2>1. mpc = "check" /\ mi' = mi /\ pc' = pc /\ failed' = failed /\ running
    BY <1>0, <1>9, Zenon DEF StartCheck, Phases, Starting
  <2>2. \A t \in Threads : pc'[t] \notin Launching /\ pc'[t] # "done"
    BY <1>0, <2>1 DEF LaunchAlone, Polling, Phases
  <2>3. LaunchAlone'
    BY <2>2 DEF LaunchAlone
  <2>4. CASE mi < numActive
    <3>1. mpc' = "create" /\ running' = running
      BY <1>9, <2>4 DEF StartCheck
    <3>2. Phases'
      BY <1>0, <1>1, <1>3, <2>1, <2>2, <2>4, <3>1 DEF Phases, Starting
    <3>3. Staffed'
      BY <1>0, <1>4, <2>1, <3>1 DEF Staffed, Starting, Polling
    <3> QED
      BY <1>0, <1>7, <2>3, <3>2, <3>3 DEF PoolInv
  <2>5. CASE ~(mi < numActive)
    <3>1. mpc' = "loop"
      BY <1>9, <2>5 DEF StartCheck
    <3>2. Phases'
      BY <2>2, <3>1 DEF Phases, Starting, Polling
    <3>3. \A c \in Cores : c < numActive => c < mi
      BY <1>0, <2>5 DEF TypeOK
    <3>4. Staffed'
      BY <1>0, <1>1, <1>4, <2>1, <3>1, <3>3 DEF Staffed, Starting, Polling
    <3> QED
      BY <1>0, <1>7, <2>3, <3>2, <3>4 DEF PoolInv
  <2> QED
    BY <2>4, <2>5, Zenon
<1>10. CASE Loop \/ Poll \/ Watch
  <2>1. /\ mpc \in Polling /\ mpc' \in Polling \cup {"stop"} /\ mi' = mi
        /\ failed' = failed /\ running' = running
    BY <1>10, Zenon DEF Loop, Poll, Watch, Polling, pool
  <2>2. LaunchAlone'
    BY <1>0, <1>1, <1>4, <1>5, <2>1, Zenon DEF LaunchAlone
  <2>3. Phases'
    BY <1>0, <1>2, <1>3, <2>1 DEF Phases, PcKept, Polling, Starting
  <2>4. Staffed'
    BY <1>0, <1>1, <1>4, <1>5, <2>1 DEF Staffed, Polling, Starting
  <2> QED
    BY <1>0, <1>7, <2>2, <2>3, <2>4 DEF PoolInv
<1>11. CASE Stop
  <2>1. mpc = "stop" /\ mpc' = "join" /\ mi' = 0 /\ ~running'
    BY <1>11 DEF Stop
  <2>2. LaunchAlone'
    BY <1>0, <1>1, <1>4, <1>5, <2>1, Zenon DEF LaunchAlone
  <2>3. Phases'
    BY <1>0, <1>1, <2>1 DEF Phases, Starting, TypeOK
  <2>4. Staffed'
    BY <2>1 DEF Staffed, Polling, Starting
  <2> QED
    BY <1>0, <1>7, <2>2, <2>3, <2>4 DEF PoolInv
<1>12. CASE Joined \/ Reboot
  <2>1. /\ mpc \in {"join", "reboot"} /\ mpc' \in {"reboot", "exited", "start"}
        /\ pc' = pc /\ running' = running /\ (mpc = "join" => mi = 2)
    BY <1>12 DEF Joined, Reboot, pool
  <2>2. \A t \in Threads : ~Born(t)
    BY <1>0, <2>1 DEF Phases, TypeOK
  <2>3. LaunchAlone'
    BY <2>1, <2>2 DEF LaunchAlone, Born, Launching
  <2>4. ~running
    BY <1>0, <2>1 DEF Phases, Starting, Polling
  <2>5. Phases'
    BY <1>3, <2>1, <2>2, <2>4 DEF Phases, Starting
  <2>6. Staffed'
    BY <2>1 DEF Staffed, Polling, Starting
  <2> QED
    BY <1>0, <1>7, <2>3, <2>5, <2>6 DEF PoolInv
<1> QED
  BY <1>8, <1>9, <1>10, <1>11, <1>12

\* corepool_start_threads creates the threads of the active cores.
LEMMA MainCreateInv ==
  ASSUME PoolInv, StartCreate \/ StartFlag
  PROVE  PoolInv'
<1>0. TypeOK /\ TypeOK' /\ Tracked /\ LaunchAlone /\ Phases /\ Staffed
  BY MainType DEF PoolInv, Main
<1>1. mpc \in {"create", "flag"} /\ UNCHANGED <<running, numActive, lock>>
  BY DEF StartCreate, StartFlag
<1>2. \A t \in Threads : pc[t] \notin Launching /\ pc[t] # "done"
  BY <1>0, <1>1 DEF LaunchAlone, Phases, Polling, Starting
<1>3. mi \in Cores /\ running /\ mi < numActive
  BY <1>0, <1>1 DEF Phases, TypeOK, Starting
<1>4. \A t \in Threads : pc[t] # "flag"
  BY <1>2 DEF Launching
<1>5. CASE StartCreate
  <2>1. mpc = "create" /\ \A t \in Threads : Born(t) => core[t] < mi /\ core[t] # mi
    BY <1>0, <1>5 DEF StartCreate, Phases, TypeOK
  <2>2. mi \notin threadActive
    BY <1>0, <2>1 DEF Tracked, Runs
  <2>3. CASE Create(mi, pc) /\ mpc' = "flag" /\ UNCHANGED <<threadActive, failed, mi>>
    <3>1. PICK n \in Threads : NewThread(n, mi, pc)
      <4>1. pc \in [Threads -> ThreadPCs] /\ mi \in Cores
        BY <1>0, <1>3 DEF TypeOK
      <4>2. \A t \in Threads : Born(t) => core[t] # mi
        BY <2>1
      <4>3. \A t \in Threads : pc[t] = "unborn" <=> pc[t] = "unborn"
        OBVIOUS
      <4>4. mi \notin threadActive /\ Create(mi, pc)
        BY <2>2, <2>3, Zenon
      <4> QED
        BY <4>1, <4>2, <4>3, <4>4, CreateFacts
    <3> USE DEF NewThread
    <3>2. Tracked'
      <4>1. ASSUME NEW u \in Threads, Born(u)'
            PROVE  handle'[core'[u]] = u /\ (core'[u] \in threadActive \/ core'[u] = mi)
        <5>1. CASE u = n
          BY <3>1, <5>1, Zenon
        <5>2. CASE u # n
          <6>1. Born(u) /\ core'[u] = core[u]
            BY <3>1, <4>1, <5>2
          <6>2. handle[core[u]] = u /\ core[u] \in threadActive
            BY <1>0, <1>4, <2>1, <6>1, Zenon DEF Tracked
          <6> QED
            BY <3>1, <6>1, <6>2
        <5> QED
          BY <5>1, <5>2
      <4>2. \A c \in threadActive : Runs(c)'
        BY <1>0, <2>2, <3>1 DEF Tracked, TypeOK
      <4> QED
        BY <1>3, <2>3, <3>1, <4>1, <4>2 DEF Tracked
    <3>3. \A u \in Threads : pc'[u] \notin Launching /\ pc'[u] # "done"
      BY <1>2, <3>1, Zenon DEF Launching
    <3>4. LaunchAlone'
      BY <3>3, Zenon DEF LaunchAlone
    <3>5. \A u \in Threads : Born(u)' => core'[u] <= mi
      BY <1>0, <2>1, <3>1 DEF TypeOK
    <3>6. Phases'
      BY <1>1, <1>3, <2>3, <3>3, <3>5, Zenon DEF Phases, Starting
    <3>7. Staffed'
      BY <1>0, <2>1, <2>3, <3>1, Zenon DEF Staffed, Starting, Polling
    <3> QED
      BY <1>0, <3>2, <3>4, <3>6, <3>7 DEF PoolInv
  <2>4. CASE /\ mpc' = "check" /\ mi' = mi + 1
             /\ threadActive' = threadActive \ {mi} /\ failed' = failed \cup {mi}
             /\ UNCHANGED <<handle, pc, core>>
    <3>1. threadActive' = threadActive
      BY <2>2, <2>4
    <3>2. \A t \in Threads : Born(t)' <=> Born(t)
      BY <2>4 DEF Born
    <3>3. \A c : Runs(c)' <=> Runs(c)
      BY <2>4, <3>2, Zenon DEF Runs
    <3>4. Tracked'
      BY <1>0, <1>4, <2>1, <2>4, <3>1, <3>2, <3>3, Zenon DEF Tracked
    <3>5. LaunchAlone'
      BY <1>2, <2>4, Zenon DEF LaunchAlone
    <3>6. \A u \in Threads : Born(u) => core[u] < mi + 1
      BY <1>0, <2>1 DEF TypeOK
    <3>7. Phases'
      BY <1>1, <1>2, <1>3, <2>4, <3>2, <3>6 DEF Phases, Starting
    <3>8. \A c \in Cores : c < mi + 1 => c < mi \/ c = mi
      BY <1>3
    <3>9. Staffed'
      BY <1>0, <2>1, <2>4, <3>3, <3>8 DEF Staffed, Starting, Polling
    <3> QED
      BY <1>0, <3>4, <3>5, <3>7, <3>9 DEF PoolInv
  <2> QED
    BY <1>5, <2>3, <2>4, Zenon DEF StartCreate
<1>6. CASE StartFlag
  <2>1. /\ mpc = "flag" /\ mpc' = "check" /\ mi' = mi + 1
        /\ threadActive' = threadActive \cup {mi}
        /\ UNCHANGED <<handle, failed, pc, core>>
    BY <1>6 DEF StartFlag
  <2>2. \A t \in Threads : Born(t)' <=> Born(t)
    BY <2>1 DEF Born
  <2>3. \A c : Runs(c)' <=> Runs(c)
    BY <2>1, <2>2, Zenon DEF Runs
  <2>4. Runs(mi)
    BY <1>0, <2>1, Zenon DEF Tracked
  <2>5. Tracked'
    <3>1. \A t \in Threads : Born(t) => handle[core[t]] = t /\ core[t] \in threadActive'
      BY <1>0, <1>4, <2>1, Zenon DEF Tracked
    <3>2. \A c \in threadActive' : Runs(c)
      BY <1>0, <2>1, <2>4 DEF Tracked
    <3> QED
      BY <2>1, <2>2, <2>3, <3>1, <3>2 DEF Tracked
  <2>6. LaunchAlone'
    BY <1>2, <2>1, Zenon DEF LaunchAlone
  <2>7. \A u \in Threads : Born(u) => core[u] < mi + 1
    BY <1>0, <1>3, <2>1 DEF Phases, TypeOK
  <2>8. Phases'
    BY <1>1, <1>2, <1>3, <2>1, <2>2, <2>7 DEF Phases, Starting
  <2>9. \A c \in Cores : c < mi + 1 => c < mi \/ c = mi
    BY <1>3
  <2>10. Staffed'
    BY <1>0, <2>1, <2>3, <2>4, <2>9 DEF Staffed, Starting, Polling
  <2> QED
    BY <1>0, <2>5, <2>6, <2>8, <2>10 DEF PoolInv
<1> QED
  BY <1>5, <1>6

\* corepool_stop_threads joins every thread there is.
LEMMA JoinInv ==
  ASSUME PoolInv, Join
  PROVE  PoolInv'
<1>0. TypeOK /\ TypeOK' /\ Tracked /\ LaunchAlone /\ Phases /\ Staffed
  BY MainType, Zenon DEF PoolInv, Main
<1>1. /\ mpc = "join" /\ mpc' = "join" /\ mi \in Cores /\ mi' = mi + 1
      /\ UNCHANGED <<running, numActive, handle, failed, core, lock>>
  BY <1>0 DEF Join, TypeOK
<1>2. ~running
  BY <1>0, <1>1, Zenon DEF Phases, Starting, Polling
<1>3. \A t \in Threads : Born(t) => core[t] >= mi /\ core[t] \in Cores
  BY <1>0, <1>1 DEF Phases, TypeOK
<1>4. Staffed'
  BY <1>1 DEF Staffed, Starting, Polling
<1>5. CASE mi \notin threadActive /\ UNCHANGED <<threadActive, pc>>
  <2>1. \A t \in Threads : Born(t)' <=> Born(t)
    BY <1>5 DEF Born
  <2>2. \A c : Runs(c)' <=> Runs(c)
    BY <1>1, <2>1, Zenon DEF Runs
  <2>3. Tracked'
    BY <1>0, <1>1, <1>5, <2>1, <2>2 DEF Tracked
  <2>4. LaunchAlone'
    BY <1>0, <1>1, <1>5, <2>2 DEF LaunchAlone
  <2>5. \A t \in Threads : Born(t) => core[t] # mi
    <3> SUFFICES ASSUME NEW t \in Threads, Born(t), core[t] = mi PROVE FALSE
      OBVIOUS
    <3>1. PICK u \in Threads : core[t] = CORE1 /\ pc[u] = "flag"
      BY <1>0, <1>1, <1>5 DEF Tracked
    <3>2. core[u] = CORE0 /\ Born(u)
      BY <1>0, <3>1 DEF LaunchAlone, Launching, Born
    <3> QED
      BY <1>3, <3>1, <3>2
  <2>6. \A t \in Threads : Born(t) => core[t] >= mi + 1
    BY <1>1, <1>3, <2>5
  <2>7. Phases'
    BY <1>1, <1>2, <2>1, <2>6 DEF Phases, Starting
  <2> QED
    BY <1>0, <1>4, <2>3, <2>4, <2>7 DEF PoolInv
<1>6. CASE /\ mi \in threadActive /\ pc[handle[mi]] = "done"
           /\ threadActive' = threadActive \ {mi}
           /\ pc' = [pc EXCEPT ![handle[mi]] = "unborn"]
  <2>1. PICK h \in Threads : h = handle[mi] /\ core[h] = mi /\ pc[h] = "done"
    BY <1>0, <1>6 DEF Tracked, Runs
  <2>2. pc'[h] = "unborn" /\ \A t \in Threads : t # h => pc'[t] = pc[t]
    BY <1>0, <1>6, <2>1 DEF TypeOK
  <2>3. \A t \in Threads : Born(t)' <=> Born(t) /\ t # h
    BY <2>2 DEF Born
  <2>4. \A t \in Threads : Born(t) /\ t # h => core[t] # mi
    BY <1>0, <2>1, Zenon DEF Tracked
  <2>5. \A c \in Cores : c # mi /\ Runs(c) => Runs(c)'
    BY <1>1, <2>1, <2>3 DEF Runs
  <2>6. \A t \in Threads : pc'[t] \in Launching => pc[t] = pc'[t] /\ t # h
    BY <2>2 DEF Launching
  <2>7. \A t \in Threads : pc[t] = "flag" => pc'[t] = "flag"
    BY <2>1, <2>2
  <2>8. Tracked'
    <3>1. ASSUME NEW t \in Threads, Born(t)'
          PROVE  /\ handle[core[t]] = t
                 /\ \/ core[t] \in threadActive'
                    \/ core[t] = CORE1 /\ \E u \in Threads : pc'[u] = "flag"
      BY <1>0, <1>1, <1>6, <2>3, <2>4, <2>7, <3>1, Zenon DEF Tracked
    <3>2. \A c \in threadActive' : Runs(c)'
      BY <1>0, <1>6, <2>5 DEF Tracked, TypeOK
    <3> QED
      BY <1>1, <3>1, <3>2, Zenon DEF Tracked
  <2>9. LaunchAlone'
    <3> SUFFICES ASSUME NEW t \in Threads, pc'[t] \in Launching
                 PROVE  /\ core'[t] = CORE0 /\ lock' = t
                        /\ mpc' \in Polling \cup {"stop", "join"}
                        /\ pc'[t] = "create" => CORE1 \notin threadActive'
                        /\ pc'[t] = "flag" => Runs(CORE1)'
      BY DEF LaunchAlone
    <3>1. pc[t] \in Launching /\ pc[t] = pc'[t] /\ t # h
      BY <2>6
    <3>2. core[t] = CORE0 /\ lock = t
      BY <1>0, <3>1 DEF LaunchAlone
    <3>3. Born(t)
      BY <3>1 DEF Born, Launching
    <3>4. mi # CORE1
      BY <1>3, <3>2, <3>3
    <3>5. pc[t] = "flag" => Runs(CORE1)
      BY <1>0, <3>1 DEF LaunchAlone
    <3>6. pc[t] = "create" => CORE1 \notin threadActive
      BY <1>0, <3>1 DEF LaunchAlone
    <3> QED
      BY <1>1, <1>6, <2>5, <3>1, <3>2, <3>4, <3>5, <3>6
  <2>10. \A t \in Threads : Born(t)' => core[t] >= mi + 1
    BY <1>1, <1>3, <2>3, <2>4
  <2>11. Phases'
    BY <1>1, <1>2, <2>10 DEF Phases, Starting
  <2> QED
    BY <1>0, <1>4, <2>8, <2>9, <2>11, Zenon DEF PoolInv
<1> QED
  BY <1>5, <1>6 DEF Join

-----------------------------------------------------------------------------
(* The theorems *)

\* Before corepool_start_threads there is no thread.
LEMMA PoolInit == Init => PoolInv
<1> SUFFICES ASSUME Init PROVE PoolInv
  OBVIOUS
<1>1. \A t \in Threads : pc[t] = "unborn"
  BY DEF Init
<1>2. TypeOK
  <2>1. /\ pc \in [Threads -> ThreadPCs] /\ core \in [Threads -> Cores]
        /\ handle \in [Cores -> Threads \cup {Free}]
    BY DEF Init, ThreadPCs, Gone
  <2>2. running \in BOOLEAN /\ {psmOff, waiting, reboot, rebooting, started} \subseteq BOOLEAN
    BY Zenon DEF Init
  <2>3. mpc \in MainPCs /\ mi \in 0 .. 2 /\ reboots \in 0 .. MaxReboots /\ numActive \in {1, 2}
    BY DEF Init, MainPCs
  <2> QED
    BY <2>1, <2>2, <2>3 DEF Init, TypeOK
<1>3. Tracked /\ LaunchAlone
  BY <1>1 DEF Init, Tracked, LaunchAlone, Born, Launching
<1>4. Phases /\ Staffed
  BY <1>1 DEF Init, Phases, Staffed, Born, Starting, Polling
<1> QED
  BY <1>2, <1>3, <1>4 DEF PoolInv

\* Every step of the main thread and of the core threads keeps the invariant.
LEMMA PoolStep ==
  ASSUME SlowBoot
  PROVE  PoolInv /\ [Next]_vars => PoolInv'
<1> SUFFICES ASSUME PoolInv, [Next]_vars PROVE PoolInv'
  OBVIOUS
<1>1. CASE Main
  BY <1>1, MainQuietInv, MainCreateInv, JoinInv DEF Main
<1>2. CASE Exited \/ UNCHANGED vars
  <2>1. TypeOK'
    BY <1>2, Zenon DEF PoolInv, TypeOK, Exited, vars, machine, pool, main
  <2>2. PcKept /\ UNCHANGED <<pool, mpc, mi, core, lock>>
    BY <1>2 DEF Exited, vars, PcKept, main
  <2> QED
    BY <2>1, <2>2, KeptInv
<1>3. ASSUME NEW t \in Threads, CoreThread(t) \/ Timeout(t)
      PROVE  PoolInv'
  <2>1. CASE Guest(t)
    BY <2>1, GuestInv, LaunchInv DEF Guest
  <2>2. CASE Spawn(t) \/ SpawnCreate(t) \/ SpawnFlag(t)
    BY <2>2, SpawnInv
  <2> QED
    BY <1>3, <2>1, <2>2, ThreadInv DEF CoreThread
<1> QED
  BY <1>1, <1>2, <1>3 DEF Next

\* The pool's invariant holds along every behaviour.
LEMMA PoolInvariant ==
  ASSUME SlowBoot
  PROVE  Spec => []PoolInv
<1>1. PoolInv /\ [Next]_vars => PoolInv'
  BY PoolStep
<1> QED
  BY <1>1, PoolInit, PTL DEF Spec

\* With firmware that launches Core 1 after corepool_start_threads has returned,
\* no core is ever executed by two host threads, across any number of launches,
\* stops and reboots.
THEOREM OneThread ==
  ASSUME SlowBoot
  PROVE  Spec => []OneThreadPerCore
<1>1. PoolInv => OneThreadPerCore
  BY DEF PoolInv, Tracked, OneThreadPerCore, Live, Born, Gone
<1> QED
  BY <1>1, PoolInvariant, PTL

\* reboot_from_watchdog and corepool_cleanup run with every core thread joined.
THEOREM QuietAtReboot ==
  ASSUME SlowBoot
  PROVE  Spec => []QuietReboot
<1>1. PoolInv => QuietReboot
  BY DEF PoolInv, Phases, QuietReboot, Live, Born, Gone
<1> QED
  BY <1>1, PoolInvariant, PTL

\* No launch is forgotten between the two places that create threads, and the
\* handle that corepool_stop_threads joins is the thread that runs the core.
THEOREM LaunchesTracked ==
  ASSUME SlowBoot
  PROVE  Spec => []ThreadsTracked
<1>1. PoolInv => HandlesTrackThreads
  BY DEF PoolInv, Tracked, HandlesTrackThreads, Live, Born, Gone
<1>2. PoolInv => ActiveCoresHaveThreads
  <2> SUFFICES ASSUME PoolInv, mpc \in Polling, running, NEW c \in 0 .. (numActive - 1)
               PROVE  \/ c \in failed
                      \/ \E t \in Threads : Live(t) /\ core[t] = c
                      \/ \E t \in Threads : pc[t] \in Launching
    BY DEF ActiveCoresHaveThreads, Polling
  <2>1. c \in Cores /\ c < numActive
    BY DEF PoolInv, TypeOK
  <2>2. Runs(c) => \E t \in Threads : Live(t) /\ core[t] = c
    BY DEF PoolInv, Phases, Runs, Born, Live, Gone
  <2> QED
    BY <2>1, <2>2 DEF PoolInv, Staffed
<1>3. PoolInv => ThreadsTracked
  BY <1>1, <1>2 DEF ThreadsTracked
<1> QED
  BY <1>3, PoolInvariant, PTL
=============================================================================
