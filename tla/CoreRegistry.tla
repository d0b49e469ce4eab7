---------------------------- MODULE CoreRegistry ----------------------------
(***************************************************************************)
(* The registry file that emulator processes share to divide the host CPUs *)
(* (corepool.c, "Multi-Instance Registry").  A process that starts with    *)
(* -cores auto first queries the file, every process later registers, and  *)
(* unregisters when it ends.  Each of the three opens the file, locks it,  *)
(* reads the entries of live processes, and truncates and rewrites it.     *)
(* A process may be killed between any two of these steps.                 *)
(***************************************************************************)
EXTENDS Integers, FiniteSets

CONSTANTS
  Procs,          \* process identities (a pid is not reused)
  Free,           \* no process
  HostCpus,       \* corepool.host_cpus
  MaxInstances    \* COREPOOL_MAX_INSTANCES

ASSUME RegistryAssumption ==
  /\ Free \notin Procs
  /\ IsFiniteSet(Procs)
  /\ HostCpus \in Nat /\ MaxInstances \in Nat

MAX_CORES == 2

VARIABLES
  exists,       \* the file has been created
  file,         \* cores listed for each process, 0 if it has no entry
  holder,       \* the process that holds the flock, or Free
  phase,        \* how far each process is
  at,           \* its place inside a registry operation
  snap,         \* the entries it has read; none between operations
  cores,        \* its num_active_cores
  registered,   \* the processes with corepool.registered
  mishap        \* history: an entry may have been lost in one of the three
                \* ways the code knows nothing of (Clobber, Torn, Full)

registryVars == <<exists, file, holder, phase, at, snap, cores, registered, mishap>>

Entries == [Procs -> 0..MAX_CORES]
NoEntries == [p \in Procs |-> 0]
Phases == {"init", "loaded", "up", "unlisted", "leaving", "dead"}
Places == {"none", "open", "create", "flock", "read", "trunc", "write"}

RegistryTypeOK ==
  /\ exists \in BOOLEAN
  /\ file \in Entries
  /\ holder \in Procs \cup {Free}
  /\ phase \in [Procs -> Phases]
  /\ at \in [Procs -> Places]
  /\ snap \in [Procs -> Entries]
  /\ cores \in [Procs -> 1..MAX_CORES]
  /\ registered \subseteq Procs
  /\ mishap \in BOOLEAN

\* The file may be there from an earlier run, with entries of dead processes
\* only, or not yet.
RegistryInit ==
  /\ exists \in BOOLEAN
  /\ file = NoEntries
  /\ holder = Free
  /\ phase = [p \in Procs |-> "init"]
  /\ at = [p \in Procs |-> "none"]
  /\ snap = [p \in Procs |-> NoEntries]
  /\ cores = [p \in Procs |-> 1]
  /\ registered = {}
  /\ mishap = FALSE

\* is_pid_alive
Alive(p) == phase[p] # "dead"

Listed(f) == {p \in Procs : f[p] # 0}

-----------------------------------------------------------------------------
(***************************************************************************)
(* The steps the three operations share.                                   *)
(***************************************************************************)

\* main calls corepool_query_cores, corepool_register or, through
\* corepool_cleanup, corepool_unregister, which returns if not registered.
Begin(p) ==
  /\ at[p] = "none"
  /\ \/ phase[p] \in {"init", "loaded"}
     \/ phase[p] = "up" /\ p \in registered
  /\ at' = [at EXCEPT ![p] = "open"]
  /\ UNCHANGED <<exists, file, holder, phase, snap, cores, registered, mishap>>

\* fopen "r+"
Open(p) ==
  /\ at[p] = "open"
  /\ at' = [at EXCEPT ![p] = IF exists THEN "flock" ELSE "create"]
  /\ UNCHANGED <<exists, file, holder, phase, snap, cores, registered, mishap>>

\* fopen "w+" creates the file, or truncates it if it has come to exist.
Clobber == exists
OpenCreate(p) ==
  /\ at[p] = "create"
  /\ exists' = TRUE /\ file' = NoEntries
  /\ at' = [at EXCEPT ![p] = "flock"]
  /\ mishap' = (mishap \/ Clobber)
  /\ UNCHANGED <<holder, phase, snap, cores, registered>>

\* Variant: no flock.
Unlocked(p) ==
  /\ at[p] = "flock"
  /\ at' = [at EXCEPT ![p] = "read"]
  /\ UNCHANGED <<exists, file, holder, phase, snap, cores, registered, mishap>>

\* flock LOCK_EX blocks while another process holds it.
Flock(p) ==
  /\ at[p] = "flock" /\ holder = Free
  /\ holder' = p
  /\ at' = [at EXCEPT ![p] = "read"]
  /\ UNCHANGED <<exists, file, phase, snap, cores, registered, mishap>>

\* registry_read_file drops the entries of dead processes.
ReadFile(p) ==
  /\ at[p] = "read"
  /\ snap' = [snap EXCEPT ![p] =
                [q \in Procs |-> IF Alive(q) THEN file[q] ELSE 0]]
  /\ at' = [at EXCEPT ![p] = "trunc"]
  /\ UNCHANGED <<exists, file, holder, phase, cores, registered, mishap>>

\* registry_write_file: ftruncate, and then the one write of fflush.
Truncate(p) ==
  /\ at[p] = "trunc"
  /\ file' = NoEntries
  /\ at' = [at EXCEPT ![p] = "write"]
  /\ UNCHANGED <<exists, holder, phase, snap, cores, registered, mishap>>

\* Variant: the file is not unlocked and closed.
RewriteUnclosed(p, f) ==
  /\ at[p] = "write"
  /\ file' = f
  /\ at' = [at EXCEPT ![p] = "none"]
  /\ snap' = [snap EXCEPT ![p] = NoEntries]
  /\ UNCHANGED <<exists, holder>>

\* registry_write_file and registry_close_locked with entries f.
Rewrite(p, f) ==
  /\ at[p] = "write"
  /\ file' = f /\ holder' = Free
  /\ at' = [at EXCEPT ![p] = "none"]
  /\ snap' = [snap EXCEPT ![p] = NoEntries]
  /\ UNCHANGED exists

\* registry_open_locked returns NULL: fopen or flock fails, or the path is a
\* symbolic link.
OpenFailed(p) ==
  /\ at[p] \in {"open", "create", "flock"}
  /\ at' = [at EXCEPT ![p] = "none"]
  /\ UNCHANGED <<exists, file, holder, snap>>

-----------------------------------------------------------------------------
(***************************************************************************)
(* The operations.                                                         *)
(***************************************************************************)

\* -cores 1 or -cores 2: no query.
Explicit(p) ==
  /\ phase[p] = "init" /\ at[p] = "none"
  /\ phase' = [phase EXCEPT ![p] = "loaded"]
  /\ \E n \in 1..MAX_CORES : cores' = [cores EXCEPT ![p] = n]
  /\ UNCHANGED <<exists, file, holder, at, snap, registered, mishap>>

\* total_allocated: the cores of the listed processes, counted.
Allocated(f) == {qi \in Procs \X (1..MAX_CORES) : qi[2] <= f[qi[1]]}
Total(f) == Cardinality(Allocated(f))

\* At least one core, at most MAX_CORES, else what the others leave.
Available(f) ==
  LET available == HostCpus - Total(f) IN
  IF available >= MAX_CORES THEN MAX_CORES
  ELSE IF available >= 1 THEN available ELSE 1

Query(p) ==
  /\ phase[p] = "init"
  /\ phase' = [phase EXCEPT ![p] = "loaded"]
  /\ \/ Rewrite(p, snap[p]) /\ cores' = [cores EXCEPT ![p] = Available(snap[p])]
     \/ OpenFailed(p) /\ cores' = [cores EXCEPT ![p] = 1]
  /\ UNCHANGED <<registered, mishap>>

\* corepool_register: the own entry goes, and comes back if there is room.
Full(p) == Cardinality(Listed(snap[p]) \ {p}) >= MaxInstances
WithEntry(p) ==
  [snap[p] EXCEPT ![p] = IF Full(p) THEN 0 ELSE cores[p]]

Register(p) ==
  /\ phase[p] = "loaded"
  /\ phase' = [phase EXCEPT ![p] = "up"]
  /\ \/ /\ Rewrite(p, WithEntry(p)) /\ registered' = registered \cup {p}
        /\ mishap' = (mishap \/ Full(p))
     \/ OpenFailed(p) /\ UNCHANGED <<registered, mishap>>
  /\ UNCHANGED cores

Unregister(p) ==
  /\ phase[p] = "up"
  /\ \/ /\ Rewrite(p, [snap[p] EXCEPT ![p] = 0])
        /\ phase' = [phase EXCEPT ![p] = "unlisted"]
     \/ /\ OpenFailed(p)
        /\ phase' = [phase EXCEPT ![p] = "leaving"]
  /\ registered' = registered \ {p}
  /\ UNCHANGED <<cores, mishap>>

\* The process ends, at the end of main or by a signal, which may come
\* between ftruncate and the write; the kernel drops its lock.
Torn(p) == at[p] = "write"
Die(p) ==
  /\ phase[p] \notin {"unlisted", "dead"}
  /\ phase' = [phase EXCEPT ![p] = "dead"]
  /\ at' = [at EXCEPT ![p] = "none"]
  /\ holder' = IF holder = p THEN Free ELSE holder
  /\ registered' = registered \ {p}
  /\ snap' = [snap EXCEPT ![p] = NoEntries]
  /\ mishap' = (mishap \/ Torn(p))
  /\ UNCHANGED <<exists, file, cores>>

RegistryStep(p) ==
  \/ Begin(p) \/ Open(p) \/ OpenCreate(p) \/ Flock(p)
  \/ ReadFile(p) \/ Truncate(p)
  \/ Query(p) \/ Register(p) \/ Unregister(p)

RegistryNext == \E p \in Procs : RegistryStep(p) \/ Explicit(p) \/ Die(p)

RegistrySpec == RegistryInit /\ [][RegistryNext]_registryVars

\* A process inside an operation goes on: fopen, fscanf and fflush return, and
\* flock does once nobody holds the lock any more.
Proceeds(p) ==
  /\ at[p] # "none"
  /\ at[p] = "flock" => holder = Free
  /\ RegistryStep(p)

FairRegistrySpec == RegistrySpec /\ \A p \in Procs : WF_registryVars(Proceeds(p))

-----------------------------------------------------------------------------
(***************************************************************************)
(* Properties.                                                             *)
(***************************************************************************)

\* Between two operations the file is what the last writer left.
Settled == \A p \in Procs : at[p] # "write"

\* A registered process stays listed with its cores, whatever the others do,
\* unless one of the three mishaps has occurred: a process that did not find
\* the file truncated the one another had created meanwhile, a process was
\* killed inside registry_write_file, or the registry was full.
NobodyForgotten ==
  ~mishap /\ Settled => \A p \in registered : file[p] = cores[p]

\* corepool.c:101: "File-locked (flock) during read/write for process
\* safety."  The entries change only while somebody holds the flock.
ChangedLocked == [][file' # file => holder # Free]_registryVars

\* An entry is never attributed to a process that has not registered, has
\* another core count, or has unregistered: no operation brings a removed
\* entry back.
NoGhosts ==
  \A p \in Procs : file[p] # 0 =>
     file[p] = cores[p] /\ phase[p] \in {"up", "leaving", "dead"}

\* The file never lists more processes than a reader has room for.
Capacity == Cardinality(Listed(file)) <= MaxInstances

\* Every started operation ends, or its process dies.
OperationsEnd == \A p \in Procs : at[p] # "none" ~> at[p] = "none"
=============================================================================
