----------------------------- MODULE MCTogether -----------------------------
(***************************************************************************)
(* What the processes, the cores and the firmware of several emulators do  *)
(* together, for TLC: the registry file (CoreRegistry), the launch of Core *)
(* 1 over the mailboxes (Core1Launch) and the lock loops (Locks).  They    *)
(* share no state, so a behaviour exercises one of the three: focus names  *)
(* it, and the variables of the others keep their initial values.          *)
(***************************************************************************)
EXTENDS CoreRegistry, Core1Launch, Locks

VARIABLE focus      \* which of the three

tVars == <<focus, registryVars, allVars, lockVars>>

TInit ==
    /\ RegistryInit /\ LInit /\ LocksInit
    /\ focus \in {"registry", "launch", "locks"}
    /\ focus # "registry" => exists
    /\ focus # "locks" => kind = "sio"

InRegistry(A) == focus = "registry" /\ A /\ UNCHANGED <<focus, allVars, lockVars>>
InLaunch(A) == focus = "launch" /\ A /\ UNCHANGED <<focus, registryVars, lockVars>>
InLocks(A) == focus = "locks" /\ A /\ UNCHANGED <<focus, registryVars, allVars>>

TNext == InRegistry(RegistryNext) \/ InLaunch(LNext) \/ InLocks(LocksNext)

\* The fairness of FairRegistrySpec, FairLSpec and LiveLocksSpec.
TSpec ==
    /\ TInit /\ [][TNext]_tVars
    /\ \A p \in Procs : WF_tVars(InRegistry(Proceeds(p)))
    /\ WF_tVars(InLaunch(Core0))
    /\ \A c \in Lockers : WF_tVars(InLocks(LockStep(c)))

-----------------------------------------------------------------------------
\* A launch that has begun ends with Core 1 running and Core 0 past the
\* handshake, whatever is still in the mailboxes from before: LaunchCompletes of
\* the behaviours that launch.
LaunchesComplete ==
    focus = "launch" /\ place = "reset" ~> place = "launched" /\ ~halted1

\* The lock loops never livelock: some core takes the lock again and again
\* (arm_excl_store fails only when another core's store succeeded).
LocksKeepBeingTaken == []<>(focus = "locks" => \E c \in Lockers : pc[c] = "held")
=============================================================================
