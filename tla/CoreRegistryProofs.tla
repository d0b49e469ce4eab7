------------------------- MODULE CoreRegistryProofs -------------------------
(***************************************************************************)
(* The flock discipline of the registry, for any set of processes.         *)
(*                                                                         *)
(* Killed processes, failing opens and a file that is created under way    *)
(* are included.                                                           *)
(***************************************************************************)
EXTENDS CoreRegistry, FiniteSetTheorems, TLAPS

USE DEF MAX_CORES

\* Inside the flock, and about to rewrite.
Critical == {"read", "trunc", "write"}
Holding == {"trunc", "write"}
Entered == {"up", "leaving", "dead"}

\* The processes inside the locked region hold the lock, so there is one.
LockInv == \A p \in Procs : at[p] \in Critical => holder = p

\* Only processes that are starting or up are inside an operation, and only
\* processes that are up are registered.
PhaseInv ==
  /\ \A p \in Procs : at[p] # "none" => phase[p] \in {"init", "loaded", "up"}
  /\ \A p \in registered : phase[p] = "up"

\* Entries f that are true of the processes they name.
Truthful(f) == \A q \in Procs : f[q] # 0 => f[q] = cores[q] /\ phase[q] \in Entered

\* What is about to be written is true as well.
SnapInv == \A p \in Procs : at[p] \in Holding => Truthful(snap[p])

GhostInv == RegistryTypeOK /\ LockInv /\ PhaseInv /\ SnapInv /\ NoGhosts

LEMMA AvailableRange ==
  ASSUME NEW f \in Entries
  PROVE  Available(f) \in 1..2
<1>1. IsFiniteSet(1..2)
  <2>1. 1 \in Int /\ 2 \in Int
    OBVIOUS
  <2> QED BY ONLY <2>1, FS_Interval, Zenon
<1>2. IsFiniteSet(Procs \X (1..2))
  BY <1>1, FS_Product, RegistryAssumption
<1>3. IsFiniteSet(Allocated(f))
  BY <1>2, FS_Subset DEF Allocated
<1>4. Total(f) \in Nat
  BY <1>3, FS_CardinalityType DEF Total
<1> QED BY <1>4, RegistryAssumption DEF Available

LEMMA WithEntryRange ==
  ASSUME RegistryTypeOK, NEW p \in Procs
  PROVE  /\ WithEntry(p) \in Entries
         /\ \A q \in Procs \ {p} : WithEntry(p)[q] = snap[p][q]
         /\ WithEntry(p)[p] \in {0, cores[p]}
         /\ ~Full(p) => WithEntry(p)[p] = cores[p]
BY DEF WithEntry, RegistryTypeOK, Entries

LEMMA TypeStep ==
  ASSUME RegistryTypeOK, [RegistryNext]_registryVars
  PROVE  RegistryTypeOK'
<1> USE DEF RegistryTypeOK
<1>1. CASE UNCHANGED registryVars
  BY <1>1 DEF registryVars
<1>2. ASSUME NEW p \in Procs, RegistryStep(p) \/ Explicit(p) \/ Die(p)
      PROVE  RegistryTypeOK'
  <2>1. NoEntries \in Entries
    BY DEF NoEntries, Entries
  <2>2. CASE Begin(p) \/ Open(p) \/ Flock(p)
    BY <2>2 DEF Begin, Open, Flock, Places
  <2>10. CASE Die(p)
    BY <2>1, <2>10 DEF Die, Places, Phases
  <2>3. CASE OpenCreate(p) \/ Truncate(p)
    BY <2>1, <2>3, Zenon DEF OpenCreate, Truncate, Places
  <2>4. CASE Explicit(p)
    BY <2>4 DEF Explicit, Phases
  <2>5. CASE ReadFile(p)
    <3>1. [q \in Procs |-> IF Alive(q) THEN file[q] ELSE 0] \in Entries
      BY DEF Entries
    <3> QED BY <2>5, <3>1 DEF ReadFile, Places
  <2>6. CASE Query(p)
    BY <2>1, <2>6, AvailableRange DEF Query, Rewrite, OpenFailed, Places, Phases
  <2>7. CASE Register(p)
    <3>1. WithEntry(p) \in Entries
      BY WithEntryRange
    <3>2. /\ phase' \in [Procs -> Phases] /\ cores' \in [Procs -> 1..MAX_CORES]
          /\ registered' \subseteq Procs /\ mishap' \in BOOLEAN
      <4>1. mishap' \in BOOLEAN
        BY <2>7, Zenon DEF Register
      <4> QED BY <2>7, <4>1 DEF Register, Phases
    <3>3. CASE Rewrite(p, WithEntry(p))
      BY <2>1, <3>1, <3>2, <3>3 DEF Rewrite, Places
    <3>4. CASE OpenFailed(p)
      BY <3>2, <3>4 DEF OpenFailed, Places
    <3> QED BY <2>7, <3>3, <3>4 DEF Register
  <2>8. CASE Unregister(p)
    <3>1. [snap[p] EXCEPT ![p] = 0] \in Entries
      BY DEF Entries
    <3> QED BY <2>1, <2>8, <3>1 DEF Unregister, Rewrite, OpenFailed, Places, Phases
  <2> QED BY <1>2, <2>2, <2>3, <2>4, <2>5, <2>6, <2>7, <2>8, <2>10 DEF RegistryStep
<1> QED BY <1>1, <1>2 DEF RegistryNext

LEMMA InitLemma == RegistryInit => GhostInv
<1> SUFFICES ASSUME RegistryInit PROVE GhostInv
  OBVIOUS
<1>1. NoEntries \in Entries
  BY DEF NoEntries, Entries
<1>2. mishap \in BOOLEAN /\ exists \in BOOLEAN
  BY Zenon DEF RegistryInit
<1>3. RegistryTypeOK
  BY <1>1, <1>2 DEF RegistryInit, RegistryTypeOK, Phases, Places
<1>4. LockInv /\ PhaseInv /\ SnapInv /\ NoGhosts
  BY DEF RegistryInit, LockInv, PhaseInv, SnapInv, NoGhosts, NoEntries, Critical, Holding
<1> QED BY <1>3, <1>4 DEF GhostInv

LEMMA GhostStep ==
  ASSUME GhostInv, [RegistryNext]_registryVars
  PROVE  GhostInv'
<1> USE DEF GhostInv
<1>1. RegistryTypeOK'
  BY TypeStep
<1>2. CASE UNCHANGED registryVars
  BY <1>2 DEF registryVars, RegistryTypeOK, LockInv, PhaseInv, SnapInv, NoGhosts, Truthful
<1>3. ASSUME NEW p \in Procs, RegistryStep(p) \/ Explicit(p) \/ Die(p)
      PROVE  GhostInv'
  <2> USE DEF RegistryTypeOK, Critical, Holding
  <2>0. \A q \in Procs : q # Free
    BY RegistryAssumption
  <2>1. CASE Begin(p) \/ Open(p)
    BY <1>1, <2>1 DEF Begin, Open, LockInv, PhaseInv, SnapInv, NoGhosts, Truthful
  <2>2. CASE Flock(p)
    BY <1>1, <2>0, <2>2 DEF Flock, LockInv, PhaseInv, SnapInv, NoGhosts, Truthful
  <2>3. CASE OpenCreate(p) \/ Truncate(p)
    BY <1>1, <2>3 DEF OpenCreate, Truncate, NoEntries, LockInv, PhaseInv, SnapInv,
       NoGhosts, Truthful
  <2>4. CASE ReadFile(p)
    <3>1. Truthful(snap'[p])
      BY <2>4 DEF ReadFile, Truthful, NoGhosts, Entered
    <3> QED BY <1>1, <2>4, <3>1
            DEF ReadFile, LockInv, PhaseInv, SnapInv, NoGhosts, Truthful
  <2>5. CASE Explicit(p)
    BY <1>1, <2>5
    DEF Explicit, LockInv, PhaseInv, SnapInv, NoGhosts, Truthful, Entered
  <2>6. CASE Die(p)
    BY <1>1, <2>6 DEF Die, LockInv, PhaseInv, SnapInv, NoGhosts, Truthful, Entered
  <2>7. CASE Query(p)
    BY <1>1, <2>7 DEF Query, Rewrite, OpenFailed, LockInv, PhaseInv, SnapInv,
       NoGhosts, Truthful, Entered
  <2>8. CASE Register(p)
    BY <1>1, <2>8, WithEntryRange DEF Register, Rewrite, OpenFailed, LockInv,
       PhaseInv, SnapInv, NoGhosts, Truthful, Entered
  <2>9. CASE Unregister(p)
    <3>1. CASE OpenFailed(p)
      BY <1>1, <2>9, <3>1 DEF Unregister, Rewrite, OpenFailed, LockInv, PhaseInv,
         SnapInv, NoGhosts, Truthful, Entered
    <3>2. CASE Rewrite(p, [snap[p] EXCEPT ![p] = 0])
      <4>1. at[p] = "write" /\ phase[p] = "up" /\ holder = p
        BY <2>9, <3>2 DEF Unregister, Rewrite, LockInv
      <4>2. \A q \in Procs : at'[q] \in Critical => FALSE
        BY <3>2, <4>1 DEF Rewrite, LockInv
      <4>3. /\ phase' = [phase EXCEPT ![p] = "unlisted"]
            /\ cores' = cores /\ registered' = registered \ {p}
        BY <2>9, <3>2, <4>1 DEF Unregister, Rewrite, OpenFailed
      <4>4. NoGhosts'
        <5> SUFFICES ASSUME NEW q \in Procs, file'[q] # 0
                     PROVE  file'[q] = cores'[q] /\ phase'[q] \in Entered
          BY DEF NoGhosts, Entered
        <5>1. q # p /\ file'[q] = snap[p][q]
          BY <3>2 DEF Rewrite, Entries
        <5> QED BY <4>1, <4>3, <5>1 DEF SnapInv, Truthful
      <4>5. PhaseInv'
        BY <3>2, <4>1, <4>3 DEF PhaseInv, Rewrite
      <4> QED BY <1>1, <4>2, <4>4, <4>5 DEF LockInv, SnapInv
    <3> QED BY <2>9, <3>1, <3>2 DEF Unregister
  <2> QED BY <1>3, <2>1, <2>2, <2>3, <2>4, <2>5, <2>6, <2>7, <2>8, <2>9 DEF RegistryStep
<1> QED BY <1>2, <1>3 DEF RegistryNext

\* An entry of the registry file always belongs to a process that registered
\* with that number of cores and has not unregistered: no interleaving of
\* corepool_query_cores, corepool_register and corepool_unregister, with
\* processes killed anywhere, brings a removed entry back.
THEOREM EntriesTrue == RegistrySpec => []NoGhosts
<1>1. RegistrySpec => []GhostInv
  BY InitLemma, GhostStep, PTL DEF RegistrySpec
<1>2. GhostInv => NoGhosts
  BY DEF GhostInv
<1> QED BY <1>1, <1>2, PTL

-----------------------------------------------------------------------------
\* As long as the file does not exist, nobody is past opening it.
CreateInv ==
  ~exists => registered = {} /\ \A p \in Procs : at[p] \in {"none", "open", "create"}

\* Without a mishap a registered process is in the file, or in what is about
\* to be written.
ListInv ==
  ~mishap => /\ Settled => \A p \in registered : file[p] = cores[p]
             /\ \A p \in Procs : at[p] \in Holding =>
                  \A q \in registered : snap[p][q] = cores[q]

CalmInv == GhostInv /\ CreateInv /\ ListInv

LEMMA CalmInit == RegistryInit => CalmInv
<1> SUFFICES ASSUME RegistryInit PROVE CreateInv /\ ListInv
  BY InitLemma DEF CalmInv
<1> QED BY DEF RegistryInit, CreateInv, ListInv, Holding

\* Giving up on the file touches nobody's entry.
LEMMA OpenFailedKeepsList ==
  ASSUME CalmInv, NEW p \in Procs, OpenFailed(p),
         registered' \subseteq registered,
         \A q \in registered' : cores'[q] = cores[q], mishap' = mishap
  PROVE  CreateInv' /\ ListInv'
<1> USE DEF CalmInv, GhostInv, RegistryTypeOK, CreateInv, ListInv, Settled, Holding
<1>1. \A q \in Procs : at'[q] = IF q = p THEN "none" ELSE at[q]
  BY DEF OpenFailed
<1>2. at[p] # "write"
  BY DEF OpenFailed
<1> QED BY <1>1, <1>2 DEF OpenFailed

\* A rewrite keeps the entries of the others and ends the only operation
\* inside the locked region.
LEMMA RewriteKeepsList ==
  ASSUME CalmInv, NEW p \in Procs, NEW f, Rewrite(p, f),
         \A q \in registered' \ {p} : q \in registered /\ f[q] = snap[p][q],
         ~mishap' => ~mishap /\ (p \in registered' => f[p] = cores'[p]),
         \A q \in registered' \ {p} : cores'[q] = cores[q]
  PROVE  CreateInv' /\ ListInv'
<1> USE DEF CalmInv, GhostInv, RegistryTypeOK
<1>1. \A q \in Procs : at'[q] \notin Critical
  BY DEF Rewrite, LockInv, Critical
<1>2. ~mishap' => \A q \in registered' : file'[q] = cores'[q]
  BY DEF Rewrite, ListInv, Holding
<1>3. CreateInv'
  BY DEF CreateInv, Rewrite
<1> QED BY <1>1, <1>2, <1>3 DEF ListInv, Critical, Holding

LEMMA CalmStep ==
  ASSUME CalmInv, [RegistryNext]_registryVars
  PROVE  CalmInv'
<1> USE DEF CalmInv
<1>1. GhostInv'
  BY GhostStep
<1>2. CASE UNCHANGED registryVars
  BY <1>1, <1>2 DEF registryVars, CreateInv, ListInv, Settled
<1>3. ASSUME NEW p \in Procs, RegistryStep(p) \/ Explicit(p) \/ Die(p)
      PROVE  CreateInv' /\ ListInv'
  <2> USE DEF GhostInv, RegistryTypeOK, Holding, ListInv, Settled, CreateInv
  <2>1. CASE Begin(p) \/ Open(p) \/ Flock(p)
    BY <2>1 DEF Begin, Open, Flock
  <2>2. CASE OpenCreate(p)
    <3>1. ~mishap' => registered = {}
      BY <2>2 DEF OpenCreate, Clobber
    <3> QED BY <2>2, <3>1 DEF OpenCreate
  <2>3. CASE ReadFile(p)
    <3>1. Settled
      BY <2>3 DEF ReadFile, LockInv, Critical
    <3>2. \A q \in registered : Alive(q)
      BY DEF PhaseInv, Alive
    <3> QED BY <2>3, <3>1, <3>2 DEF ReadFile
  <2>4. CASE Truncate(p)
    BY <2>4 DEF Truncate
  <2>5. CASE Explicit(p)
    BY <2>5 DEF Explicit, PhaseInv
  <2>6. CASE Die(p)
    BY <2>6 DEF Die, Torn
  <2>7. CASE Query(p)
    <3>1. p \notin registered /\ registered' = registered /\ mishap' = mishap
      BY <2>7 DEF Query, PhaseInv
    <3>2. \A q \in registered : cores'[q] = cores[q]
      BY <2>7, <3>1 DEF Query
    <3>3. CASE Rewrite(p, snap[p])
      BY <3>1, <3>2, <3>3, RewriteKeepsList
    <3>4. CASE OpenFailed(p)
      BY <3>1, <3>2, <3>4, OpenFailedKeepsList
    <3> QED BY <2>7, <3>3, <3>4 DEF Query
  <2>8. CASE Register(p)
    <3>1. cores' = cores
      BY <2>8 DEF Register
    <3>2. CASE /\ Rewrite(p, WithEntry(p)) /\ registered' = registered \cup {p}
               /\ mishap' = (mishap \/ Full(p))
      <4>1. /\ \A q \in Procs \ {p} : WithEntry(p)[q] = snap[p][q]
            /\ ~Full(p) => WithEntry(p)[p] = cores[p]
        BY WithEntryRange
      <4>2. \A q \in registered' \ {p} : q \in registered /\ WithEntry(p)[q] = snap[p][q]
        BY <3>2, <4>1
      <4>3. ~mishap' => ~mishap /\ WithEntry(p)[p] = cores'[p]
        BY <3>1, <3>2, <4>1, Zenon
      <4> QED BY <3>1, <3>2, <4>2, <4>3, RewriteKeepsList
    <3>3. CASE OpenFailed(p) /\ registered' = registered /\ mishap' = mishap
      BY <3>1, <3>3, OpenFailedKeepsList
    <3> QED BY <2>8, <3>2, <3>3 DEF Register
  <2>9. CASE Unregister(p)
    <3>1. cores' = cores /\ registered' = registered \ {p} /\ mishap' = mishap
      BY <2>9 DEF Unregister
    <3>2. CASE Rewrite(p, [snap[p] EXCEPT ![p] = 0])
      <4> DEFINE f == [snap[p] EXCEPT ![p] = 0]
      <4>1. \A q \in Procs \ {p} : f[q] = snap[p][q]
        BY DEF Entries
      <4>2. registered \subseteq Procs
        OBVIOUS
      <4>3. Rewrite(p, f)
        BY <3>2
      <4> HIDE DEF f
      <4>4. \A q \in registered' \ {p} : q \in registered /\ f[q] = snap[p][q]
        BY <3>1, <4>1, <4>2
      <4> QED BY <3>1, <4>3, <4>4, RewriteKeepsList
    <3>3. CASE OpenFailed(p)
      BY <3>1, <3>3, OpenFailedKeepsList
    <3> QED BY <2>9, <3>2, <3>3 DEF Unregister
  <2> QED BY <1>3, <2>1, <2>2, <2>3, <2>4, <2>5, <2>6, <2>7, <2>8, <2>9 DEF RegistryStep
<1> QED BY <1>1, <1>2, <1>3 DEF RegistryNext

\* A registered process stays listed with its cores, whatever the others do:
\* the flock makes every read and rewrite of the registry atomic.  The three
\* exceptions are the ones NobodyForgotten names, and no others.
THEOREM RegisteredStayListed == RegistrySpec => []NobodyForgotten
<1>1. CalmInv => NobodyForgotten
  BY DEF CalmInv, ListInv, NobodyForgotten
<1> QED BY <1>1, CalmInit, CalmStep, PTL DEF RegistrySpec
=============================================================================
