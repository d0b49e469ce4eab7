------------------------------ MODULE RvHarts -------------------------------
(***************************************************************************)
(* The two RISC-V harts under the execution loop of src/main.c: traps,     *)
(* MRET, WFI, the control and status registers that mask interrupts, the   *)
(* CLINT (src/rp2350_rv/rv_clint.c) and the hart 1 launch mailbox of       *)
(* src/rp2350_rv/rv_membus.c.                                              *)
(*                                                                         *)
(* One step is one pass of the loop: an instruction of each hart that is   *)
(* neither halted nor waiting, the timer, the interrupt check of both      *)
(* harts, the mailbox.  A program counter is m0 or m1 in the main program, *)
(* or names a slot of the trap vector; the firmware is lawful: handlers    *)
(* raise no exception, leave interrupts off and end with MRET; hart 0 uses *)
(* the timer, launches hart 1 and interrupts it.  Nothing in the program   *)
(* raises an external interrupt line (rv_clint_set_ext_pending has no      *)
(* caller), so the sources are MSI and MTI.                                *)
(***************************************************************************)
EXTENDS Integers

CONSTANTS MaxTime,     \* bound: mtime stops here
          MtvecMode    \* 1: mtvec selects vectored mode

ASSUME HartsAssumption == MaxTime \in Nat

VARIABLE rvh

Hart == 0 .. 1
Never == MaxTime + 1                       \* mtimecmp = UINT64_MAX
Sources == {"MSI", "MTI"}
Main == {"m0", "m1"}
InHandler(h) == h.pc \notin Main

(* rv_cpu_init; hart 0 is reset to its entry, hart 1 stays halted.  The    *)
(* ghost resume is where the trap being handled was taken and MIE then.    *)
HartInit == [pc |-> "m0", halted |-> TRUE, wfi |-> FALSE, mie |-> FALSE, mpie |-> FALSE,
             en |-> {}, mepc |-> "m0", resume |-> <<"m0", FALSE>>]

HartsInit == rvh = [hart |-> [i \in Hart |-> [HartInit EXCEPT !.halted = (i = 1)]],
               mtime |-> 0, cmp |-> [i \in Hart |-> Never], msip |-> [i \in Hart |-> FALSE],
               launch |-> FALSE, entry |-> "m0"]

-----------------------------------------------------------------------------
(* Traps.                                                                  *)

(* Variant: MIE is saved but stays set. *)
TrapEnterUnmasked(h, cause) ==
  [h EXCEPT !.mepc = h.pc, !.mpie = h.mie, !.pc = "base",
            !.resume = <<h.pc, h.mie>>]

TrapEnter(h, cause) ==
  [h EXCEPT !.mepc = h.pc, !.mpie = h.mie, !.mie = FALSE,
            !.pc = IF MtvecMode = 1 /\ cause \in Sources THEN cause ELSE "base",
            !.resume = <<h.pc, h.mie>>]

TrapReturn(h) == [h EXCEPT !.pc = h.mepc, !.mie = h.mpie, !.mpie = TRUE, !.resume = HartInit.resume]

(* rv_cpu_reset: the control and status registers keep their values. *)
CpuReset(h, entry) == [h EXCEPT !.pc = entry, !.halted = FALSE, !.wfi = FALSE]

(* An instruction of the main program moves on, as the end of rv_cpu_step does. *)
Advance(h) == [h EXCEPT !.pc = CASE h.pc = "m0" -> "m1" [] h.pc = "m1" -> "m0" [] OTHER -> h.pc]

-----------------------------------------------------------------------------
(* The instructions that touch this state, executed by hart i.             *)

Put(s, i, h) == [s EXCEPT !.hart[i] = h]
OtherHart(i) == 1 - i

MainOps == {"nop", "ecall", "wfi", "csrs_mie", "csrc_mie", "csrw_mie",
            "ipi", "mtimecmp", "launch", "reboot"}
HandlerOps == {"nop", "msip_ack", "mtimecmp_off", "mret"}

CsrWrite(h, op) ==
  CASE op = "csrs_mie" -> [h EXCEPT !.mie = TRUE]
    [] op = "csrc_mie" -> [h EXCEPT !.mie = FALSE]
    [] op = "csrw_mie" -> [h EXCEPT !.en = Sources]

ClintWrite(s, i, op) ==
  CASE op = "ipi" -> [s EXCEPT !.msip[OtherHart(i)] = TRUE]
    [] op = "msip_ack" -> [s EXCEPT !.msip[i] = FALSE]
    [] op = "mtimecmp" -> [s EXCEPT !.cmp[i] = MaxTime]
    [] op = "mtimecmp_off" -> [s EXCEPT !.cmp[i] = Never]

(* The launch mailbox: the entry word and then the launch bit. *)
SioWrite(s, entry) == [s EXCEPT !.entry = entry, !.launch = TRUE]

(* ECALL, MRET and WFI; the trap and the return do not advance the counter. *)
Priv(h, op) ==
  CASE op = "ecall" -> TrapEnter(h, "ecall")
    [] op = "mret" -> TrapReturn(h)
    [] op = "wfi" -> Advance([h EXCEPT !.wfi = TRUE])

(* The bootrom's reboot function halts the hart and returns to its caller. *)
RomReboot(h) == Advance([h EXCEPT !.halted = TRUE])

CpuStep(s, i, op) ==
  LET h == s.hart[i] IN
  CASE op \in {"ecall", "mret", "wfi"} -> Put(s, i, Priv(h, op))
    [] op \in {"ipi", "msip_ack", "mtimecmp", "mtimecmp_off"} -> Put(ClintWrite(s, i, op), i, Advance(h))
    [] op = "launch" -> Put(SioWrite(s, "m1"), i, Advance(h))
    [] op = "reboot" -> Put(s, i, RomReboot(h))
    [] op = "nop" -> Put(s, i, Advance(h))
    [] OTHER -> Put(s, i, Advance(CsrWrite(h, op)))

-----------------------------------------------------------------------------
(* The rest of the pass.                                                   *)

ClintTick(s) == [s EXCEPT !.mtime = IF @ < MaxTime THEN @ + 1 ELSE @]

Mip(s, i) == {src \in Sources : \/ src = "MTI" /\ s.mtime >= s.cmp[i]
                                \/ src = "MSI" /\ s.msip[i]}

(* rv_clint_check_interrupts: nothing happens, not even the wake-up, while MIE is off. *)
CheckInterrupts(s, i) ==
  LET h == s.hart[i]
      deliverable == Mip(s, i) \cap h.en
  IN IF ~h.mie \/ deliverable = {} THEN s
     ELSE Put(s, i, TrapEnter([h EXCEPT !.wfi = FALSE], IF "MSI" \in deliverable THEN "MSI" ELSE "MTI"))

CheckLaunch(s) ==
  IF s.hart[1].halted /\ s.launch
  THEN Put([s EXCEPT !.launch = FALSE], 1, CpuReset(s.hart[1], s.entry))
  ELSE s

Runs(s, i) == ~s.hart[i].halted /\ ~s.hart[i].wfi
Ops(s, i) == IF ~Runs(s, i) THEN {"idle"}
             ELSE IF InHandler(s.hart[i]) THEN HandlerOps
             ELSE MainOps \ (IF i = 1 THEN {"launch", "ipi", "mtimecmp"} ELSE {"reboot"})
StepIf(s, i, op) == IF op = "idle" THEN s ELSE CpuStep(s, i, op)

Pass(s, op0, op1) ==
  LET t == ClintTick(StepIf(StepIf(s, 0, op0), 1, op1))
      c == CheckInterrupts(t, 0)
      d == IF c.hart[1].halted THEN c ELSE CheckInterrupts(c, 1)
  IN CheckLaunch(d)

LoopPass == \E op0 \in Ops(rvh, 0), op1 \in Ops(rvh, 1) : rvh' = Pass(rvh, op0, op1)

(* The watchdog reboot of the loop: both harts are reset, hart 1 halted again. *)
WatchdogReboot ==
  rvh' = [rvh EXCEPT !.hart = [i \in Hart |-> [CpuReset(rvh.hart[i], "m0") EXCEPT !.halted = (i = 1)]]]

HartsNext == LoopPass \/ WatchdogReboot
HartsSpec == HartsInit /\ [][HartsNext]_rvh

-----------------------------------------------------------------------------
(* A handler returns where its trap was taken: while a hart runs a handler,*)
(* mepc is the counter the trap interrupted and MPIE the interrupt enable  *)
(* then, and no second trap has overwritten them (rv_trap_enter clears MIE,*)
(* rv_trap_return restores it), whatever the other hart, the timer, the    *)
(* mailbox and a reboot do meanwhile.                                      *)
HandlersReturn ==
  \A i \in Hart : LET h == rvh.hart[i] IN
    InHandler(h) => /\ <<h.mepc, h.mpie>> = h.resume
                    /\ h.mepc \in Main
                    /\ ~h.mie

(* No hart sleeps through an interrupt it has enabled: after every pass, a *)
(* hart that waits in WFI with MIE set has nothing pending that it enables,*)
(* even when the other hart raised it in the same pass after the hart went *)
(* to sleep, and a hart whose trap was taken runs its handler awake (the   *)
(* check and wake-up of rv_clint_check_interrupts after both steps).       *)
WfiNotMissed ==
  \A i \in Hart : LET h == rvh.hart[i] IN
    (~h.halted /\ h.wfi) => /\ ~InHandler(h)
                            /\ h.mie => Mip(rvh, i) \cap h.en = {}

(* A handler returns where its trap was taken, and no hart sleeps through  *)
(* an interrupt, nor inside a handler (rv_trap_enter, rv_trap_return,      *)
(* rv_clint_check_interrupts).                                             *)
HartsSound == HandlersReturn /\ WfiNotMissed

(* "WFI wake: any pending+enabled interrupt wakes the hart"                *)
(* (rv_clint_check_interrupts), MIE set or not.                            *)
WfiWakes ==
  \A i \in Hart : LET h == rvh.hart[i] IN
    ~h.halted /\ h.wfi => Mip(rvh, i) \cap h.en = {}

=============================================================================
