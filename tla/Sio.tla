-------------------------------- MODULE Sio ---------------------------------
(***************************************************************************)
(* The SIO mailboxes between the cores (cpu.c, "Multicore FIFO" and "SIO   *)
(* Operations"; membus.c, sio_read32 and sio_write32) and the stand-in for *)
(* Core 1's boot ROM that answers on them until Core 1 is launched.        *)
(***************************************************************************)
EXTENDS Naturals, Sequences

CONSTANTS
  Word,     \* the words written to the mailboxes, 0 among them
  Depth     \* FIFO_DEPTH

ASSUME SioAssumption == Depth \in Nat \ {0} /\ 0 \in Word

CORE0 == 0
CORE1 == 1
Cores == {CORE0, CORE1}
Other(c) == 1 - c
LaunchLength == 6

VARIABLES
  fifo,       \* the ring buffer each core receives on
  wof, roe,   \* the cores with that bit in sio_fifo_sticky
  psmOff,     \* PROC1 bit of PSM FRCE_OFF
  waiting,    \* core1_bootrom.waiting_for_launch
  launch,     \* core1_bootrom.launch_words, as many as launch_count
  due,        \* bootrom_last_push_us is at least 1 ms ago
  halted1,    \* cores[CORE1].is_halted
  core1       \* vtor, r[13] and r[15] Core 1 was last launched with

fifoVars == <<fifo, wof, roe>>
bootVars == <<psmOff, waiting, launch, halted1, core1>>
vars == <<fifoVars, bootVars, due>>

Index == 0..(Depth - 1)
Fifo == [messages : [Index -> Word], read_ptr : Index, write_ptr : Index,
         count : 0..Depth]
EmptyFifo == [messages |-> [i \in Index |-> 0], read_ptr |-> 0,
              write_ptr |-> 0, count |-> 0]
Regs == [vtor : Word, sp : Word, pc : Word]
NoRegs == [vtor |-> 0, sp |-> 0, pc |-> 0]

TypeOK ==
  /\ fifo \in [Cores -> Fifo]
  /\ wof \subseteq Cores /\ roe \subseteq Cores
  /\ {psmOff, waiting, due, halted1} \subseteq BOOLEAN
  /\ launch \in UNION {[1..n -> Word] : n \in 0..(LaunchLength - 1)}
  /\ core1 \in Regs

Init ==
  /\ fifo = [c \in Cores |-> EmptyFifo]
  /\ wof = {} /\ roe = {}
  /\ psmOff = FALSE /\ waiting = FALSE /\ launch = <<>> /\ due = TRUE
  /\ halted1 = TRUE /\ core1 = NoRegs

-----------------------------------------------------------------------------
(***************************************************************************)
(* The ring buffer.                                                        *)
(***************************************************************************)
IsEmpty(f) == f.count = 0
IsFull(f) == f.count >= Depth

Pushed(f, w) ==
  [messages |-> [f.messages EXCEPT ![f.write_ptr] = w],
   read_ptr |-> f.read_ptr,
   write_ptr |-> (f.write_ptr + 1) % Depth,
   count |-> f.count + 1]

\* fifo_try_push, for callers that ignore its result.
TryPush(f, w) == IF IsFull(f) THEN f ELSE Pushed(f, w)

Popped(f) ==
  [messages |-> f.messages,
   read_ptr |-> (f.read_ptr + 1) % Depth,
   write_ptr |-> f.write_ptr,
   count |-> f.count - 1]
Front(f) == f.messages[f.read_ptr]

-----------------------------------------------------------------------------
(***************************************************************************)
(* The boot ROM.                                                           *)
(***************************************************************************)

\* The registers a complete launch sequence asks for (the Thumb bit of the
\* entry is dropped; words are opaque here).
RegsOf(ws) == [vtor |-> ws[4], sp |-> ws[5], pc |-> ws[6]]

\* Variant: the launch words are read from one place earlier.
BootromWordShifted(w) ==
  LET ws == Append(launch, w) IN
  /\ fifo' = [fifo EXCEPT ![CORE0] = TryPush(@, w)]
  /\ IF Len(ws) = LaunchLength
     THEN /\ core1' = [vtor |-> ws[3], sp |-> ws[4], pc |-> ws[5]]
          /\ halted1' = FALSE /\ waiting' = FALSE /\ launch' = <<>>
     ELSE launch' = ws /\ UNCHANGED <<core1, halted1, waiting>>

\* sio_core1_bootrom_handle_fifo_write: the word is echoed and kept; the
\* sixth launches Core 1, whatever the six are.
BootromWord(w) ==
  LET ws == Append(launch, w) IN
  /\ fifo' = [fifo EXCEPT ![CORE0] = TryPush(@, w)]
  /\ IF Len(ws) = LaunchLength
     THEN /\ core1' = RegsOf(ws)
          /\ halted1' = FALSE /\ waiting' = FALSE /\ launch' = <<>>
     ELSE launch' = ws /\ UNCHANGED <<core1, halted1, waiting>>

\* Variant: the readiness word is pushed again at once.
BootromPollUngated ==
  IF waiting /\ IsEmpty(fifo[CORE0])
  THEN fifo' = [fifo EXCEPT ![CORE0] = Pushed(@, 0)] /\ due' = FALSE
  ELSE UNCHANGED <<fifo, due>>

\* sio_bootrom_poll: announce readiness again once core 0 has drained it and
\* a millisecond has passed.
BootromPoll ==
  IF waiting /\ IsEmpty(fifo[CORE0]) /\ due
  THEN fifo' = [fifo EXCEPT ![CORE0] = Pushed(@, 0)] /\ due' = FALSE
  ELSE UNCHANGED <<fifo, due>>

\* sio_set_core1_reset(1), from a write that sets the PROC1 bit.
ResetAssert ==
  /\ ~psmOff /\ psmOff' = TRUE
  /\ halted1' = TRUE /\ waiting' = FALSE /\ launch' = <<>>
  /\ fifo' = [fifo EXCEPT ![CORE1] = EmptyFifo]
  /\ UNCHANGED <<wof, roe, core1, due>>

\* Variant: the release leaves what core 0 wrote during the reset.
ResetReleaseDirty ==
  /\ psmOff /\ psmOff' = FALSE
  /\ halted1' = TRUE /\ waiting' = TRUE /\ launch' = <<>>
  /\ fifo' = [fifo EXCEPT ![CORE0] = TryPush(@, 0)]
  /\ due' = FALSE
  /\ UNCHANGED <<wof, roe, core1>>

\* sio_set_core1_reset(0): the boot ROM waits, and announces itself.
ResetRelease ==
  /\ psmOff /\ psmOff' = FALSE
  /\ halted1' = TRUE /\ waiting' = TRUE /\ launch' = <<>>
  /\ fifo' = [fifo EXCEPT ![CORE1] = EmptyFifo, ![CORE0] = TryPush(@, 0)]
  /\ due' = FALSE
  /\ UNCHANGED <<wof, roe, core1>>

-----------------------------------------------------------------------------
(***************************************************************************)
(* The registers.                                                          *)
(***************************************************************************)

\* Variant: a refused write is not flagged to the writer but to the reader.
FifoWriteWrongFlag(c, w) ==
  IF c = CORE0 /\ waiting
  THEN BootromWord(w) /\ UNCHANGED <<wof, roe, psmOff, due>>
  ELSE /\ IF IsFull(fifo[Other(c)])
          THEN wof' = wof \cup {Other(c)} /\ fifo' = fifo
          ELSE /\ fifo' = [fifo EXCEPT ![Other(c)] = Pushed(@, w)]
               /\ wof' = wof
       /\ UNCHANGED <<roe, bootVars, due>>

\* FIFO_WR
FifoWrite(c, w) ==
  IF c = CORE0 /\ waiting
  THEN BootromWord(w) /\ UNCHANGED <<wof, roe, psmOff, due>>
  ELSE /\ IF IsFull(fifo[Other(c)])
          THEN wof' = wof \cup {c} /\ fifo' = fifo
          ELSE /\ fifo' = [fifo EXCEPT ![Other(c)] = Pushed(@, w)]
               /\ wof' = wof
       /\ UNCHANGED <<roe, bootVars, due>>

\* FIFO_RD
FifoRead(c) ==
  /\ IF IsEmpty(fifo[c])
     THEN roe' = roe \cup {c} /\ fifo' = fifo
     ELSE fifo' = [fifo EXCEPT ![c] = Popped(@)] /\ roe' = roe
  /\ UNCHANGED <<wof, bootVars, due>>

\* A read of FIFO_ST, and the bits it returns afterwards.
FifoStatus(c) == BootromPoll /\ UNCHANGED <<wof, roe, bootVars>>
VLD(f, c) == ~IsEmpty(f[c])
RDY(f, c) == ~IsFull(f[c])

\* A write of FIFO_ST clears the sticky bits it names.
FifoClearSticky(c, W, R) ==
  /\ wof' = IF W THEN wof \ {c} ELSE wof
  /\ roe' = IF R THEN roe \ {c} ELSE roe
  /\ UNCHANGED <<fifo, bootVars, due>>

\* timer_state.time_us moves on by a millisecond.
Millisecond == ~due /\ due' = TRUE /\ UNCHANGED <<fifoVars, bootVars>>

-----------------------------------------------------------------------------
(***************************************************************************)
(* Any firmware on both cores; Core 1 executes once launched.              *)
(***************************************************************************)
Executing(c) == c = CORE1 => ~halted1

Access(c) ==
  \/ \E w \in Word : FifoWrite(c, w)
  \/ FifoRead(c)
  \/ FifoStatus(c)
  \/ \E W, R \in BOOLEAN : FifoClearSticky(c, W, R)

Next ==
  \/ \E c \in Cores : Executing(c) /\ Access(c)
  \/ ResetAssert \/ ResetRelease \/ Millisecond

Spec == Init /\ [][Next]_vars

-----------------------------------------------------------------------------
(***************************************************************************)
(* Properties.                                                             *)
(***************************************************************************)

\* The pointers and the count of a ring buffer agree: the write pointer is
\* count slots ahead of the read pointer.
RingInv ==
  \A c \in Cores :
    fifo[c].write_ptr = (fifo[c].read_ptr + fifo[c].count) % Depth

\* The words of a ring buffer in the order they are read.
Contents(f) == [i \in 1..f.count |-> f.messages[(f.read_ptr + i - 1) % Depth]]

Queue == INSTANCE FifoQueue
           WITH q <- [c \in Cores |-> Contents(fifo[c])], wof <- wof, roe <- roe

\* The ring buffers and their sticky bits implement the mailboxes of
\* FifoQueue: no word is lost, repeated or reordered except by a reset, and
\* WOF and ROE are raised only for a refused write and an empty read.
QueueSpec == Queue!Spec

\* While the boot ROM waits Core 1 is halted and its mailbox stays empty: the
\* words of the handshake never reach the program it launches, and no word
\* of an earlier handshake counts towards the next.
LaunchExclusive ==
  /\ waiting => halted1 /\ ~psmOff /\ IsEmpty(fifo[CORE1])
  /\ psmOff => halted1
  /\ ~waiting => launch = <<>>

=============================================================================
