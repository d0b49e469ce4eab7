---------------------------- MODULE Core1Launch -----------------------------
(***************************************************************************)
(* The launch of Core 1 as firmware performs it (multicore_reset_core1 and *)
(* multicore_launch_core1 of the Pico SDK, which tests/test_suite.c        *)
(* mirrors), against the boot ROM stand-in of Sio.  Core 0 cycles the      *)
(* reset, pops the readiness word and sends six words, reading each back;  *)
(* after a wrong answer it starts over.  Core 1 may use the mailboxes once *)
(* it runs.  Core 0 may launch it again, Relaunches times.                 *)
(***************************************************************************)
EXTENDS Sio

CONSTANTS
  Prompt,       \* no millisecond passes inside the handshake
  Relaunches    \* how often Core 0 launches again

ASSUME LaunchAssumption == 0..4 \subseteq Word /\ Prompt \in BOOLEAN /\ Relaunches \in Nat

\* {0, 0, 1, vector table, stack pointer, entry}
Command == <<0, 0, 1, 2, 3, 4>>
Asked == [vtor |-> 2, sp |-> 3, pc |-> 4]

VARIABLES
  place,     \* Core 0's place in the SDK code
  seq,       \* index of the word to send
  again      \* launches left

launchVars == <<place, seq, again>>
allVars == <<vars, launchVars>>

LInit == Init /\ place = "reset" /\ seq = 1 /\ again = Relaunches

Goto(a) == place' = a

\* multicore_reset_core1
Reset == place = "reset" /\ ResetAssert /\ Goto("release") /\ UNCHANGED <<seq, again>>
ReleaseReset ==
  /\ place = "release" /\ ResetRelease /\ Goto("ready0")
  /\ UNCHANGED <<seq, again>>

\* multicore_fifo_pop_blocking: poll VLD, then read.
Ready0 ==
  /\ place = "ready0" /\ FifoStatus(CORE0)
  /\ Goto(IF VLD(fifo', CORE0) THEN "pop0" ELSE "ready0")
  /\ UNCHANGED <<seq, again>>
Pop0 ==
  /\ place = "pop0" /\ FifoRead(CORE0) /\ Goto("pause")
  /\ UNCHANGED <<seq, again>>

\* The firmware does other things between the reset and the launch.
Pause ==
  /\ place = "pause" /\ Goto("drain") /\ seq' = 1
  /\ UNCHANGED <<vars, again>>

\* multicore_fifo_drain before a zero: read until VLD is clear.
Drain ==
  /\ place = "drain"
  /\ IF Command[seq] = 0
     THEN /\ FifoStatus(CORE0)
          /\ Goto(IF VLD(fifo', CORE0) THEN "drainRead" ELSE "wready")
     ELSE UNCHANGED vars /\ Goto("wready")
  /\ UNCHANGED <<seq, again>>
DrainRead ==
  /\ place = "drainRead" /\ FifoRead(CORE0) /\ Goto("drain")
  /\ UNCHANGED <<seq, again>>

\* multicore_fifo_push_blocking: poll RDY, then write.
Wready ==
  /\ place = "wready" /\ FifoStatus(CORE0)
  /\ Goto(IF RDY(fifo', CORE0) THEN "send" ELSE "wready")
  /\ UNCHANGED <<seq, again>>
Send ==
  /\ place = "send" /\ FifoWrite(CORE0, Command[seq]) /\ Goto("rvalid")
  /\ UNCHANGED <<seq, again>>

\* The answer: on to the next word, or back to the first.
Rvalid ==
  /\ place = "rvalid" /\ FifoStatus(CORE0)
  /\ Goto(IF VLD(fifo', CORE0) THEN "answer" ELSE "rvalid")
  /\ UNCHANGED <<seq, again>>
Answer ==
  /\ place = "answer" /\ FifoRead(CORE0)
  /\ LET ok == Front(fifo[CORE0]) = Command[seq] IN
     IF ok /\ seq = LaunchLength
     THEN Goto("launched") /\ seq' = 1
     ELSE Goto("drain") /\ seq' = IF ok THEN seq + 1 ELSE 1
  /\ again' = again

Again ==
  /\ place = "launched" /\ again > 0
  /\ again' = again - 1 /\ Goto("reset")
  /\ UNCHANGED <<vars, seq>>

Core0 == \/ Reset \/ ReleaseReset \/ Ready0 \/ Pop0 \/ Pause \/ Drain \/ DrainRead
         \/ Wready \/ Send \/ Rvalid \/ Answer

\* Core 1's own use of the mailboxes.
Core1 == /\ Executing(CORE1)
         /\ FifoWrite(CORE1, 1) \/ FifoRead(CORE1)
         /\ UNCHANGED launchVars

Tick == /\ Millisecond
        /\ Prompt => place \in {"reset", "release", "ready0", "pop0", "pause", "launched"}
        /\ UNCHANGED launchVars

LNext == Core0 \/ Again \/ Core1 \/ Tick

LSpec == LInit /\ [][LNext]_allVars

\* Core 0 keeps executing.
FairLSpec == LSpec /\ WF_allVars(Core0)

-----------------------------------------------------------------------------
\* tests/test_suite.c:482: "the 6-word launch handshake must unhalt core1
\* with vtor/SP/PC installed".  Whenever Core 1 runs, it runs from the
\* registers the firmware asked for.
LaunchedAsAsked == ~halted1 => core1 = Asked

\* Core 0 never takes a word of its own launch for the answer to another
\* one: when it considers Core 1 launched, the boot ROM does, too.
HandshakeAgrees == place = "launched" => ~halted1 /\ ~waiting

\* Both sides of a launch agree: Core 1 runs as asked, and runs when Core 0
\* says so (sio_core1_bootrom_handle_fifo_write).
LaunchAgrees == LaunchedAsAsked /\ HandshakeAgrees

\* A launch that has begun ends with Core 1 running, and Core 0 past the
\* handshake, whatever is still in the mailboxes from before.
LaunchCompletes == place = "reset" ~> (place = "launched" /\ ~halted1)
=============================================================================
