------------------------------ MODULE SpiCards ------------------------------
(***************************************************************************)
(* The SD card and the eMMC device behind an SPI port (sdcard.c, emmc.c),  *)
(* and a host driver that talks to them byte by byte.                      *)
(*                                                                         *)
(* A command frame is its first byte and its argument, a block is one      *)
(* byte with one CRC byte; a byte is tagged with what it is, a data byte   *)
(* of value 1 also looks like the start of a command.  The driver follows  *)
(* the SD protocol but may give up (raise chip select) anywhere.  History: *)
(* want is what the driver was told it stored, desync that a command went  *)
(* out while the card was inside a transfer, wrong a read of anything but  *)
(* the block asked for.  multi_addr and wr_addr, never in use at the same  *)
(* time, are one field (at).                                               *)
(***************************************************************************)
EXTENDS Naturals, Sequences

CONSTANTS
    Kinds,       \* subset of {"sd", "emmc"}
    NBlocks,     \* blocks of the card
    AddrBlocks   \* blocks that a 32-bit byte address can name (2^23)

VARIABLE sd

Blocks == 0..(NBlocks - 1)
Blank == [i \in Blocks |-> 0]
Values == {0, 1}
FF == <<"ff", 0>>
Crc == <<"crc", 0>>
Token(t) == <<"token", t>>
R1(v) == <<"r1", v>>
Single == 254
Multi == 252
Stop == 253
Frame == 3

Card == [cs |-> FALSE, state |-> "idle", init |-> FALSE, app |-> FALSE, cmd |-> 99,
         resp |-> <<>>, at |-> 0, wr |-> <<>>, stray |-> FALSE]
Driver == [pc |-> "off", op |-> 0, addr |-> 0, val |-> 0]

\* sdcard_init, emmc_init: the image is loaded, the card powers up idle.
Init ==
    \E kind \in Kinds :
        sd = [kind |-> kind, c |-> Card, h |-> Driver, data |-> Blank,
              want |-> Blank, desync |-> FALSE, wrong |-> FALSE]

-----------------------------------------------------------------------------
\* Responses.

\* queue_r1, queue_r3_r7 (the four bytes after R1 are not looked at).
QueueR1(c, status) == [c EXCEPT !.resp = <<R1(status)>>]
QueueR3(c, status) == [c EXCEPT !.resp = <<R1(status), Crc, Crc, Crc, Crc>>]

\* queue_data_block: token, block and CRC behind what is queued.
QueueData(c, v) == [c EXCEPT !.resp = @ \o <<Token(Single), <<"data", v>>, Crc>>]

\* build_csd_v2, build_cid: registers of the card, no block's value.
Register == 3

R1Of(c) == IF c.init THEN 0 ELSE 1
Illegal == 4
AddrErr == 32

\* sd_block_addr, emmc_block_addr: the block's byte address, in blocks; one that
\* does not fit into 32 bits becomes the size of the card.
BlockAddr(arg) == IF arg >= AddrBlocks THEN NBlocks ELSE arg

\* addr + SD_BLOCK_SIZE <= size, in 32 bits.
InRange(at) == (at + 1) % AddrBlocks <= NBlocks

Transfers == {17, 18, 24, 25}

\* An access behind the image.  What it reads or writes is not defined, and
\* nothing is said of the emulator from there on.
Stray(c) == [c EXCEPT !.stray = TRUE]

\* CMD17, CMD18.
ReadBlock(s, c, arg) == QueueData(QueueR1(c, R1Of(c)), s.data[arg])
ReadMultiple(s, c, arg) == [ReadBlock(s, c, arg) EXCEPT !.state = "send_multi", !.at = arg]

\* CMD24, CMD25.
WriteBlock(c, arg) == [QueueR1(c, R1Of(c)) EXCEPT !.state = "receiving", !.at = arg, !.wr = <<>>]
WriteMultiple(c, arg) == [WriteBlock(c, arg) EXCEPT !.state = "recv_multi"]

Transfer(s, c, cmd, at) ==
    IF ~InRange(at) THEN QueueR1(c, AddrErr)
    ELSE IF at \notin Blocks THEN Stray(c)
    ELSE CASE cmd = 17 -> ReadBlock(s, c, at)
           [] cmd = 18 -> ReadMultiple(s, c, at)
           [] cmd = 24 -> WriteBlock(c, at)
           [] cmd = 25 -> WriteMultiple(c, at)

\* The commands both devices share; anything else is illegal.
SharedCommand(s, c, cmd, arg) ==
    CASE cmd = 0 -> [QueueR1(c, 1) EXCEPT !.init = FALSE, !.state = "idle", !.app = FALSE, !.at = 0]
      [] cmd \in {9, 10} -> QueueData(QueueR1(c, R1Of(c)), Register)
      [] cmd = 12 -> [QueueR1(c, R1Of(c)) EXCEPT !.state = "ready", !.at = 0]
      [] cmd = 13 -> [c EXCEPT !.resp = <<R1(R1Of(c)), Crc>>]
      [] cmd = 16 -> QueueR1(c, R1Of(c))
      [] cmd \in Transfers -> Transfer(s, c, cmd, BlockAddr(arg))
      [] cmd = 58 -> QueueR3(c, R1Of(c))
      [] OTHER -> QueueR1(c, Illegal)

\* ACMD41 and the end of every other application command.
AppCommand(c, cmd) ==
    IF cmd = 41 THEN [QueueR1(c, 0) EXCEPT !.app = FALSE, !.init = TRUE,
                                           !.state = IF c.init THEN @ ELSE "ready"]
    ELSE [QueueR1(c, Illegal) EXCEPT !.app = FALSE]

\* process_command.
SdCommand(s, c, cmd, arg) ==
    CASE c.app -> AppCommand(c, cmd)
      [] ~c.app /\ cmd = 8 -> QueueR3(c, 1)
      [] ~c.app /\ cmd = 55 -> [QueueR1(c, R1Of(c)) EXCEPT !.app = TRUE]
      [] OTHER -> SharedCommand(s, c, cmd, arg)

\* emmc_process_command: CMD1 starts the device, CMD8 sends the EXT_CSD.
EmmcCommand(s, c, cmd, arg) ==
    CASE cmd = 1 -> [QueueR1(c, 0) EXCEPT !.init = TRUE, !.state = IF c.init THEN @ ELSE "ready"]
      [] cmd = 8 -> QueueData(QueueR1(c, R1Of(c)), Register)
      [] OTHER -> SharedCommand(s, c, cmd, arg)

ProcessCommand(s, c, cmd, arg) ==
    IF s.kind = "sd" THEN SdCommand(s, c, cmd, arg) ELSE EmmcCommand(s, c, cmd, arg)

-----------------------------------------------------------------------------
\* One byte each way.

\* A queued byte goes out whatever comes in; the last one of a multiple read's
\* block queues the next block.
SendQueued(s, c) ==
    LET rest == [c EXCEPT !.resp = Tail(@)]
        next == c.at + 1
    IN IF rest.resp # <<>> \/ c.state # "send_multi" THEN rest
       ELSE IF InRange(next) THEN [QueueData(rest, s.data[next]) EXCEPT !.at = next]
       ELSE [rest EXCEPT !.state = "ready", !.at = 0]

Payload(b) == IF b[1] = "data" THEN b[2] ELSE 2

\* Variant: the token of a multiple write is good for a single one as well.
ReceiveByteAnyToken(s, c, mosi) ==
    LET got == [c EXCEPT !.wr = Append(@, mosi)]
        full == Len(got.wr) = Frame
        done == [got EXCEPT !.wr = <<>>]
        next == IF c.state = "recv_multi" THEN [done EXCEPT !.at = @ + 1]
                ELSE [done EXCEPT !.state = "ready", !.at = 0]
    IN IF ~full THEN [s EXCEPT !.c = got]
       ELSE IF InRange(c.at)
       THEN [s EXCEPT !.data[c.at] = Payload(got.wr[2]),
                      !.c = [next EXCEPT !.resp = << <<"resp", 5>>, <<"busy", 0>> >>]]
       ELSE [s EXCEPT !.c = [done EXCEPT !.resp = << <<"resp", 13>> >>, !.state = "ready", !.at = 0]]

\* A data frame is judged when it is complete: stored and acknowledged, ended
\* by the stop token, or refused.
ReceiveByte(s, c, mosi) ==
    LET got == [c EXCEPT !.wr = Append(@, mosi)]
        full == Len(got.wr) = Frame
        done == [got EXCEPT !.wr = <<>>]
        valid == got.wr[1] = Token(IF c.state = "receiving" THEN Single ELSE Multi)
        next == IF c.state = "recv_multi" THEN [done EXCEPT !.at = @ + 1]
                ELSE [done EXCEPT !.state = "ready", !.at = 0]
    IN IF ~full THEN [s EXCEPT !.c = got]
       ELSE IF c.state = "recv_multi" /\ got.wr[1] = Token(Stop) THEN [s EXCEPT !.c = [done EXCEPT !.state = "ready", !.at = 0]]
       ELSE IF valid /\ InRange(c.at)
       THEN [s EXCEPT !.data[c.at] = Payload(got.wr[2]),
                      !.c = [next EXCEPT !.resp = << <<"resp", 5>>, <<"busy", 0>> >>]]
       ELSE [s EXCEPT !.c = [done EXCEPT !.resp = << <<"resp", 13>> >>, !.state = "ready", !.at = 0]]

\* Command assembly: bytes that do not start a command are skipped.
AssembleByte(s, c, mosi) ==
    IF c.cmd = 99
    THEN [s EXCEPT !.c.cmd = CASE mosi[1] = "start" -> mosi[2] [] mosi = <<"data", 1>> -> 63 [] OTHER -> 99]
    ELSE [s EXCEPT !.c = ProcessCommand(s, [c EXCEPT !.cmd = 99], c.cmd,
                                        IF mosi[1] = "arg" THEN mosi[2] ELSE NBlocks)]

\* sdcard_spi_xfer: the card after the byte, and the byte it answers.
SdXfer(s, mosi) ==
    LET c == s.c
    IN CASE ~c.cs -> [s |-> s, out |-> FF]
         [] c.cs /\ c.resp # <<>> -> [s |-> [s EXCEPT !.c = SendQueued(s, c)], out |-> Head(c.resp)]
         [] c.cs /\ c.resp = <<>> /\ c.state \in {"receiving", "recv_multi"} ->
                [s |-> ReceiveByte(s, c, mosi), out |-> FF]
         [] OTHER -> [s |-> AssembleByte(s, c, mosi), out |-> FF]

\* emmc_spi_xfer: the same order of tests.
EmmcXfer(s, mosi) == SdXfer(s, mosi)

Xfer(s, mosi) == IF s.kind = "sd" THEN SdXfer(s, mosi) ELSE EmmcXfer(s, mosi)

Deselected(c) == [c EXCEPT !.cs = FALSE, !.cmd = 99, !.resp = <<>>]

\* sdcard_spi_cs: a multiple transfer ends with chip select, a single write
\* does not.
SdCs(c, on) ==
    IF on THEN [c EXCEPT !.cs = TRUE]
    ELSE IF c.state \in {"send_multi", "recv_multi"} THEN [Deselected(c) EXCEPT !.state = "ready", !.at = 0]
    ELSE Deselected(c)

\* emmc_spi_cs: the state stays as it is.
EmmcCs(c, on) == IF on THEN [c EXCEPT !.cs = TRUE] ELSE Deselected(c)

SpiCs(s, on) == [s EXCEPT !.c = IF s.kind = "sd" THEN SdCs(@, on) ELSE EmmcCs(@, on)]

-----------------------------------------------------------------------------
\* The driver: one byte a step.

At(pc) == sd.h.pc = pc
\* The driver goes on to pc; back at the prompt it forgets its operation.
Goes(h, pc) == IF pc = "ready" THEN [Driver EXCEPT !.pc = pc] ELSE [h EXCEPT !.pc = pc]
InTransfer(c) == c.state \in {"receiving", "recv_multi", "send_multi"} \/ c.resp # <<>>

Select ==
    /\ At("off")
    /\ sd' = [SpiCs(sd, TRUE) EXCEPT !.h.pc = "ready"]

\* Chip select goes up, at the end of a transfer or in the middle of one; a
\* driver that has no answer to its block does not know whether it is stored.
Deselect ==
    /\ sd.h.pc # "off"
    /\ LET s == SpiCs(sd, FALSE)
           unknown == sd.desync \/ sd.h.pc = "wresp"
       IN sd' = [s EXCEPT !.h = Driver, !.desync = InTransfer(s.c),
                          !.want = IF unknown THEN s.data ELSE @]

Commands == {0, 1, 8, 9, 12, 13, 16, 17, 18, 24, 25, 41, 55, 58, 63}

\* Arguments: the blocks, the one behind them, and the ends of the address range.
Arguments(op) == IF op \in Transfers THEN 0..NBlocks \cup {AddrBlocks - 1, AddrBlocks} ELSE {0}

SendCommand(op, addr) ==
    /\ At("ready")
    /\ sd' = [Xfer(sd, <<"start", op>>).s EXCEPT !.h = [Driver EXCEPT !.pc = "arg", !.op = op, !.addr = addr],
                                                 !.desync = @ \/ InTransfer(sd.c)]

SendArg ==
    /\ At("arg")
    /\ sd' = [Xfer(sd, <<"arg", sd.h.addr>>).s EXCEPT !.h.pc = "r1"]

\* The first byte other than 0xFF answers the command.
AwaitR1 ==
    /\ At("r1")
    /\ LET x == Xfer(sd, FF)
           go == IF x.out[2] # R1Of(sd.c) THEN "ready"
                 ELSE CASE sd.h.op \in {17, 18} -> "token" [] sd.h.op \in {24, 25} -> "wtoken" [] OTHER -> "skip"
       IN sd' = [x.s EXCEPT !.h = Goes(@, IF x.out = FF THEN "r1" ELSE go)]

\* Whatever else the answer holds is read until the line is quiet.
SkipAnswer ==
    /\ At("skip")
    /\ LET x == Xfer(sd, FF)
       IN sd' = [x.s EXCEPT !.h = Goes(@, IF x.out = FF THEN "ready" ELSE "skip")]

AwaitToken ==
    /\ At("token")
    /\ LET x == Xfer(sd, FF)
       IN sd' = [x.s EXCEPT !.h.pc = IF x.out = FF THEN @ ELSE "rdata"]

ReadData ==
    /\ At("rdata")
    /\ LET x == Xfer(sd, FF)
       IN sd' = [x.s EXCEPT !.h.pc = "rcrc", !.wrong = @ \/ (~sd.desync /\ x.out # <<"data", sd.want[sd.h.addr]>>)]

\* A multiple read goes on until the driver stops it.
ReadCrc ==
    /\ At("rcrc")
    /\ LET x == Xfer(sd, FF)
           more == sd.h.op = 18 /\ sd.h.addr + 1 \in Blocks
       IN \E stop \in {FALSE} \cup {sd.h.op = 18} :
             sd' = [x.s EXCEPT !.h = IF more /\ ~stop THEN [@ EXCEPT !.pc = "token", !.addr = @ + 1]
                                     ELSE Goes(@, "ready")]

\* Drivers that wait for the card to be ready send 0xFF before the token.
SendGap ==
    /\ At("wtoken")
    /\ sd' = [Xfer(sd, FF).s EXCEPT !.h.pc = "wtoken"]

SendToken ==
    /\ At("wtoken")
    /\ \E v \in Values :
          sd' = [Xfer(sd, Token(IF sd.h.op = 24 THEN Single ELSE Multi)).s EXCEPT !.h.pc = "wdata", !.h.val = v]

SendStop ==
    /\ At("wtoken") /\ sd.h.op = 25
    /\ sd' = [Xfer(sd, Token(Stop)).s EXCEPT !.h.pc = "stopping"]

SendData ==
    /\ At("wdata")
    /\ sd' = [Xfer(sd, <<"data", sd.h.val>>).s EXCEPT !.h.pc = "wcrc"]

SendCrc ==
    /\ At("wcrc")
    /\ sd' = [Xfer(sd, Crc).s EXCEPT !.h.pc = "wresp"]

\* The data response: the driver takes the block for stored.
AwaitResponse ==
    /\ At("wresp")
    /\ LET x == Xfer(sd, FF)
           ok == x.out = <<"resp", 5>>
       IN sd' = [x.s EXCEPT !.want = IF ok /\ sd.h.addr \in Blocks THEN [@ EXCEPT ![sd.h.addr] = sd.h.val] ELSE @,
                            !.h = CASE x.out = FF -> @
                                    [] ok -> [@ EXCEPT !.pc = "busy", !.val = 0,
                                                       !.addr = IF sd.h.op = 25 THEN @ + 1 ELSE @]
                                    [] OTHER -> Goes(@, "ready")]

AwaitIdle ==
    /\ At("busy")
    /\ LET x == Xfer(sd, FF)
           next == IF sd.h.op = 25 THEN "wtoken" ELSE "ready"
       IN \E poll \in BOOLEAN : sd' = [x.s EXCEPT !.h = Goes(@, IF x.out # FF /\ poll THEN "busy" ELSE next)]

AwaitStopped ==
    /\ At("stopping")
    /\ LET x == Xfer(sd, FF)
       IN sd' = [x.s EXCEPT !.h = Goes(@, IF x.out = FF THEN "ready" ELSE "stopping")]

Next ==
    /\ ~sd.c.stray
    /\ \/ Select \/ Deselect \/ SendArg \/ AwaitR1 \/ SkipAnswer \/ AwaitToken \/ ReadData \/ ReadCrc
       \/ \E op \in Commands : \E addr \in Arguments(op) : SendCommand(op, addr)
       \/ SendGap \/ SendToken \/ SendStop \/ SendData \/ SendCrc
       \/ AwaitResponse \/ AwaitIdle \/ AwaitStopped

Spec == Init /\ [][Next]_sd

-----------------------------------------------------------------------------
\* Up to an access behind the image (BlocksExist), and
\* as long as no command was sent into an unfinished transfer, a driver reads
\* the blocks it asked for, single or in a row, and the card holds exactly
\* the blocks it acknowledged, whichever transfers were given up and whatever
\* was sent before a token (sdcard_spi_xfer, emmc_spi_xfer).
CardHonest ==
    /\ ~sd.wrong
    /\ ~sd.desync /\ sd.h.pc # "wresp" => sd.data = sd.want

\* "overflow-safe block address. On overflow saturates to sd->size so the caller's
\* `addr + SD_BLOCK_SIZE > sd->size` check rejects it" (sd_block_addr; the same
\* for emmc_block_addr): a transfer is accepted for a block of the card only.
BlocksExist == ~sd.c.stray

\* "drop out of any multi-block transfer so the next CS cycle starts clean"
\* (sdcard_spi_cs): a card that is not selected is not in a transfer.
CycleStartsClean == ~sd.c.cs => ~InTransfer(sd.c)
=============================================================================
