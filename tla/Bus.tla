--------------------------------- MODULE Bus ---------------------------------
(***************************************************************************)
(* How a load or store finds its device.  membus.c decodes an address by a *)
(* chain of tests, one chain per width and direction; rv_membus.c puts its *)
(* own chain in front and translates RP2350 block addresses to RP2040 ones *)
(* before it falls through.  The chip is a flag (membus_rp2350_mode), and  *)
(* the two memory maps reuse each other's addresses for other blocks.      *)
(*                                                                         *)
(* An address is its 4 KB page and its offset.  Every block has one plain  *)
(* register, and a word is the set of its byte lanes that are not zero.    *)
(***************************************************************************)
EXTENDS Naturals, FiniteSetsExt, Sequences

CONSTANT Cores       \* the processors checked: "m0" (RP2040), "m33" and "rv" (RP2350)

VARIABLE bus

Lanes == 0..3
Nowhere == "nowhere"   \* a decoded address with no register behind it

Rp2350(core) == core # "m0"

\* addr & ~0x3000: the block an address belongs to, atomic aliases stripped.
Block(page) == (page \div 4) * 4

-----------------------------------------------------------------------------
(* The memory maps, as firmware sees them: block name -> first page.       *)

Rp2040Map ==
    [syscfg |-> \h40004, clocks |-> \h40008, resets |-> \h4000C, psm |-> \h40010,
     io_bank0 |-> \h40014, io_qspi |-> \h40018, pads_bank0 |-> \h4001C,
     pads_qspi |-> \h40020, xosc |-> \h40024, pll_sys |-> \h40028, pll_usb |-> \h4002C,
     busctrl |-> \h40030, uart0 |-> \h40034, uart1 |-> \h40038, spi0 |-> \h4003C,
     spi1 |-> \h40040, i2c0 |-> \h40044, i2c1 |-> \h40048, adc |-> \h4004C,
     pwm |-> \h40050, timer |-> \h40054, watchdog |-> \h40058, rosc |-> \h40060,
     rtc |-> \h4005C, vreg |-> \h40064, ram |-> \h20000, xip_sram |-> \h15000,
     dma |-> \h50000, usb |-> \h50110, pio0 |-> \h50200, pio1 |-> \h50300]

Rp2350Map ==
    [ram |-> \h20000, syscfg |-> \h40008, clocks |-> \h40010, psm |-> \h40018,
     resets |-> \h40020, io_bank0 |-> \h40028, io_qspi |-> \h40030, pads_bank0 |-> \h40038,
     pads_qspi |-> \h40040, xosc |-> \h40048, pll_sys |-> \h40050, pll_usb |-> \h40058,
     accessctrl |-> \h40060, busctrl |-> \h40068, uart0 |-> \h40070, uart1 |-> \h40078,
     spi0 |-> \h40080, spi1 |-> \h40088, i2c0 |-> \h40090, i2c1 |-> \h40098,
     adc |-> \h400A0, pwm |-> \h400A8, timer |-> \h400B0, timer1 |-> \h400B8,
     hstx |-> \h400C0, qmi |-> \h400D0, watchdog |-> \h400D8, rosc |-> \h400E8,
     trng |-> \h400F0, powman |-> \h40100, ticks |-> \h40108, otp |-> \h40120,
     coresight |-> \h40140, glitch |-> \h40158, dma |-> \h50000, usb |-> \h50110,
     pio0 |-> \h50200, pio1 |-> \h50300, pio2 |-> \h50400]

MemMap(core) == CASE core = "off" -> << >> [] core = "m0" -> Rp2040Map [] OTHER -> Rp2350Map

-----------------------------------------------------------------------------
(* The *_match functions: rows <<first page, size, register>>.  A row of   *)
(* the 16 KB tests has size 0x1000.                                        *)

UartMatch(rp2350) ==
    {<<\h40034, \h1000, "uart0">>, <<\h40038, \h1000, "uart1">>} \cup
    (IF rp2350 THEN {<<\h40070, \h1000, "uart0">>, <<\h40078, \h1000, "uart1">>} ELSE {})

SpiMatch(rp2350) ==
    {<<\h4003C, \h1000, "spi0">>, <<\h40040, \h1000, "spi1">>} \cup
    (IF rp2350 THEN {<<\h40080, \h1000, "spi0">>, <<\h40088, \h1000, "spi1">>} ELSE {})

I2cMatch == {<<\h40044, \h1000, "i2c0">>, <<\h40048, \h1000, "i2c1">>}

PwmMatch(rp2350) ==
    {<<\h40050, \h1000, "pwm">>} \cup (IF rp2350 THEN {<<\h400A8, \h1000, "pwm">>} ELSE {})

DmaMatch == {<<\h50000, \h4C0, "dma">>}

PioMatch == {<<\h50200, \h1000, "pio0">>, <<\h50300, \h1000, "pio1">>,
             <<\h50400, \h1000, "pio2">>}

UsbMatch == {<<\h50100, \h1000, "dpram">>, <<\h50110, \h1000, "usb">>}

RtcMatch == {<<\h4005C, \h30, "rtc">>}

IoQspiMatch == {<<\h40018, \h60, "io_qspi">>}

PadsQspiMatch(rp2350) ==
    {<<IF rp2350 THEN \h40040 ELSE \h40020, \h20, "pads_qspi">>}

BusctrlMatch == {<<\h40030, \h1000, "busctrl">>}

\* gpio_bus_match: IO_BANK0 and PADS_BANK0 at the active chip's bases only.
GpioBusMatch(rp2350) ==
    IF rp2350 THEN {<<\h40028, \h400, "io_bank0">>, <<\h40038, \hC0, "pads_bank0">>}
              ELSE {<<\h40014, \h200, "io_bank0">>, <<\h4001C, \h80, "pads_bank0">>}

AdcMatch(rp2350) ==
    {<<\h4004C, \h1000, "adc">>} \cup (IF rp2350 THEN {<<\h400A0, \h1000, "adc">>} ELSE {})

\* The RP2350 clock-domain bases, decoded first by clocks_read32 and
\* clocks_write32: 0x40010000 and 0x40058000 are other blocks on the RP2040.
Rp2350Clocks ==
    {<<\h40020, \h1000, "resets">>, <<\h40010, \h1000, "clocks">>,
     <<\h40048, \h1000, "xosc">>, <<\h40050, \h1000, "pll_sys">>,
     <<\h40058, \h1000, "pll_usb">>, <<\h400D8, \h1000, "watchdog">>,
     <<\h40018, \h1000, "psm">>, <<\h400E8, \h1000, "rosc">>}

Rp2040Clocks ==
    {<<\h4000C, \h1000, "resets">>, <<\h40008, \h1000, "clocks">>,
     <<\h40024, \h1000, "xosc">>, <<\h40028, \h1000, "pll_sys">>,
     <<\h4002C, \h1000, "pll_usb">>, <<\h40058, \h1000, "watchdog">>,
     <<\h40010, \h1000, "psm">>, <<\h40060, \h1000, "rosc">>}

IsClocksAddr(rp2350) ==
    IF rp2350
      THEN Rp2350Clocks \cup {r \in Rp2040Clocks : \A q \in Rp2350Clocks : q[1] # r[1]}
      ELSE Rp2040Clocks

\* rp2350_periph_match and the dispatch behind it.  ACCESSCTRL is matched at
\* its own base but dispatched at 0x40160000, so nothing answers.
PeriphMatch ==
    {<<\h40108, \h100, "ticks">>, <<\h40100, \h100, "powman">>, <<\h400D0, \h100, "qmi">>,
     <<\h40120, \h100, "otp">>, <<\h400B8, \h100, "timer1">>, <<\h400B0, \h100, "timer">>,
     <<\h40158, \h20, "glitch">>, <<\h40140, \h40, "coresight">>,
     <<\h40060, \h100, Nowhere>>}

\* The rows each test of a chain answers to.
Rows(test, rp2350) ==
    CASE test = "uart" -> UartMatch(rp2350)
      [] test = "spi" -> SpiMatch(rp2350)
      [] test = "i2c" -> I2cMatch
      [] test = "pwm" -> PwmMatch(rp2350)
      [] test = "dma" -> DmaMatch
      [] test = "pio" -> PioMatch
      [] test = "usb" -> UsbMatch
      [] test = "rtc" -> RtcMatch
      [] test = "io_qspi" -> IoQspiMatch
      [] test = "pads_qspi" -> PadsQspiMatch(rp2350)
      [] test = "busctrl" -> BusctrlMatch
      [] test = "gpio" -> GpioBusMatch(rp2350)
      [] test = "adc" -> AdcMatch(rp2350)
      [] test = "clocks" -> IsClocksAddr(rp2350)
      [] test = "periph" -> IF rp2350 THEN PeriphMatch ELSE {}
      [] test = "timers" -> IF rp2350 THEN {<<\h400B0, \h100, "timer">>,
                                            <<\h400B8, \h100, "timer1">>} ELSE {}
      [] test = "timer" -> {<<\h40054, \h1000, "timer">>}
      [] test = "ram" -> {<<\h20000, \h1000, "ram">>}
      [] test = "xip_sram" -> {<<\h15000, \h1000, "xip_sram">>}
      [] test = "vreg" -> {<<\h40064, \hC, "vreg">>}
      [] test = "syscfg" -> {<<\h40004, \h20, "syscfg">>}
      [] test = "hstx" -> {<<\h400C0, \h30, "hstx">>}
      [] test = "trng" -> {<<\h400F0, \h200, "trng">>}
      [] test = "ticks" -> {<<\h40108, \h20, "ticks_stub">>}
      [] test = "otp" -> {<<\h40120, \h200, Nowhere>>}
      [] test = "rv_direct" -> {<<\h40018, \h1000, "psm">>, <<\h40030, \h1000, "io_qspi">>,
                                <<\h40040, \h1000, "pads_qspi">>, <<\h40098, \h1000, "i2c1">>,
                                <<\h400A8, \h1000, "pwm">>, <<\h400D8, \h1000, "watchdog">>}
      [] test = "rv_clocks" -> Rp2350Clocks

Hits(test, rp2350, page, off) ==
    {r \in Rows(test, rp2350) : Block(page) = r[1] /\ off < r[2]}

\* The first test of a chain that answers, with the register it reaches.
Decode(chain, rp2350, page, off) ==
    LET answering == {i \in DOMAIN chain : Hits(chain[i], rp2350, page, off) # {}}
        first == Min(answering)
    IN  IF answering = {} THEN [test |-> "none", reg |-> Nowhere]
        ELSE [test |-> chain[first],
              reg |-> (CHOOSE r \in Hits(chain[first], rp2350, page, off) : TRUE)[3]]

-----------------------------------------------------------------------------
(* The chains.                                                             *)

\* Memory windows and the blocks tested before GPIO; RAM is the fast path.
CoreTests == <<"ram", "xip_sram", "uart", "timers", "timer", "gpio">>


\* The shared peripherals, in the order mem_write32 and mem_read32 agree on.
SharedTests == <<"clocks", "adc", "spi", "i2c", "pwm", "dma", "pio", "usb", "rtc",
                 "io_qspi", "pads_qspi", "busctrl", "vreg", "syscfg">>

\* mem_write32 asks the stubs before rp2350_periph, mem_read32 after it.
WriteTail == <<"hstx", "trng", "ticks", "periph">>
ReadTail  == <<"periph", "trng", "otp", "hstx", "ticks">>

Write32Chain == CoreTests \o SharedTests \o WriteTail
Read32Chain  == CoreTests \o SharedTests \o ReadTail

\* mem_write16 and mem_write8 know fewer devices; the others drop the store.
Write16Chain == <<"xip_sram", "ram", "usb", "gpio", "uart", "spi", "dma", "pio">>
Write8Chain  == <<"xip_sram", "ram", "usb", "gpio", "uart", "pio", "spi">>

\* mem_read16 and mem_read8 share one order; it has no SPI.
NarrowReadChain == <<"xip_sram", "ram", "gpio", "usb", "uart", "dma", "pio">>

\* rv_mem_write32 and rv_mem_read32, up to the fall-through.
RvDirectTests == <<"ram", "rv_direct">>
RvNativeTests == <<"periph", "rv_clocks", "spi">>
RvChain == RvDirectTests \o RvNativeTests

\* rv_translate_shared_addr: the RP2350 block goes to its RP2040 twin.
Translated == {"syscfg", "clocks", "psm", "resets", "io_bank0", "io_qspi", "pads_bank0",
               "pads_qspi", "xosc", "pll_sys", "pll_usb", "busctrl", "uart0", "uart1",
               "spi0", "spi1", "i2c0", "i2c1", "adc", "pwm", "timer", "watchdog", "rosc"}

RvTranslateSharedAddr(page) ==
    LET twins == {b \in Translated : Rp2350Map[b] = Block(page)}
    IN  IF twins = {} THEN page
        ELSE Rp2040Map[CHOOSE b \in twins : TRUE] + (page % 4)

\* sram_alias_translate: 264 KB at 0x21000000 mirror the SRAM.
SramAliasTranslate(page) ==
    IF page \in \h21000..\h21041 THEN page - \h1000 ELSE page

\* The register a word access reaches, and the test that claimed it.
Route(core, chain, page, off) ==
    LET own == Decode(RvChain, TRUE, SramAliasTranslate(page), off)
    IN  IF core = "rv"
          THEN IF own.test # "none" THEN own
               ELSE Decode(chain, TRUE, RvTranslateSharedAddr(page), off)
          ELSE Decode(chain, Rp2350(core), SramAliasTranslate(page), off)

\* The RV32 16-bit and 8-bit accesses: SRAM, then (bytes only) the RP2350
\* peripherals, then the shared narrow chain at the translated address.
NarrowRoute(core, width, chain, page, off) ==
    LET own == Decode(IF width = 2 THEN <<"ram">> ELSE <<"ram", "periph">>, TRUE,
                      SramAliasTranslate(page), off)
    IN  IF core = "rv" THEN IF own.test # "none" THEN own
                            ELSE Decode(chain, TRUE, RvTranslateSharedAddr(page), off)
        ELSE Decode(chain, Rp2350(core), SramAliasTranslate(page), off)

-----------------------------------------------------------------------------
(* Accesses.                                                               *)

Aliases == 0..3

\* The atomic aliases of every block: plain, XOR, SET, CLR.
ApplyAliasWrite(current, val, alias) ==
    CASE alias = 0 -> val
      [] alias = 1 -> SymDiff(current, val)
      [] alias = 2 -> current \cup val
      [] alias = 3 -> current \ val

\* Tests whose write drops the alias bits and stores the value as it is.
AliasBlind(core) == {"hstx", "trng", "ticks"} \cup (IF core = "rv" THEN {"spi"} ELSE {})

RegValue(b, reg) == IF reg = Nowhere THEN {} ELSE b.reg[reg]

\* mem_read32 / rv_mem_read32 of a block's register.
ReadWord(b, core, page, off) ==
    RegValue(b, Route(core, Read32Chain, page, off).reg)

Store(b, reg, val) == IF reg = Nowhere THEN b ELSE [b EXCEPT !.reg[reg] = val]

\* mem_write32 / rv_mem_write32: an alias reads the register the writer's own
\* decode reached, except that the RV clock blocks read over the shared bus.
WriteWord(b, core, page, off, val) ==
    LET to == Route(core, Write32Chain, page, off)
        cur == IF to.test = "rv_clocks" THEN ReadWord(b, "m33", Block(page), off)
               ELSE RegValue(b, to.reg)
        alias == IF to.test \in AliasBlind(core) \cup {"ram", "xip_sram"} THEN 0 ELSE page % 4
    IN  Store(b, to.reg, ApplyAliasWrite(cur, val, alias))

\* Byte lanes lane .. lane+width-1 of a word.
Span(lane, width) == {l \in Lanes : l >= lane /\ l < lane + width}

\* The read-modify-write of a narrow store.  DMA and PIO clear one lane only,
\* whatever the width.
Merge(cur, lane, width, val, test) ==
    LET cleared == IF test \in {"dma", "pio"} THEN Span(lane, 1) ELSE Span(lane, width)
    IN  (cur \ cleared) \cup ({l + lane : l \in val} \cap Lanes)

\* mem_write16 and mem_write8 of the plain alias.
WriteNarrow(b, core, page, off, lane, width, val) ==
    LET to == NarrowRoute(core, width, IF width = 2 THEN Write16Chain ELSE Write8Chain, page, off)
    IN  Store(b, to.reg, Merge(RegValue(b, to.reg), lane, width, val, to.test))

\* mem_read16 and mem_read8: the lanes of the word, shifted down.  The UART
\* gets the unaligned offset, which names no register; a byte nobody answers
\* reads 0xFF, a halfword 0.
ReadNarrow(b, core, page, off, lane, width) ==
    LET to == NarrowRoute(core, width, NarrowReadChain, page, off)
    IN  IF to.test = "none" THEN IF width = 1 THEN {0} ELSE {}
        ELSE IF to.test = "uart" /\ lane # 0 THEN {}
        ELSE {l - lane : l \in RegValue(b, to.reg) \cap Span(lane, width)}

-----------------------------------------------------------------------------
(* Firmware drives one block, the state records what its register should   *)
(* hold (spec) and what every register does hold.                          *)

RegOffset == 8     \* inside every block

Registers == DOMAIN Rp2040Map \cup DOMAIN Rp2350Map \cup {"dpram", "ticks_stub"}

WordValues == {{0, 1}, {1, 2, 3}}
NarrowValues(width) == SUBSET (0..(width - 1))

\* half: the register was last changed through a 16-bit store of HalfMerges.
Init == bus = [core |-> "off", blk |-> "none", spec |-> {}, half |-> FALSE,
               reg |-> [r \in Registers |-> {}]]

\* main.c picks the chip from the firmware image or the command line.
PowerOn == bus.core = "off" /\ \E c \in Cores : bus' = [bus EXCEPT !.core = c]

Use == /\ bus.core # "off" /\ bus.blk = "none"
       /\ \E b \in DOMAIN MemMap(bus.core) : bus' = [bus EXCEPT !.blk = b]

\* The blocks whose narrow stores reach a register.
NarrowBlocks(core, width) ==
    {"ram", "xip_sram", "usb", "uart0", "uart1", "spi0", "spi1", "pio0", "pio1", "pio2"}
    \cup (IF core = "m0" THEN {"pads_bank0"} ELSE {})
    \cup (IF core = "rv" THEN {} ELSE {"io_bank0"})
    \cup (IF core = "rv" /\ width = 1
            THEN {"timer", "timer1", "qmi", "powman", "ticks", "otp", "glitch", "coresight"}
            ELSE {})

\* Blocks that take a 16-bit store and clear only one of its two lanes.
HalfMerges == {"dma", "pio0", "pio1", "pio2"}

\* The blocks a narrow load reaches.
NarrowReads(core, width) ==
    {"ram", "xip_sram", "usb", "uart0", "uart1", "dma", "pio0", "pio1", "pio2"}
    \cup (IF core = "rv" THEN {} ELSE {"io_bank0", "pads_bank0"})
    \cup (IF core = "rv" /\ width = 1
            THEN {"timer", "timer1", "qmi", "powman", "ticks", "otp", "glitch", "coresight"}
            ELSE {})

WordAccess ==
    /\ bus.blk # "none"
    /\ \E alias \in IF bus.blk \in {"ram", "xip_sram"} THEN {0} ELSE Aliases, val \in WordValues :
          bus' = [WriteWord(bus, bus.core, MemMap(bus.core)[bus.blk] + alias, RegOffset, val)
                    EXCEPT !.spec = ApplyAliasWrite(bus.spec, val, alias),
                           !.half = bus.half /\ alias # 0]

\* A narrow store replaces its lanes in a block that takes narrow stores of
\* this width, and is dropped by the others.
NarrowAccess ==
    /\ bus.blk # "none"
    /\ \E width \in {1, 2} : \E lane \in {l \in Lanes : l % width = 0}, val \in NarrowValues(width) :
          LET halfMerged == width = 2 /\ bus.blk \in HalfMerges
              taken == halfMerged \/ bus.blk \in NarrowBlocks(bus.core, width)
              merged == (bus.spec \ Span(lane, width)) \cup {l + lane : l \in val}
          IN  bus' = [WriteNarrow(bus, bus.core, MemMap(bus.core)[bus.blk], RegOffset,
                                  lane, width, val)
                        EXCEPT !.spec = IF taken THEN merged ELSE bus.spec,
                               !.half = bus.half \/ halfMerged]

\* The same memory through its mirror at 0x21000000.
MirrorAccess ==
    /\ bus.blk = "ram"
    /\ \E val \in WordValues :
          bus' = [WriteWord(bus, bus.core, MemMap(bus.core).ram + \h1000, RegOffset, val)
                    EXCEPT !.spec = val]

Next == PowerOn \/ Use \/ WordAccess \/ NarrowAccess \/ MirrorAccess

Spec == Init /\ [][Next]_bus

-----------------------------------------------------------------------------

(* The RP2350 blocks that the chains do not bring to their own register.   *)

\* No test answers at the block's base, or a match without a register.
Unmatched == [m0 |-> {}, m33 |-> {"busctrl", "i2c0", "i2c1"},
              rv |-> {"accessctrl", "io_bank0", "pads_bank0"}, off |-> {}]

\* A test for a block of the other chip, or a narrow one, answers first.
Shadowed == [m0 |-> {}, m33 |-> {"accessctrl", "io_qspi", "pads_bank0", "pads_qspi", "syscfg"},
             rv |-> {"uart1"}, off |-> {}]

\* Written to one register and read from another.
Torn == [m0 |-> {}, m33 |-> {"ticks"}, rv |-> {}, off |-> {}]

\* The XOR, SET and CLR aliases store the value as it is.
AliasDropped == [m0 |-> {}, m33 |-> {"hstx", "trng"},
                 rv |-> {"hstx", "trng", "spi0", "spi1"}, off |-> {}]

Divergent(core) == UNION {Unmatched[core], Shadowed[core], Torn[core], AliasDropped[core]}

\* Block b holds and reads back, at every width it can be loaded with, the
\* value expected.  A UART is loaded narrow at its first lane only.
Answers(b, expected) ==
    /\ bus.reg[b] = expected
    /\ ReadWord(bus, bus.core, MemMap(bus.core)[b], RegOffset) = expected
    /\ \A w \in {1, 2} : b \in NarrowReads(bus.core, w) =>
          \A lane \in IF b \in {"uart0", "uart1"} THEN {0} ELSE {0, w, 4 - w} :
              ReadNarrow(bus, bus.core, MemMap(bus.core)[b], RegOffset, lane, w)
                  = {l - lane : l \in expected \cap Span(lane, w)}


\* The README's line 75, "All peripherals support RP2040 atomic register aliases
\* (SET/CLR/XOR)", and the memory map that docs/ROADMAP.md:62 calls 100%, for
\* words: the block in use holds what the word accesses made of it.
EveryBlockAnswers ==
    bus.blk # "none" /\ ~bus.half =>
        ReadWord(bus, bus.core, MemMap(bus.core)[bus.blk], RegOffset) = bus.spec

\* The comment at membus.c:1706-1707 says "mem_write16 already routes the paired
\* halfword lane" of the PIO: a 16-bit store replaces both bytes.
HalfStoresReplace == bus.half => bus.reg[bus.blk] = bus.spec

\* The comment at membus.c:223-227 says the RP2350 base of PADS_BANK0 is decoded
\* so that a pad write no longer "lands on the UART1 alias": a pad store leaves
\* UART1 alone.
PadsNotUart1 == bus.blk = "pads_bank0" => bus.reg["uart1"] = {}
=============================================================================
