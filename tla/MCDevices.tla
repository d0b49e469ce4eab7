------------------------------ MODULE MCDevices ------------------------------
(***************************************************************************)
(* The peripherals, the devices on the board and the links between         *)
(* emulators, for TLC: timers and counters, the UART, storage (SpiCards,   *)
(* CardImage, FlashFs), the WIZnet chips (EthRx to EthChip), the CYW43     *)
(* radio (Cyw43Wlan, Cyw43Bt, Cyw43Spi), the BLE peripheral (BleGatt,      *)
(* BleAtt), USB, PIO, DMA, and the sockets of vnet and wire (PeerLinks).   *)
(* As in MCMachine a behaviour exercises one part, named by focus, and st  *)
(* is the one variable of that part.  The parts that theorems are stated   *)
(* about are extended, and keep variables of their own, at rest when       *)
(* another part is exercised.  Devices.cfg and Network.cfg share the parts.*)
(***************************************************************************)
EXTENDS CardImage, Uart, EthChip, EthSockets, BleGatt

CONSTANT Parts    \* the parts that a run exercises

VARIABLES focus, st

own == <<ci, uart, ec, es, g>>
dVars == <<focus, st, own>>

\* A low word of six values, so that it wraps during a behaviour.
T == INSTANCE Timers WITH t <- st, Kinds <- {"timer0", "timer1"}, Low <- 6, Highs <- 2,
       CyclesPerUs <- 2, ChunkCap <- 3, IdleChunk <- 2, WfeBudget <- 3, Offsets <- {2, 5},
       MaxWrites <- 2

\* Month, year, leap year and century ends, and the end of the 12-bit years.
N == INSTANCE Counters WITH ct <- st, MaxReload <- 3, MaxCycles <- 8, UsPerSec <- 3,
       SecPerMin <- 2, MinPerHour <- 2, HourPerDay <- 2, MaxSecs <- 12,
       Dates <- {<<2023, 12, 31>>, <<2024, 2, 28>>, <<2023, 2, 28>>, <<2100, 2, 28>>,
                 <<2000, 2, 28>>, <<4095, 12, 31>>, <<2024, 4, 30>>}

S == INSTANCE SpiCards WITH sd <- st, Kinds <- {"sd", "emmc"}, NBlocks <- 2, AddrBlocks <- 8

\* Names that collide as 8.3 names, with and without an extension.
F == INSTANCE FlashFs WITH ff <- st, Kinds <- {"fat12", "fat16", "none"}, NClusters <- 3,
       ClusterSize <- 2, MaxSize <- 3, MaxName <- 1, MaxExt <- 1, MaxOps <- 3,
       Names <- {<< <<"a">>, <<"x">> >>, << <<"A", "b">>, <<"x">> >>, << <<"b">>, <<>> >>}

\* Rings of four cells and frames of up to four, so that every frame wraps.
Rx == INSTANCE EthRx WITH rx <- st, Ring <- 4, MaxPayload <- 3, LenMod <- 3,
        Setups <- ({"w5500", "w6300"} \X {"macraw"} \X {"head", "pointer"})
                     \cup ({"w5500", "w6300"} \X {"tcp", "udp"} \X {"pointer"})
Tx == INSTANCE EthTx WITH tx <- st, Ring <- 4, MinFrame <- 2, MaxFrame <- 3, LateReset <- FALSE,
        Setups <- {<<"w5500", "zero">>, <<"w5500", "ring">>, <<"w6300", "ring">>}

\* Block and address values with every header bit set and clear.
Frm == INSTANCE EthFrames WITH fr <- st, Links <- {"w5500", "w6300", "pio"}, MaxData <- 2,
         Blocks <- {0, 1, 3, 17}, Addresses <- {0, 16, 257, 4113, 65535}

Wl == INSTANCE Cyw43Wlan WITH w <- st, QueueCap <- 3, CreditWindow <- 2, MaxBeacons <- 2,
        MaxSends <- 4
Bt == INSTANCE Cyw43Bt WITH b <- st, B2hRing <- 4, H2bHalf <- 3, StashCap <- 2, JsCap <- 2,
        MaxMade <- 4, MaxSent <- 3
Sp == INSTANCE Cyw43Spi WITH sp <- st, Bytes <- {0, 1}, MaxWords <- 2

\* Values of every length that changes a response.
At == INSTANCE BleAtt WITH att <- st, Lengths <- {0, 2, 20, 32}, Budget <- 60,
        MaxHandle <- 65535

\* A socket that fills up within a frame, and within the backlog of two.
Pl == INSTANCE PeerLinks WITH pl <- st, Protos <- {"vnet", "wire"}, PendCap <- 2, SockCap <- 3,
        RxCap <- 4, TxCap <- 4, MaxFrames <- 3, MaxStops <- 2

\* Configurations of two and three packets, one that exceeds the buffer and whose
\* device refuses the strings.
Item(type) == [type |-> type]
Header(n) == [type |-> "header", total |-> n]
Bulk(dir, n) == [type |-> dir, ep |-> n]
Device(config, in, out, string, refuses) ==
    [config |-> config, inEp |-> in, outEp |-> out, string |-> string, refuses |-> refuses]

Us == INSTANCE Usb WITH u <- st, Pkt <- 2, AccumCap <- 5, RxCap <- 2, MaxBytes <- 3,
        MaxReboots <- 1,
        Devices <- {Device(<<Header(5), Item("iface"), Item("data"), Bulk("in", 1),
                             Bulk("out", 2)>>, 1, 2, 2, {}),
                    Device(<<Header(4), Item("data"), Bulk("in", 2), Bulk("out", 1)>>,
                           2, 1, 1, {}),
                    Device(<<Header(6), Item("iface"), Item("iface"), Item("data"),
                             Bulk("in", 1), Bulk("out", 1)>>, 1, 1, 1, {"string"})}

\* Words of two bits, so that three of them overrun a FIFO of two.
Pi == INSTANCE Pio WITH p <- st, Width <- 2, CountMod <- 16, Depth <- 2, Unit <- 2,
        Sends <- {1, 2}, Forced <- {}, MaxWords <- 3

\* A stack deeper than any nest of calls that ends.
Dm == INSTANCE Dma WITH d <- st, Base <- 16, RegBase <- 32, MaxStack <- 5, MaxTriggers <- 2

DInit ==
    /\ ImageInit /\ UartInit /\ ChipInit /\ SocketsInit /\ GattInit
    /\ \/ focus \in {"image", "uart", "chip", "sockets", "gatt"} /\ st = <<>>
       \/ focus = "timers" /\ T!Init
       \/ focus = "counters" /\ N!Init
       \/ focus = "spi" /\ S!Init
       \/ focus = "flash" /\ F!Init
       \/ focus = "rx" /\ Rx!Init
       \/ focus = "tx" /\ Tx!Init
       \/ focus = "frames" /\ Frm!Init
       \/ focus = "wlan" /\ Wl!Init
       \/ focus = "bt" /\ Bt!Init
       \/ focus = "gspi" /\ Sp!Init
       \/ focus = "att" /\ At!Init
       \/ focus = "links" /\ Pl!Init
       \/ focus = "usb" /\ Us!Init
       \/ focus = "pio" /\ Pi!Init
       \/ focus = "dma" /\ Dm!Init
    /\ focus \in Parts
    /\ focus # "gatt" => g.use = CHOOSE use \in Profiles : TRUE

In(part) == focus = part /\ UNCHANGED <<focus, own>>
Own(part) == focus = part /\ UNCHANGED <<focus, st>>

DNext ==
    \/ Own("image") /\ ImageNext /\ UNCHANGED <<uart, ec, es, g>>
    \/ Own("uart") /\ UartNext /\ UNCHANGED <<ci, ec, es, g>>
    \/ Own("chip") /\ ChipNext /\ UNCHANGED <<ci, uart, es, g>>
    \/ Own("sockets") /\ SocketsNext /\ UNCHANGED <<ci, uart, ec, g>>
    \/ Own("gatt") /\ GattNext /\ UNCHANGED <<ci, uart, ec, es>>
    \/ In("timers") /\ T!Next
    \/ In("counters") /\ N!Next
    \/ In("spi") /\ S!Next
    \/ In("flash") /\ F!Next
    \/ In("rx") /\ Rx!Next
    \/ In("tx") /\ Tx!Next
    \/ In("frames") /\ Frm!Next
    \/ In("wlan") /\ Wl!Next
    \/ In("bt") /\ Bt!Next
    \/ In("gspi") /\ Sp!Next
    \/ In("att") /\ At!Next
    \/ In("links") /\ Pl!Next
    \/ In("usb") /\ Us!Next
    \/ In("pio") /\ Pi!Next
    \/ In("dma") /\ Dm!Next

DSpec == DInit /\ [][DNext]_dVars

-----------------------------------------------------------------------------
\* Alarms fire at the first tick that reaches them, jumps while the cores sleep
\* pass none of timer 0, and time does not stand still (timer.c, timing_tick);
\* SysTick and the RTC count the elapsed time exactly, however it is cut into
\* calls (systick_tick, rtc_tick).
TimeKept ==
    /\ focus = "timers" => T!TimersHonest
    /\ focus = "counters" => N!CountersExact

\* As long as no command is sent into an unfinished transfer, a driver reads
\* the blocks it asked for and the card holds the blocks it acknowledged, for
\* every argument up to one whose block end wraps past 32 bits: that access is
\* outside the image (sdcard_spi_xfer, emmc_spi_xfer).
CardHonest == focus = "spi" => S!CardHonest

\* The flash holds exactly the files the operations made, and the flash file
\* survives a killed process with what was written through (fatfs.c, storage.c).
FlashHonest == focus = "flash" => F!FlashHonest

\* Whatever the network appends between the driver's transactions, the driver
\* reads exactly the accepted bytes, in order and none twice, and RX_RSR counts
\* the bytes not consumed, until a W5500 TCP or UDP RECV drops what came since it
\* read RX_RSR or a W6300 packet is longer than its length field; every frame sent
\* reaches the vnet with the bytes the driver wrote, and the port has the chip's
\* current MAC address (the vnet_rx, RECV, SEND and SHAR handlers of both chips).
RingsIntact ==
    /\ focus = "rx" => Rx!StreamIntact
    /\ focus = "tx" => Tx!FramesLeaveAsAddressed

\* By the end of every transfer the device has performed the accesses the driver
\* meant, over the PL022 and the PIO, single-lane reads that the PIO bridge takes
\* for quad frames left out, and a driver that waits for a word gets it
\* (w5500_spi_xfer, w6300_spi_xfer, the PIO bridges, cyw43_pio_tx_write).
TransfersDecoded ==
    /\ focus = "frames" => Frm!FramesDecoded
    /\ focus = "gspi" => Sp!TransfersExact

\* The host wake line is high while the receive queue holds a frame and, once
\* driven, only then; a join reports its events in order; credits, scan results
\* and, until the access point is renamed, its beacon are consistent (cyw43.c).
WlanHonest == focus = "wlan" => Wl!WlanHonest

\* No wake of the Bluetooth host is lost, both rings deliver in order, and a
\* command in the ring is served (the bt_ functions of cyw43.c); a discovery walk
\* of a central sees every attribute once and in order (the bt_gatt functions).
BluetoothServes ==
    /\ focus = "bt" => Bt!TransportSound
    /\ focus = "att" => At!DiscoveryComplete

\* A process takes only whole frames, only the other's, each at most once and in
\* order, whichever connections come and go: the wire protocol always, the virtual
\* network until a full socket stops a write (vnet.c, wire.c).
StreamsWhole == focus = "links" => Pl!StreamsWhole

\* The simulated USB host and the firmware never wait for each other, no buffer
\* is armed twice, the endpoints of the console are found and its bytes arrive
\* complete and in order both ways (usb.c).
UsbHonest == focus = "usb" => Us!UsbHonest

\* Words sent through the state machines are read as sent and in order, and none
\* is left when they all stall (pio.c).
PioHonest == focus = "pio" => Pi!PioHonest

\* When the register write that triggers returns, memory is what its transfers and
\* their chains should have left, and no end of a transfer goes unnoticed by the
\* interrupt handler (dma.c).
DmaHonest == focus = "dma" => Dm!DmaHonest
=============================================================================
