------------------------------ MODULE MCMachine ------------------------------
(***************************************************************************)
(* The processors and what connects them, for TLC: instructions and how    *)
(* they are fetched, interrupts of the RISC-V harts, bus and mailboxes.    *)
(* They share no state, so a behaviour exercises one part: focus names it, *)
(* and st is the one variable of that part (Sio and RvHarts, which theorems*)
(* are stated about, have variables of their own, at rest when another     *)
(* part is exercised).                                                     *)
(***************************************************************************)
EXTENDS Sio, RvHarts

TwoWords == {0, 1}

VARIABLES focus, st

mVars == <<focus, st, rvh, vars>>

\* Three-bit words; words of four one-bit bytes.
Alu == INSTANCE ThumbAlu WITH alu <- st, Width <- 3, Half <- 4
Fld == INSTANCE ThumbFields WITH fld <- st, ByteBits <- 1
Rva == INSTANCE RvAlu WITH rv <- st, ByteBits <- 1
B == INSTANCE Bus WITH bus <- st, Cores <- {"m0", "m33", "rv"}

\* Six cells of flash, the handler first, and four of RAM: a 32-bit instruction
\* and a jump inside a block, in both memories; IT blocks of both kinds.
Image(s) == [i \in 0..Len(s) - 1 |-> s[i + 1]]
Cf == INSTANCE CodeFetch WITH f <- st, RamBase <- 6, Entries <- {2, 6}, Handler <- 0, Sets <- 3,
        Blocks <- 2, MaxInsn <- 3, Unaligned <- FALSE, MaxChanges <- 1,
        Images <- {Image(<<"zero", "ret", "a", "wide", "b", "br", "a", "a", "b", "br">>),
                   Image(<<"b", "ret", "a", "mvpc", "b", "br", "a", "wide", "b", "br">>),
                   Image(<<"b", "ret", "iteq", "a", "b", "br", "it", "b", "a", "br">>)}

MInit ==
    /\ Init /\ HartsInit
    /\ \/ focus \in {"sio", "harts"} /\ st = <<>>
       \/ focus = "alu" /\ Alu!Init
       \/ focus = "fields" /\ Fld!Init
       \/ focus = "rvalu" /\ Rva!Init
       \/ focus = "bus" /\ B!Init
       \/ focus = "fetch" /\ Cf!Init

In(part) == focus = part /\ UNCHANGED <<focus, rvh, vars>>

MNext ==
    \/ focus = "sio" /\ Next /\ UNCHANGED <<focus, st, rvh>>
    \/ focus = "harts" /\ HartsNext /\ UNCHANGED <<focus, st, vars>>
    \/ In("alu") /\ Alu!Next
    \/ In("fields") /\ Fld!Next
    \/ In("rvalu") /\ Rva!Next
    \/ In("bus") /\ B!Next
    \/ In("fetch") /\ Cf!Next

MSpec == MInit /\ [][MNext]_mVars

-----------------------------------------------------------------------------
\* The instructions compute what their definitions over numbers say: condition
\* codes decide every comparison, carry chains add double words and the shift
\* encodings agree (instructions.c, thumb32.c), fields are recovered and products
\* exact (thumb32.c), RISC-V multiplies, divides, and compressed and atomic forms
\* agree (rv_cpu.c).
ArithmeticExact ==
    /\ focus = "alu" => Alu!ComparisonsDecide /\ Alu!CarryChainAdds /\ Alu!ShiftsAgree
    /\ focus = "fields" => Fld!FieldsRecovered /\ Fld!ProductsExact
    /\ focus = "rvalu" => Rva!MulDivExact /\ Rva!FormsAgree

\* Cached and compiled code is what memory holds unless flash changed behind the
\* caches, and the core executes what the architecture would (cpu_step,
\* jit_execute, rv_cpu_step).
FetchHonest == focus = "fetch" => Cf!FetchHonest

=============================================================================
