----------------------------- MODULE CardImage ------------------------------
(***************************************************************************)
(* The backing file of an SD card or eMMC (sdcard.c and emmc.c, the same   *)
(* code twice): blocks written by the guest, the flush that copies the     *)
(* card to <path>.tmp and renames it over the image, and the death and     *)
(* restart of the process at any point.  A flush is several steps, because *)
(* the process may die between them and because the main loop of the       *)
(* threaded mode flushes after corepool_unlock (main.c:1532), while the    *)
(* core threads run on.                                                    *)
(***************************************************************************)
EXTENDS Integers, Sequences

CONSTANTS
    Threads,     \* whether core threads run during a flush
    NBlocks,     \* blocks of the card
    MaxWrites    \* bound on the writes of a history

VARIABLE ci

Blocks == 1..NBlocks

\* A block is the number of the write that filled it, 0 when blank.
Blank == [b \in Blocks |-> 0]

-----------------------------------------------------------------------------
Cards ==
    [data : [Blocks -> Nat], dirty : BOOLEAN, file : [Blocks -> Nat], tmp : Seq(Nat),
     at : {"run", "copy", "rename", "clear"}, hist : Seq([Blocks -> Nat])]

\* sdcard_init without an image: a blank card.  at is where the flush stands,
\* hist the card after each write so far (not in the program).
ImageInit ==
    ci = [data |-> Blank, dirty |-> FALSE, file |-> Blank, tmp |-> <<>>,
          at |-> "run", hist |-> <<Blank>>]

SetCard(new) == ci' = new

\* A block arrives with a valid token: memcpy, then dirty.
WriteBlock ==
    /\ ci.at = "run" \/ Threads
    /\ Len(ci.hist) <= MaxWrites
    /\ \E b \in Blocks :
         LET data == [ci.data EXCEPT ![b] = Len(ci.hist)]
         IN SetCard([ci EXCEPT !.data = data, !.dirty = TRUE, !.hist = Append(@, data)])

\* Nothing to do on a clean card; fopen("wb") truncates an old temporary file.
Flush ==
    /\ ci.at = "run" /\ ci.dirty
    /\ SetCard([ci EXCEPT !.at = "copy", !.tmp = <<>>])

\* Variant: the image itself is opened for writing.
CopyInPlace ==
    /\ ci.at = "copy"
    /\ LET b == Len(ci.tmp) + 1
       IN SetCard([ci EXCEPT !.tmp = Append(@, ci.data[b]), !.file[b] = ci.data[b],
                         !.at = IF b = NBlocks THEN "rename" ELSE "copy"])

\* fwrite: the card goes to the file block by block.
Copy ==
    /\ ci.at = "copy"
    /\ LET b == Len(ci.tmp) + 1
       IN SetCard([ci EXCEPT !.tmp = Append(@, ci.data[b]),
                         !.at = IF b = NBlocks THEN "rename" ELSE "copy"])

Rename ==
    /\ ci.at = "rename"
    /\ SetCard([ci EXCEPT !.file = ci.tmp, !.tmp = <<>>, !.at = "clear"])

Clear ==
    /\ ci.at = "clear"
    /\ SetCard([ci EXCEPT !.dirty = FALSE, !.at = "run"])

\* The process dies, and the next one loads the image.  The writes the image
\* does not hold are gone; an old temporary file may stay.
Crash ==
    \E n \in 1..Len(ci.hist) :
        /\ ci.file = ci.hist[n]
        /\ SetCard([ci EXCEPT !.data = ci.file, !.dirty = FALSE, !.at = "run",
                          !.hist = SubSeq(@, 1, n)])

ImageNext == WriteBlock \/ Flush \/ Copy \/ Rename \/ Clear \/ Crash

ImageSpec == ImageInit /\ [][ImageNext]_ci

-----------------------------------------------------------------------------
\* Wherever the process dies, the image is the card as it was after some
\* prefix of the guest's writes, never a mixture of two moments: "write to temp
\* + atomic rename so a crash can't truncate the image" (sdcard.c:149).
ImageIsAPrefix == \E n \in 1..Len(ci.hist) : ci.file = ci.hist[n]

\* A card that is not dirty is in its image: "Data modified, needs flush"
\* (sdcard.h:60).  A write the flag forgets is written by no later flush, not
\* even by the one of sdcard_cleanup.
DirtyTracked == ci.at = "run" /\ ~ci.dirty => ci.file = ci.data

\* Both, for a main loop that runs the cores itself.
ImageSafe == ImageIsAPrefix /\ DirtyTracked

\* What makes it inductive: the card is what its history says, and a flush no
\* write interrupts has copied a prefix of the card as it still is.
FlushInv ==
    /\ ci \in Cards
    /\ Len(ci.hist) # 0 /\ ci.data = ci.hist[Len(ci.hist)]
    /\ ci.at = "copy" => /\ Len(ci.tmp) < NBlocks
                         /\ \A b \in 1..Len(ci.tmp) : ci.tmp[b] = ci.data[b]
    /\ ci.at = "rename" => ci.tmp = ci.data
    /\ ci.at = "clear" => ci.file = ci.data
    /\ ImageSafe
=============================================================================
