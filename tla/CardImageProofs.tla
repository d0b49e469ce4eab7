--------------------------- MODULE CardImageProofs --------------------------
(***************************************************************************)
(* A card whose main loop runs the cores itself never loses a write and    *)
(* never has a torn image, for every number of blocks and every history.   *)
(***************************************************************************)
EXTENDS CardImage, TLAPS

\* A card has blocks, and no core thread runs beside the flush.
Unthreaded == NBlocks \in Nat \ {0} /\ MaxWrites \in Nat /\ ~Threads

\* A new card and its missing image are both blank.
LEMMA InitFlushInv == Unthreaded /\ ImageInit => FlushInv
BY DEF Unthreaded, ImageInit, FlushInv, ImageSafe, ImageIsAPrefix, DirtyTracked, Blank, Blocks, Cards

\* A block written outside a flush leaves the card dirty and ends the history.
LEMMA WriteBlockFlushInv == Unthreaded /\ FlushInv /\ WriteBlock => FlushInv'
<1> SUFFICES ASSUME Unthreaded, FlushInv, WriteBlock PROVE FlushInv'
  OBVIOUS
<1> USE DEF Unthreaded, Cards
<1>1. PICK b \in Blocks :
        ci' = [ci EXCEPT !.data = [ci.data EXCEPT ![b] = Len(ci.hist)], !.dirty = TRUE,
                         !.hist = Append(@, [ci.data EXCEPT ![b] = Len(ci.hist)])]
  BY Zenon DEF WriteBlock, SetCard
<1> DEFINE d == [ci.data EXCEPT ![b] = Len(ci.hist)]
<1>2. d \in [Blocks -> Nat]
  BY DEF FlushInv
<1> HIDE DEF d
<1>3. ci' = [ci EXCEPT !.data = d, !.dirty = TRUE, !.hist = Append(@, d)]
  BY <1>1 DEF d
<1>4. /\ ci'.data = d /\ ci'.dirty = TRUE /\ ci'.file = ci.file /\ ci'.at = "run"
      /\ ci'.hist = Append(ci.hist, d)
      /\ ci' \in Cards
  <2>1. ci \in Cards /\ ci.at = "run"
    BY DEF FlushInv, WriteBlock
  <2> DEFINE h == Append(ci.hist, d)
  <2>2. h \in Seq([Blocks -> Nat]) /\ ci' = [ci EXCEPT !.data = d, !.dirty = TRUE, !.hist = h]
    BY <1>2, <1>3, <2>1
  <2> HIDE DEF h
  <2>3. /\ ci'.data = d /\ ci'.dirty = TRUE /\ ci'.file = ci.file /\ ci'.at = "run"
        /\ ci'.hist = h /\ ci' \in Cards
    BY <1>2, <2>1, <2>2, Zenon
  <2> QED BY <2>3 DEF h
<1>5. /\ Len(ci'.hist) = Len(ci.hist) + 1 /\ ci'.hist[Len(ci.hist) + 1] = d
      /\ \A n \in 1..Len(ci.hist) : ci'.hist[n] = ci.hist[n]
  BY <1>2, <1>4 DEF FlushInv
<1>6. ImageIsAPrefix'
  BY <1>4, <1>5 DEF FlushInv, ImageSafe, ImageIsAPrefix
<1> QED BY <1>4, <1>5, <1>6 DEF FlushInv, ImageSafe, DirtyTracked

\* Opening the temporary file.
LEMMA FlushFlushInv == Unthreaded /\ FlushInv /\ Flush => FlushInv'
<1> SUFFICES ASSUME Unthreaded, FlushInv, Flush PROVE FlushInv'
  OBVIOUS
<1>1. /\ ci'.data = ci.data /\ ci'.dirty = ci.dirty /\ ci'.file = ci.file /\ ci'.at = "copy"
      /\ ci'.tmp = <<>> /\ ci'.hist = ci.hist
      /\ ci' \in Cards
  <2>1. ci \in Cards /\ ci' = [ci EXCEPT !.at = "copy", !.tmp = <<>>]
    BY DEF FlushInv, Flush, SetCard
  <2> DEFINE e == <<>>
  <2>2. e \in Seq(Nat) /\ ci' = [ci EXCEPT !.at = "copy", !.tmp = e]
    BY <2>1
  <2> HIDE DEF e
  <2>3. /\ ci'.data = ci.data /\ ci'.dirty = ci.dirty /\ ci'.file = ci.file /\ ci'.at = "copy"
        /\ ci'.tmp = e /\ ci'.hist = ci.hist /\ ci' \in Cards
    BY <2>1, <2>2, Zenon DEF Cards
  <2> QED BY <2>3 DEF e
<1> QED
  BY <1>1 DEF Unthreaded, FlushInv, ImageSafe, ImageIsAPrefix, DirtyTracked

\* The copy stays a prefix of the card, and is the card when it is complete.
LEMMA CopyFlushInv == Unthreaded /\ FlushInv /\ Copy => FlushInv'
<1> SUFFICES ASSUME Unthreaded, FlushInv, Copy PROVE FlushInv'
  OBVIOUS
<1> DEFINE b == Len(ci.tmp) + 1
<1>1. b \in Blocks /\ ci.tmp \in Seq(Nat) /\ ci.data \in [Blocks -> Nat]
  BY DEF FlushInv, Copy, Blocks, Unthreaded, Cards
<1>2. ci.data[b] \in Nat
  BY <1>1
<1>3. /\ ci'.data = ci.data /\ ci'.dirty = ci.dirty /\ ci'.file = ci.file /\ ci'.hist = ci.hist
      /\ ci'.tmp = Append(ci.tmp, ci.data[b])
      /\ ci'.at = IF b = NBlocks THEN "rename" ELSE "copy"
      /\ ci' \in Cards
  <2> DEFINE t == Append(ci.tmp, ci.data[b])
             w == IF b = NBlocks THEN "rename" ELSE "copy"
  <2>1. ci \in Cards /\ ci' = [ci EXCEPT !.tmp = t, !.at = w]
    BY DEF FlushInv, Copy, SetCard
  <2>2. t \in Seq(Nat) /\ w \in {"rename", "copy"}
    BY <1>1, <1>2
  <2> HIDE DEF t, w
  <2>3. /\ ci'.data = ci.data /\ ci'.dirty = ci.dirty /\ ci'.file = ci.file
        /\ ci'.hist = ci.hist /\ ci'.tmp = t /\ ci'.at = w /\ ci' \in Cards
    BY <2>1, <2>2, Zenon DEF Cards
  <2> QED BY <2>3 DEF t, w
<1>4. /\ Len(ci'.tmp) = b /\ ci'.tmp \in Seq(Nat)
      /\ \A k \in 1..b : ci'.tmp[k] = ci.data[k]
  BY <1>1, <1>2, <1>3 DEF FlushInv, Copy
<1>5. ci'.at = "rename" => ci'.tmp = ci'.data
  <2> SUFFICES ASSUME b = NBlocks PROVE ci'.tmp = ci.data
    BY <1>3
  <2>1. DOMAIN ci'.tmp = Blocks /\ DOMAIN ci.data = Blocks
    BY <1>1, <1>4 DEF Blocks
  <2>2. ci'.tmp = [k \in Blocks |-> ci'.tmp[k]]
    BY <1>4, <2>1
  <2>3. ci.data = [k \in Blocks |-> ci.data[k]]
    BY <1>1
  <2> QED BY <1>4, <2>2, <2>3, Zenon DEF Blocks
<1>6. ci'.at = "copy" => b < NBlocks
  BY <1>1, <1>3 DEF Blocks, Unthreaded
<1>7. ImageSafe'
  BY <1>3 DEF FlushInv, ImageSafe, ImageIsAPrefix, DirtyTracked
<1> QED
  BY <1>3, <1>4, <1>5, <1>6, <1>7 DEF FlushInv

\* The image becomes the card, which is the end of the history.
LEMMA RenameFlushInv == Unthreaded /\ FlushInv /\ Rename => FlushInv'
<1> SUFFICES ASSUME Unthreaded, FlushInv, Rename PROVE FlushInv'
  OBVIOUS
<1>1. /\ ci'.data = ci.data /\ ci'.dirty = ci.dirty /\ ci'.file = ci.data /\ ci'.at = "clear"
      /\ ci'.hist = ci.hist
      /\ ci' \in Cards
  <2>1. ci \in Cards /\ ci.tmp = ci.data
    BY DEF FlushInv, Rename
  <2>2. ci' = [ci EXCEPT !.file = ci.data, !.tmp = <<>>, !.at = "clear"]
    BY <2>1 DEF Rename, SetCard
  <2> DEFINE e == <<>>
  <2>3. e \in Seq(Nat) /\ ci' = [ci EXCEPT !.file = ci.data, !.tmp = e, !.at = "clear"]
    BY <2>2
  <2> HIDE DEF e
  <2> QED BY <2>1, <2>3, Zenon DEF Cards
<1>2. Len(ci.hist) \in 1..Len(ci.hist)
  BY DEF FlushInv, Cards
<1>3. ImageIsAPrefix'
  BY <1>1, <1>2 DEF FlushInv, ImageIsAPrefix
<1> QED
  BY <1>1, <1>3 DEF FlushInv, ImageSafe, DirtyTracked

\* Only now is the flag cleared.
LEMMA ClearFlushInv == Unthreaded /\ FlushInv /\ Clear => FlushInv'
BY Zenon DEF Unthreaded, FlushInv, ImageSafe, ImageIsAPrefix, DirtyTracked, Clear, SetCard, Cards

\* A crash takes the card back to its image, and the history to the writes the
\* image holds.
LEMMA CrashFlushInv == Unthreaded /\ FlushInv /\ Crash => FlushInv'
<1> SUFFICES ASSUME Unthreaded, FlushInv, Crash PROVE FlushInv'
  OBVIOUS
<1>1. PICK n \in 1..Len(ci.hist) :
        /\ ci.file = ci.hist[n]
        /\ ci' = [ci EXCEPT !.data = ci.file, !.dirty = FALSE, !.at = "run",
                            !.hist = SubSeq(@, 1, n)]
  BY Zenon DEF Crash, SetCard
<1> DEFINE h == SubSeq(ci.hist, 1, n)
<1>2. h \in Seq([Blocks -> Nat]) /\ Len(h) = n /\ h[n] = ci.hist[n]
  BY <1>1 DEF FlushInv, Cards
<1> HIDE DEF h
<1>3. /\ ci'.data = ci.file /\ ci'.dirty = FALSE /\ ci'.file = ci.file /\ ci'.at = "run"
      /\ ci'.hist = h
      /\ ci' \in Cards
  BY <1>1, <1>2, Zenon DEF FlushInv, Cards, h
<1>4. ImageIsAPrefix'
  BY <1>1, <1>2, <1>3 DEF ImageIsAPrefix
<1> QED
  BY <1>1, <1>2, <1>3, <1>4 DEF FlushInv, ImageSafe, DirtyTracked

\* Whatever the number of blocks, and wherever the process dies, the image is
\* the card after a prefix of the guest's writes, and a card that sdcard_flush
\* has left clean is in its image.
THEOREM CardSafe == Unthreaded /\ ImageSpec => []ImageSafe
<1>1. Unthreaded /\ FlushInv /\ [ImageNext]_ci => FlushInv'
  <2> SUFFICES ASSUME Unthreaded, FlushInv, [ImageNext]_ci PROVE FlushInv'
    OBVIOUS
  <2>1. CASE UNCHANGED ci
    BY <2>1 DEF FlushInv, ImageSafe, ImageIsAPrefix, DirtyTracked
  <2>2. CASE ImageNext
    BY <2>2, WriteBlockFlushInv, FlushFlushInv, CopyFlushInv, RenameFlushInv, ClearFlushInv,
       CrashFlushInv DEF ImageNext
  <2> QED BY <2>1, <2>2
<1>2. FlushInv => ImageSafe
  BY DEF FlushInv
<1>3. Unthreaded => (ImageSpec => []ImageSafe)
  <2> SUFFICES ASSUME Unthreaded PROVE ImageSpec => []ImageSafe
    OBVIOUS
  <2>1. ImageInit => FlushInv
    BY InitFlushInv
  <2>2. FlushInv /\ [ImageNext]_ci => FlushInv'
    BY <1>1
  <2> QED BY <1>2, <2>1, <2>2, PTL DEF ImageSpec
<1> QED BY <1>3
=============================================================================
