------------------------------ MODULE SioProofs -----------------------------
(***************************************************************************)
(* The ring buffers of the mailboxes implement bounded queues, for every   *)
(* FIFO_DEPTH and every set of words; and the launch of Core 1 over them   *)
(* (Core1Launch) agrees on both sides, however often it is repeated.       *)
(***************************************************************************)
EXTENDS Core1Launch, SequenceTheorems, TLAPS

\* A well-formed ring buffer.
Ring(f) == f \in Fifo /\ f.write_ptr = (f.read_ptr + f.count) % Depth

LEMMA ModSmall ==
  ASSUME NEW D \in Nat \ {0}, NEW x \in 0..(D - 1)
  PROVE  x % D = x
OBVIOUS

LEMMA ModWrap ==
  ASSUME NEW D \in Nat \ {0}, NEW x \in D..(2 * D - 1)
  PROVE  x % D = x - D
OBVIOUS

\* The two facts in one: what % Depth does to an index that ran past the end.
LEMMA Wrap ==
  ASSUME NEW x \in 0..(2 * Depth - 1)
  PROVE  x % Depth = IF x < Depth THEN x ELSE x - Depth
<1>1. CASE x < Depth
  BY <1>1, ModSmall, SioAssumption
<1>2. CASE ~(x < Depth)
  BY <1>2, ModWrap, SioAssumption
<1> QED BY <1>1, <1>2

LEMMA WrapSum ==
  ASSUME NEW r \in 0..(Depth - 1), NEW n \in 0..Depth
  PROVE  (r + n) % Depth = IF r + n < Depth THEN r + n ELSE r + n - Depth
<1> DEFINE x == r + n
<1>1. x \in 0..(2 * Depth - 1)
  BY SioAssumption
<1>2. x % Depth = IF x < Depth THEN x ELSE x - Depth
  <2> HIDE DEF x
  <2> QED BY <1>1, Wrap
<1> QED BY <1>2, SioAssumption DEF x

\* The slot of the i-th word.
LEMMA WrapSlot ==
  ASSUME NEW r \in 0..(Depth - 1), NEW i \in 1..Depth
  PROVE  /\ (r + i - 1) % Depth =
              IF r + i - 1 < Depth THEN r + i - 1 ELSE r + i - 1 - Depth
         /\ (r + i - 1) % Depth \in 0..(Depth - 1)
<1> DEFINE x == r + i - 1
<1>1. x \in 0..(2 * Depth - 1)
  BY SioAssumption
<1>2. /\ x % Depth = IF x < Depth THEN x ELSE x - Depth
      /\ x % Depth \in 0..(Depth - 1)
  <2> HIDE DEF x
  <2>1. x % Depth = IF x < Depth THEN x ELSE x - Depth
    BY <1>1, Wrap
  <2> QED BY <1>1, <2>1, SioAssumption
<1> QED BY <1>2, SioAssumption DEF x

\* Where a push writes and what it leaves: the slot n words after the front is
\* none of the n slots in use, and one further on is n + 1 after the front.
LEMMA PushIndex ==
  ASSUME NEW r \in 0..(Depth - 1), NEW n \in 0..(Depth - 1)
  PROVE  LET s == (r + n) % Depth IN
         /\ s \in 0..(Depth - 1)
         /\ (s + 1) % Depth \in 0..(Depth - 1)
         /\ (s + 1) % Depth = (r + (n + 1)) % Depth
         /\ \A i \in 1..n : /\ (r + i - 1) % Depth \in 0..(Depth - 1)
                            /\ (r + i - 1) % Depth # s
<1> DEFINE s == (r + n) % Depth
<1>1. s = (IF r + n < Depth THEN r + n ELSE r + n - Depth) /\ s \in 0..(Depth - 1)
  BY WrapSum, SioAssumption
<1>2. (r + (n + 1)) % Depth =
        IF r + (n + 1) < Depth THEN r + (n + 1) ELSE r + (n + 1) - Depth
  <2> DEFINE k == n + 1
  <2>1. k \in 0..Depth
    BY SioAssumption
  <2>2. (r + k) % Depth = IF r + k < Depth THEN r + k ELSE r + k - Depth
    <3> HIDE DEF k
    <3> QED BY <2>1, WrapSum
  <2> QED BY <2>2
<1>3. (s + 1) % Depth = IF s + 1 < Depth THEN s + 1 ELSE s + 1 - Depth
  <2> HIDE DEF s
  <2>1. 1 \in 0..Depth
    BY SioAssumption
  <2> QED BY <1>1, <2>1, WrapSum
<1>4. ASSUME NEW i \in 1..n
      PROVE  (r + i - 1) % Depth \in 0..(Depth - 1) /\ (r + i - 1) % Depth # s
  <2>1. i \in 1..Depth
    BY SioAssumption
  <2>2. /\ (r + i - 1) % Depth =
             IF r + i - 1 < Depth THEN r + i - 1 ELSE r + i - 1 - Depth
        /\ (r + i - 1) % Depth \in 0..(Depth - 1)
    BY <2>1, WrapSlot
  <2> HIDE DEF s
  <2> QED BY <1>1, <2>2, SioAssumption
<1>5. (s + 1) % Depth \in 0..(Depth - 1) /\ (s + 1) % Depth = (r + (n + 1)) % Depth
  <2> HIDE DEF s
  <2> QED BY <1>1, <1>2, <1>3, SioAssumption
<1> QED BY <1>1, <1>4, <1>5

\* A pop moves the front one slot on and every word one place forward.
LEMMA PopIndex ==
  ASSUME NEW r \in 0..(Depth - 1), NEW n \in 1..Depth
  PROVE  LET t == (r + 1) % Depth IN
         /\ t \in 0..(Depth - 1)
         /\ (t + (n - 1)) % Depth = (r + n) % Depth
         /\ \A i \in 1..(n - 1) :
              (t + i - 1) % Depth = (r + (i + 1) - 1) % Depth
<1> DEFINE t == (r + 1) % Depth
<1>1. 1 \in 0..Depth
  BY SioAssumption
<1>2. t = (IF r + 1 < Depth THEN r + 1 ELSE r + 1 - Depth) /\ t \in 0..(Depth - 1)
  BY <1>1, WrapSum, SioAssumption
<1> HIDE DEF t
<1>3. ASSUME NEW k \in 0..(n - 1), NEW j \in 1..n, j = k + 1
      PROVE  (t + k) % Depth = (r + j) % Depth
  <2>1. k \in 0..Depth /\ j \in 0..Depth
    BY SioAssumption
  <2>2. (t + k) % Depth = IF t + k < Depth THEN t + k ELSE t + k - Depth
    BY <1>2, <2>1, WrapSum
  <2>3. (r + j) % Depth = IF r + j < Depth THEN r + j ELSE r + j - Depth
    BY <2>1, WrapSum
  <2> QED BY <1>2, <1>3, <2>2, <2>3, SioAssumption
<1>4. (t + (n - 1)) % Depth = (r + n) % Depth
  <2> DEFINE k == n - 1
  <2>1. k \in 0..(n - 1) /\ n \in 1..n /\ n = k + 1
    BY SioAssumption
  <2>2. (t + k) % Depth = (r + n) % Depth
    <3> HIDE DEF k
    <3> QED BY <1>3, <2>1
  <2> QED BY <2>2
<1>5. ASSUME NEW i \in 1..(n - 1)
      PROVE  (t + i - 1) % Depth = (r + (i + 1) - 1) % Depth
  <2> DEFINE k == i - 1
  <2>1. k \in 0..(n - 1) /\ i \in 1..n /\ i = k + 1
    BY SioAssumption
  <2>2. (t + k) % Depth = (r + i) % Depth
    <3> HIDE DEF k
    <3> QED BY <1>3, <2>1
  <2>3. t + k = t + i - 1 /\ r + i = r + (i + 1) - 1
    BY <1>2, SioAssumption
  <2> QED BY <2>2, <2>3
<1> QED BY <1>2, <1>4, <1>5 DEF t

LEMMA EmptyRing ==
  Ring(EmptyFifo) /\ Contents(EmptyFifo) = <<>> /\ EmptyFifo.count = 0
<1>1. EmptyFifo \in Fifo
  BY SioAssumption DEF EmptyFifo, Fifo, Index
<1>2. (0 + 0) % Depth = 0
  BY Wrap, SioAssumption
<1>3. 1..0 = {}
  OBVIOUS
<1>4. Contents(EmptyFifo) = <<>>
  BY <1>3 DEF Contents, EmptyFifo
<1> QED BY <1>1, <1>2, <1>4 DEF Ring, EmptyFifo

LEMMA ContentsType ==
  ASSUME NEW f, Ring(f)
  PROVE  Contents(f) \in Seq(Word) /\ Len(Contents(f)) = f.count
<1>1. f.count \in 0..Depth /\ f.read_ptr \in 0..(Depth - 1)
  BY DEF Ring, Fifo, Index
<1>2. f.messages \in [0..(Depth - 1) -> Word]
  BY DEF Ring, Fifo, Index
<1>3. \A i \in 1..f.count : (f.read_ptr + i - 1) % Depth \in 0..(Depth - 1)
  BY <1>1, WrapSlot, SioAssumption
<1>4. Contents(f) \in [1..f.count -> Word]
  BY <1>2, <1>3, Zenon DEF Contents
<1> QED BY <1>1, <1>4, SioAssumption

\* The fields of a well-formed buffer, as integers and a function.
LEMMA RingFields ==
  ASSUME NEW f, Ring(f)
  PROVE  /\ f.count \in 0..Depth /\ f.read_ptr \in 0..(Depth - 1)
         /\ f.messages \in [0..(Depth - 1) -> Word]
         /\ f.write_ptr = (f.read_ptr + f.count) % Depth
BY DEF Ring, Fifo, Index

\* A push to a buffer that is not full appends to its contents.
LEMMA PushAppends ==
  ASSUME NEW f, Ring(f), ~IsFull(f), NEW w \in Word
  PROVE  Ring(Pushed(f, w)) /\ Contents(Pushed(f, w)) = Append(Contents(f), w)
<1> DEFINE g == Pushed(f, w)
<1>1. PICK r \in 0..(Depth - 1), n \in 0..(Depth - 1) :
        f.read_ptr = r /\ f.count = n
  BY RingFields, SioAssumption DEF IsFull
<1>2. PICK m \in [0..(Depth - 1) -> Word] : f.messages = m
  BY RingFields
<1> DEFINE s == (r + n) % Depth
           t == (s + 1) % Depth
           mm == [m EXCEPT ![s] = w]
<1>3. f.write_ptr = s
  BY <1>1, RingFields
<1>4. /\ s \in 0..(Depth - 1) /\ t \in 0..(Depth - 1) /\ t = (r + (n + 1)) % Depth
      /\ \A i \in 1..n : /\ (r + i - 1) % Depth \in 0..(Depth - 1)
                         /\ (r + i - 1) % Depth # s
  BY PushIndex, Zenon
<1>5. g = [messages |-> mm, read_ptr |-> r, write_ptr |-> t, count |-> n + 1]
  BY <1>1, <1>2, <1>3 DEF Pushed
<1> HIDE DEF s, t, g
<1>6. mm \in [0..(Depth - 1) -> Word] /\ n + 1 \in 0..Depth
  BY <1>4, SioAssumption
<1>7. Ring(g)
  BY <1>4, <1>5, <1>6 DEF Ring, Fifo, Index
<1>8. Contents(g) \in Seq(Word) /\ Len(Contents(g)) = n + 1
  BY <1>5, <1>7, ContentsType
<1>9. Contents(f) \in Seq(Word) /\ Len(Contents(f)) = n
  BY <1>1, ContentsType
<1>10. /\ Append(Contents(f), w) \in Seq(Word)
       /\ Len(Append(Contents(f), w)) = n + 1
       /\ Append(Contents(f), w)[n + 1] = w
       /\ \A i \in 1..n : Append(Contents(f), w)[i] = Contents(f)[i]
  BY <1>9
<1>11. Contents(g) = [i \in 1..(n + 1) |-> mm[(r + i - 1) % Depth]]
  BY <1>5 DEF Contents
<1>12. Contents(f) = [i \in 1..n |-> m[(r + i - 1) % Depth]]
  BY <1>1, <1>2 DEF Contents
<1>13. ASSUME NEW i \in 1..(n + 1)
       PROVE  Contents(g)[i] = Append(Contents(f), w)[i]
  <2>1. CASE i = n + 1
    <3>1. r + i - 1 = r + n /\ n + 1 \in 1..(n + 1)
      BY <2>1
    <3>2. Contents(g)[i] = mm[s]
      BY <1>11, <3>1 DEF s
    <3> QED BY <1>4, <1>10, <2>1, <3>2
  <2>2. CASE i \in 1..n
    <3>1. Contents(g)[i] = mm[(r + i - 1) % Depth]
      BY <1>11
    <3>2. Contents(f)[i] = m[(r + i - 1) % Depth]
      BY <1>12, <2>2
    <3>3. mm[(r + i - 1) % Depth] = m[(r + i - 1) % Depth]
      BY <1>4, <2>2, Zenon
    <3> QED BY <1>10, <2>2, <3>1, <3>2, <3>3
  <2>3. i = n + 1 \/ i \in 1..n
    OBVIOUS
  <2> QED BY <2>1, <2>2, <2>3, Zenon
<1> QED BY <1>7, <1>8, <1>10, <1>13, SeqEqual DEF g

\* A pop from a buffer that is not empty removes the front of its contents.
LEMMA PopTail ==
  ASSUME NEW f, Ring(f), ~IsEmpty(f)
  PROVE  /\ Contents(f) # <<>>
         /\ Ring(Popped(f)) /\ Contents(Popped(f)) = Tail(Contents(f))
<1> DEFINE g == Popped(f)
<1>1. PICK r \in 0..(Depth - 1), n \in 1..Depth :
        f.read_ptr = r /\ f.count = n
  BY RingFields, SioAssumption DEF IsEmpty
<1>2. PICK m \in [0..(Depth - 1) -> Word] : f.messages = m
  BY RingFields
<1> DEFINE s == (r + n) % Depth
           t == (r + 1) % Depth
<1>3. f.write_ptr = s /\ s \in 0..(Depth - 1)
  BY <1>1, RingFields DEF Ring, Fifo, Index
<1>4. /\ t \in 0..(Depth - 1) /\ (t + (n - 1)) % Depth = s
      /\ \A i \in 1..(n - 1) : (t + i - 1) % Depth = (r + (i + 1) - 1) % Depth
  BY PopIndex
<1>5. g = [messages |-> m, read_ptr |-> t, write_ptr |-> s, count |-> n - 1]
  BY <1>1, <1>2, <1>3 DEF Popped
<1> HIDE DEF s, t, g
<1>6. n - 1 \in 0..Depth
  BY SioAssumption
<1>7. Ring(g)
  BY <1>3, <1>4, <1>5, <1>6 DEF Ring, Fifo, Index
<1>8. Contents(g) \in Seq(Word) /\ Len(Contents(g)) = n - 1
  BY <1>5, <1>7, ContentsType
<1>9. Contents(f) \in Seq(Word) /\ Len(Contents(f)) = n /\ Contents(f) # <<>>
  BY <1>1, ContentsType
<1>10. /\ Tail(Contents(f)) \in Seq(Word) /\ Len(Tail(Contents(f))) = n - 1
       /\ \A i \in 1..(n - 1) : Tail(Contents(f))[i] = Contents(f)[i + 1]
  BY <1>9
<1>11. Contents(g) = [i \in 1..(n - 1) |-> m[(t + i - 1) % Depth]]
  BY <1>5 DEF Contents
<1>12. Contents(f) = [i \in 1..n |-> m[(r + i - 1) % Depth]]
  BY <1>1, <1>2 DEF Contents
<1>13. ASSUME NEW i \in 1..(n - 1)
       PROVE  Contents(g)[i] = Tail(Contents(f))[i]
  <2>1. i + 1 \in 1..n
    OBVIOUS
  <2>2. Contents(f)[i + 1] = m[(r + (i + 1) - 1) % Depth]
    BY <1>12, <2>1
  <2> QED BY <1>4, <1>10, <1>11, <2>2, Zenon
<1> QED BY <1>7, <1>8, <1>9, <1>10, <1>13, SeqEqual DEF g

-----------------------------------------------------------------------------
(***************************************************************************)
(* What a step of the SIO does to a mailbox, and what that does to the     *)
(* queue it stands for.                                                    *)
(***************************************************************************)
MailInv ==
  /\ fifo \in [Cores -> Fifo]
  /\ wof \subseteq Cores /\ roe \subseteq Cores
  /\ RingInv

Move(f, g) ==
  \/ g = f
  \/ g = EmptyFifo
  \/ ~IsEmpty(f) /\ g = Popped(f)
  \/ ~IsFull(f) /\ \E w \in Word : g = Pushed(f, w)

\* Every mailbox moves once, and a sticky bit rises only with both at rest.
MailStep ==
  /\ DOMAIN fifo' = Cores /\ fifo' = [c \in Cores |-> fifo'[c]]
  /\ \A c \in Cores : Move(fifo[c], fifo'[c])
  /\ wof' \subseteq Cores /\ roe' \subseteq Cores
  /\ \A c \in wof' \ wof : IsFull(fifo[Other(c)]) /\ fifo' = fifo
  /\ \A c \in roe' \ roe : IsEmpty(fifo[c]) /\ fifo' = fifo

LEMMA InvRings == MailInv <=> /\ fifo \in [Cores -> Fifo]
                              /\ wof \subseteq Cores /\ roe \subseteq Cores
                              /\ \A c \in Cores : Ring(fifo[c])
BY DEF MailInv, RingInv, Ring

LEMMA CoresTwo == Cores = {0, 1} /\ CORE0 = 0 /\ CORE1 = 1
                  /\ \A c \in Cores : Other(c) \in Cores /\ Other(c) # c
BY DEF Cores, CORE0, CORE1, Other

\* One mailbox replaced by the result of one move.
LEMMA OneMoves ==
  ASSUME MailInv, NEW c \in Cores, NEW g, Move(fifo[c], g),
         fifo' = [fifo EXCEPT ![c] = g], wof' = wof, roe' = roe
  PROVE  MailStep
<1>1. DOMAIN fifo' = Cores /\ fifo' = [d \in Cores |-> fifo'[d]]
  BY Zenon DEF MailInv
<1>2. \A d \in Cores : Move(fifo[d], fifo'[d])
  BY DEF MailInv, Move
<1> QED BY <1>1, <1>2 DEF MailStep, MailInv

LEMMA NoneMoves ==
  ASSUME MailInv, fifo' = fifo, wof' \subseteq Cores, roe' \subseteq Cores,
         \A c \in wof' \ wof : IsFull(fifo[Other(c)]),
         \A c \in roe' \ roe : IsEmpty(fifo[c])
  PROVE  MailStep
BY DEF MailStep, MailInv, Move

LEMMA TryPushMoves ==
  ASSUME NEW f, NEW w \in Word
  PROVE  Move(f, TryPush(f, w))
BY DEF TryPush, Move

LEMMA EmptyNotFull ==
  ASSUME NEW f, IsEmpty(f)
  PROVE  ~IsFull(f)
BY SioAssumption DEF IsEmpty, IsFull

LEMMA StepMoves ==
  ASSUME MailInv, [Next]_vars
  PROVE  MailStep
<1>1. ASSUME NEW w \in Word, BootromWord(w), wof' = wof, roe' = roe
      PROVE  MailStep
  BY <1>1, TryPushMoves, OneMoves, CoresTwo, Zenon DEF BootromWord
<1>2. ASSUME NEW c \in Cores, NEW w \in Word, FifoWrite(c, w)
      PROVE  MailStep
  <2>1. CASE c = CORE0 /\ waiting
    BY <1>1, <1>2, <2>1 DEF FifoWrite
  <2>2. CASE ~(c = CORE0 /\ waiting) /\ IsFull(fifo[Other(c)])
    <3>1. fifo' = fifo /\ wof' = wof \cup {c} /\ roe' = roe
      BY <1>2, <2>2 DEF FifoWrite
    <3> QED BY <2>2, <3>1, NoneMoves DEF MailInv
  <2>3. CASE ~(c = CORE0 /\ waiting) /\ ~IsFull(fifo[Other(c)])
    <3>1. /\ fifo' = [fifo EXCEPT ![Other(c)] = Pushed(fifo[Other(c)], w)]
          /\ wof' = wof /\ roe' = roe
      BY <1>2, <2>3 DEF FifoWrite
    <3>2. Move(fifo[Other(c)], Pushed(fifo[Other(c)], w))
      BY <2>3 DEF Move
    <3> QED BY <3>1, <3>2, OneMoves, CoresTwo, Zenon
  <2> QED BY <2>1, <2>2, <2>3
<1>3. ASSUME NEW c \in Cores, FifoRead(c)
      PROVE  MailStep
  <2>1. CASE IsEmpty(fifo[c])
    <3>1. fifo' = fifo /\ roe' = roe \cup {c} /\ wof' = wof
      BY <1>3, <2>1 DEF FifoRead
    <3> QED BY <2>1, <3>1, NoneMoves DEF MailInv
  <2>2. CASE ~IsEmpty(fifo[c])
    <3>1. /\ fifo' = [fifo EXCEPT ![c] = Popped(fifo[c])]
          /\ wof' = wof /\ roe' = roe
      BY <1>3, <2>2 DEF FifoRead
    <3>2. Move(fifo[c], Popped(fifo[c]))
      BY <2>2 DEF Move
    <3> QED BY <3>1, <3>2, OneMoves, Zenon
  <2> QED BY <2>1, <2>2
<1>4. ASSUME NEW c \in Cores, FifoStatus(c)
      PROVE  MailStep
  <2>1. wof' = wof /\ roe' = roe
    BY <1>4 DEF FifoStatus
  <2>2. CASE waiting /\ IsEmpty(fifo[CORE0]) /\ due
    <3>1. fifo' = [fifo EXCEPT ![CORE0] = Pushed(fifo[CORE0], 0)]
      BY <1>4, <2>2 DEF FifoStatus, BootromPoll
    <3>2. Move(fifo[CORE0], Pushed(fifo[CORE0], 0))
      BY <2>2, EmptyNotFull, SioAssumption DEF Move
    <3> QED BY <2>1, <3>1, <3>2, OneMoves, CoresTwo, Zenon
  <2>3. CASE ~(waiting /\ IsEmpty(fifo[CORE0]) /\ due)
    <3>1. fifo' = fifo
      BY <1>4, <2>3 DEF FifoStatus, BootromPoll
    <3> QED BY <2>1, <3>1, NoneMoves DEF MailInv
  <2> QED BY <2>2, <2>3
<1>5. ASSUME NEW c \in Cores, NEW W \in BOOLEAN, NEW R \in BOOLEAN,
             FifoClearSticky(c, W, R)
      PROVE  MailStep
  <2>1. fifo' = fifo /\ wof' \subseteq wof /\ roe' \subseteq roe
    BY <1>5 DEF FifoClearSticky
  <2> QED BY <2>1, NoneMoves DEF MailInv
<1>6. CASE ResetAssert
  <2>1. fifo' = [fifo EXCEPT ![CORE1] = EmptyFifo] /\ wof' = wof /\ roe' = roe
    BY <1>6 DEF ResetAssert
  <2>2. Move(fifo[CORE1], EmptyFifo)
    BY DEF Move
  <2> QED BY <2>1, <2>2, OneMoves, CoresTwo, Zenon
<1>7. CASE ResetRelease
  <2>1. /\ fifo' = [fifo EXCEPT ![CORE1] = EmptyFifo,
                                ![CORE0] = TryPush(fifo[CORE0], 0)]
        /\ wof' = wof /\ roe' = roe
    BY <1>7, CoresTwo DEF ResetRelease
  <2>2. /\ DOMAIN fifo' = Cores /\ fifo' = [c \in Cores |-> fifo'[c]]
        /\ fifo'[CORE1] = EmptyFifo /\ fifo'[CORE0] = TryPush(fifo[CORE0], 0)
    BY <2>1, CoresTwo, Zenon DEF MailInv
  <2>3. Move(fifo[CORE1], EmptyFifo) /\ Move(fifo[CORE0], TryPush(fifo[CORE0], 0))
    BY TryPushMoves, SioAssumption DEF Move
  <2>4. \A c \in Cores : Move(fifo[c], fifo'[c])
    BY <2>2, <2>3, CoresTwo
  <2> QED BY <2>1, <2>2, <2>4 DEF MailStep, MailInv
<1>8. CASE Millisecond \/ UNCHANGED vars
  BY <1>8, NoneMoves DEF Millisecond, vars, fifoVars, MailInv
<1> QED BY <1>2, <1>3, <1>4, <1>5, <1>6, <1>7, <1>8 DEF Next, Access

\* A move keeps the buffer a ring, and is a step of a queue.
LEMMA MoveIsQueueStep ==
  ASSUME NEW f, Ring(f), NEW g, Move(f, g)
  PROVE  /\ Ring(g)
         /\ \/ Contents(g) = Contents(f)
            \/ Contents(g) = <<>>
            \/ Contents(f) # <<>> /\ Contents(g) = Tail(Contents(f))
            \/ /\ Len(Contents(f)) < Depth
               /\ \E w \in Word : Contents(g) = Append(Contents(f), w)
<1>1. CASE g = f
  BY <1>1
<1>2. CASE g = EmptyFifo
  BY <1>2, EmptyRing
<1>3. CASE ~IsEmpty(f) /\ g = Popped(f)
  BY <1>3, PopTail
<1>4. CASE ~IsFull(f) /\ \E w \in Word : g = Pushed(f, w)
  <2>1. Len(Contents(f)) < Depth
    BY <1>4, ContentsType, RingFields, SioAssumption DEF IsFull
  <2> QED BY <1>4, <2>1, PushAppends
<1> QED BY <1>1, <1>2, <1>3, <1>4 DEF Move

LEMMA MailInvInit == Init => MailInv
<1> SUFFICES ASSUME Init
             PROVE  MailInv
  OBVIOUS
<1>1. fifo \in [Cores -> Fifo] /\ \A c \in Cores : Ring(fifo[c])
  BY EmptyRing DEF Init, Ring
<1>2. wof \subseteq Cores /\ roe \subseteq Cores
  BY DEF Init
<1> QED BY <1>1, <1>2, InvRings

LEMMA MailInvStep == MailInv /\ [Next]_vars => MailInv'
<1> SUFFICES ASSUME MailInv, [Next]_vars
             PROVE  MailInv'
  OBVIOUS
<1>1. MailStep
  BY StepMoves
<1>2. \A c \in Cores : Ring(fifo'[c])
  BY <1>1, InvRings, MoveIsQueueStep DEF MailStep
<1>3. fifo' \in [Cores -> Fifo] /\ \A c \in Cores :
        fifo'[c].write_ptr = (fifo'[c].read_ptr + fifo'[c].count) % Depth
  BY <1>1, <1>2 DEF MailStep, Ring
<1> QED BY <1>1, <1>3 DEF MailInv, RingInv, MailStep

-----------------------------------------------------------------------------
\* In every ring buffer the write pointer stays count slots ahead of the read
\* pointer (fifo_try_push, fifo_try_pop and the clearing of a FIFO by
\* sio_set_core1_reset), for every FIFO_DEPTH.
THEOREM RingCorrect == Spec => []RingInv
<1>1. MailInv => RingInv
  BY DEF MailInv
<1> QED BY <1>1, MailInvInit, MailInvStep, PTL DEF Spec

LEMMA QueueInit == Init => Queue!Init
BY EmptyRing DEF Init, Queue!Init, Queue!Cores, Cores, CORE0, CORE1

LEMMA QueueStep == MailInv /\ MailStep => Queue!Next
<1> SUFFICES ASSUME MailInv, MailStep
             PROVE  Queue!Next
  OBVIOUS
<1> DEFINE Q == [c \in Cores |-> Contents(fifo[c])]
           R == [c \in Cores |-> Contents(fifo'[c])]
<1>1. \A c \in Cores : Ring(fifo[c])
  BY InvRings
<1>2. ASSUME NEW c \in Cores
      PROVE  \/ R[c] = Q[c]
             \/ R[c] = <<>>
             \/ Q[c] # <<>> /\ R[c] = Tail(Q[c])
             \/ Len(Q[c]) < Depth /\ \E w \in Word : R[c] = Append(Q[c], w)
  BY <1>1, MoveIsQueueStep DEF MailStep
<1>3. ASSUME NEW c \in wof' \ wof
      PROVE  Len(Q[Other(c)]) = Depth /\ R = Q
  <2>1. Other(c) \in Cores /\ IsFull(fifo[Other(c)]) /\ fifo' = fifo
    BY CoresTwo DEF MailStep
  <2>2. Len(Contents(fifo[Other(c)])) = Depth
    BY <1>1, <2>1, ContentsType, RingFields, SioAssumption DEF IsFull
  <2> QED BY <2>1, <2>2
<1>4. ASSUME NEW c \in roe' \ roe
      PROVE  Q[c] = <<>> /\ R = Q
  <2>1. c \in Cores /\ IsEmpty(fifo[c]) /\ fifo' = fifo
    BY DEF MailStep
  <2>2. Contents(fifo[c]) = <<>>
    BY <1>1, <2>1, ContentsType DEF IsEmpty
  <2> QED BY <2>1, <2>2
<1>5. wof' \subseteq Cores /\ roe' \subseteq Cores
  BY DEF MailStep
<1>6. R = [c \in Cores |-> R[c]]
  OBVIOUS
<1> HIDE DEF Q, R
<1>7. /\ R = [c \in Queue!Cores |-> R[c]]
      /\ \A c \in Queue!Cores :
           \/ R[c] = Q[c]
           \/ Len(Q[c]) < Depth /\ \E w \in Word : R[c] = Append(Q[c], w)
           \/ Q[c] # <<>> /\ R[c] = Tail(Q[c])
           \/ R[c] = <<>>
      /\ wof' \subseteq Queue!Cores /\ roe' \subseteq Queue!Cores
      /\ \A c \in wof' \ wof : Len(Q[Queue!Other(c)]) = Depth /\ R = Q
      /\ \A c \in roe' \ roe : Q[c] = <<>> /\ R = Q
  BY <1>2, <1>3, <1>4, <1>5, <1>6, CoresTwo DEF Queue!Cores, Queue!Other, Other
<1> QED BY <1>7, Zenon DEF Queue!Next, Queue!Put, Queue!Take, Queue!Clear, Q, R

\* The mailboxes implement the bounded queues of FifoQueue: whatever the
\* firmware of the two cores does, FIFO_WR, FIFO_RD, FIFO_ST, the boot ROM and
\* the reset of Core 1 only append, remove the front or empty; for every
\* FIFO_DEPTH and every set of words.
THEOREM MailboxRefinement == Spec => QueueSpec
<1>1. MailInv /\ [Next]_vars => [Queue!Next]_(Queue!vars)
  BY StepMoves, QueueStep
<1> QED BY <1>1, QueueInit, MailInvInit, MailInvStep, PTL
        DEF Spec, QueueSpec, Queue!Spec

-----------------------------------------------------------------------------
LEMMA LaunchExclusiveStep ==
  MailInv /\ LaunchExclusive /\ [Next]_vars => LaunchExclusive'
<1> SUFFICES ASSUME MailInv, LaunchExclusive, [Next]_vars
             PROVE  LaunchExclusive'
  OBVIOUS
<1> USE CoresTwo
<1>1. ASSUME NEW c \in Cores, Executing(c), NEW w \in Word, FifoWrite(c, w)
      PROVE  LaunchExclusive'
  <2>1. CASE c = CORE0 /\ waiting
    <3>1. BootromWord(w) /\ psmOff' = psmOff
      BY <1>1, <2>1 DEF FifoWrite
    <3>2. fifo'[CORE1] = fifo[CORE1]
      BY <3>1 DEF BootromWord, MailInv
    <3> QED BY <2>1, <3>1, <3>2, Zenon DEF BootromWord, LaunchExclusive
  <2>2. CASE ~(c = CORE0 /\ waiting)
    <3>1. ~waiting
      BY <1>1, <2>2 DEF Executing, LaunchExclusive
    <3> QED BY <1>1, <2>2, <3>1 DEF FifoWrite, bootVars, LaunchExclusive
  <2> QED BY <2>1, <2>2
<1>2. ASSUME NEW c \in Cores, Executing(c), FifoRead(c)
      PROVE  LaunchExclusive'
  <2>1. waiting => fifo'[CORE1] = fifo[CORE1]
    BY <1>2 DEF Executing, FifoRead, LaunchExclusive, MailInv
  <2> QED BY <1>2, <2>1 DEF FifoRead, bootVars, LaunchExclusive
<1>3. ASSUME NEW c \in Cores, FifoStatus(c)
      PROVE  LaunchExclusive'
  <2>1. fifo'[CORE1] = fifo[CORE1]
    BY <1>3 DEF FifoStatus, BootromPoll, MailInv
  <2> QED BY <1>3, <2>1 DEF FifoStatus, bootVars, LaunchExclusive
<1>4. ASSUME NEW c \in Cores, NEW W \in BOOLEAN, NEW R \in BOOLEAN,
             FifoClearSticky(c, W, R)
      PROVE  LaunchExclusive'
  BY <1>4 DEF FifoClearSticky, bootVars, LaunchExclusive
<1>5. CASE ResetAssert
  BY <1>5 DEF ResetAssert, LaunchExclusive
<1>6. CASE ResetRelease
  <2>1. fifo'[CORE1] = EmptyFifo
    BY <1>6 DEF ResetRelease, MailInv
  <2> QED BY <1>6, <2>1, EmptyRing DEF ResetRelease, LaunchExclusive, IsEmpty
<1>7. CASE Millisecond \/ UNCHANGED vars
  BY <1>7 DEF Millisecond, vars, fifoVars, bootVars, LaunchExclusive
<1> QED BY <1>1, <1>2, <1>3, <1>4, <1>5, <1>6, <1>7 DEF Next, Access

\* While the stand-in for the boot ROM waits, Core 1 is halted and its mailbox
\* is empty, and outside a handshake no launch word is kept: the words core 0
\* writes to FIFO_WR go either to the handshake or to Core 1, never to both.
THEOREM LaunchIsExclusive == Spec => []LaunchExclusive
<1>1. Init => LaunchExclusive
  BY DEF Init, LaunchExclusive
<1> QED BY <1>1, LaunchExclusiveStep, MailInvInit, MailInvStep, PTL DEF Spec
-----------------------------------------------------------------------------
(***************************************************************************)
(* The launch of Core 1.                                                   *)
(***************************************************************************)

\* The boot ROM has kept the first n words of the command.
Sent(n) == Len(launch) = n /\ \A i \in 1..n : launch[i] = Command[i]

\* Nothing waits for Core 0, and the boot ROM will not announce itself.
Quiet == IsEmpty(fifo[CORE0]) /\ ~due

\* The answer to word seq is the next one Core 0 reads.  After the sixth word
\* Core 1 runs and may have written behind it.
Answered ==
  /\ ~IsEmpty(fifo[CORE0]) /\ Front(fifo[CORE0]) = Command[seq]
  /\ IF seq = LaunchLength THEN ~waiting /\ ~halted1
     ELSE waiting /\ Sent(seq) /\ ~due /\ fifo[CORE0].count = 1

\* Where the two sides stand at each place of the SDK code.
Handshake ==
  /\ seq \in 1..LaunchLength /\ launch \in Seq(Word)
  /\ psmOff <=> place = "release"
  /\ place \in {"reset", "launched"} => ~waiting
  /\ place = "launched" => ~halted1
  /\ place \in {"ready0", "pop0", "pause"} => waiting /\ Sent(0)
  /\ place \in {"drain", "drainRead", "wready", "send"} => waiting /\ Sent(seq - 1)
  /\ place = "drain" /\ Command[seq] # 0 => Quiet
  /\ place = "drainRead" => Command[seq] = 0
  /\ place \in {"wready", "send"} => Quiet
  /\ place \in {"rvalid", "answer"} => Answered

Places == {"reset", "release", "ready0", "pop0", "pause", "drain", "drainRead", "wready",
           "send", "rvalid", "answer", "launched"}

LaunchInv == MailInv /\ LaunchExclusive /\ place \in Places /\ Handshake /\ LaunchedAsAsked

\* The words of the command are words, and the first two are zero.
LEMMA CommandWords ==
  /\ Command[1] = 0 /\ Command[2] = 0 /\ Command[4] = 2 /\ Command[5] = 3 /\ Command[6] = 4
  /\ \A i \in 1..LaunchLength : Command[i] \in Word
<1>1. \A i \in 1..6 : Command[i] \in 0..4
  BY DEF Command
<1> QED BY <1>1, LaunchAssumption DEF Command, LaunchLength

\* The firmware that launches, with Core 1's, is firmware of the SIO.
LEMMA LaunchIsFirmware == ASSUME LaunchInv, LNext PROVE Next \/ UNCHANGED vars
<1>1. CORE0 \in Cores /\ CORE1 \in Cores /\ Executing(CORE0)
  BY DEF Executing, Cores, CORE0, CORE1
<1>2. Command[seq] \in Word /\ 1 \in Word
  BY CommandWords, LaunchAssumption DEF LaunchInv, Handshake
<1>3. CASE Core1
  BY <1>1, <1>2, <1>3 DEF Core1, Next, Access
<1>4. CASE Again \/ Pause
  BY <1>4 DEF Again, Pause
<1>5. CASE Tick \/ Reset \/ ReleaseReset
  BY <1>5 DEF Tick, Reset, ReleaseReset, Next
<1>6. CASE Ready0 \/ Wready \/ Rvalid \/ Drain
  <2>1. FifoStatus(CORE0) \/ UNCHANGED vars
    BY <1>6 DEF Ready0, Wready, Rvalid, Drain
  <2> QED BY <1>1, <2>1 DEF Next, Access
<1>7. CASE Pop0 \/ DrainRead \/ Answer
  <2>1. FifoRead(CORE0)
    BY <1>7 DEF Pop0, DrainRead, Answer
  <2> QED BY <1>1, <2>1 DEF Next, Access
<1>8. CASE Send
  BY <1>1, <1>2, <1>8 DEF Send, Next, Access
<1> QED BY <1>3, <1>4, <1>5, <1>6, <1>7, <1>8 DEF LNext, Core0

\* What the registers leave alone, as far as the launch is concerned.
LEMMA StatusKeeps ==
  ASSUME MailInv, FifoStatus(CORE0)
  PROVE  /\ psmOff' = psmOff /\ waiting' = waiting /\ launch' = launch
         /\ halted1' = halted1 /\ core1' = core1
         /\ \/ fifo' = fifo /\ due' = due /\ ~(waiting /\ IsEmpty(fifo[CORE0]) /\ due)
            \/ /\ waiting /\ IsEmpty(fifo[CORE0]) /\ due /\ ~due'
               /\ ~IsEmpty(fifo'[CORE0])
<1>1. CASE waiting /\ IsEmpty(fifo[CORE0]) /\ due
  <2>1. fifo' = [fifo EXCEPT ![CORE0] = Pushed(fifo[CORE0], 0)] /\ due' = FALSE
    BY <1>1 DEF FifoStatus, BootromPoll
  <2>2. fifo'[CORE0] = Pushed(fifo[CORE0], 0)
    BY <2>1, CoresTwo DEF MailInv
  <2>3. fifo'[CORE0].count = 1
    BY <1>1, <2>2 DEF Pushed, IsEmpty
  <2> QED BY <1>1, <2>1, <2>3 DEF FifoStatus, bootVars, IsEmpty
<1>2. CASE ~(waiting /\ IsEmpty(fifo[CORE0]) /\ due)
  BY <1>2 DEF FifoStatus, BootromPoll, bootVars
<1> QED BY <1>1, <1>2

LEMMA ReadKeeps ==
  ASSUME MailInv, NEW c \in Cores, FifoRead(c)
  PROVE  /\ psmOff' = psmOff /\ waiting' = waiting /\ launch' = launch
         /\ halted1' = halted1 /\ core1' = core1 /\ due' = due
         /\ \A d \in Cores \ {c} : fifo'[d] = fifo[d]
         /\ ~IsEmpty(fifo[c]) => fifo'[c].count = fifo[c].count - 1
<1>1. CASE IsEmpty(fifo[c])
  BY <1>1 DEF FifoRead, bootVars
<1>2. CASE ~IsEmpty(fifo[c])
  <2>1. fifo' = [fifo EXCEPT ![c] = Popped(fifo[c])]
    BY <1>2 DEF FifoRead
  <2>2. fifo'[c] = Popped(fifo[c]) /\ \A d \in Cores \ {c} : fifo'[d] = fifo[d]
    BY <2>1 DEF MailInv
  <2> QED BY <2>2 DEF FifoRead, bootVars, Popped
<1> QED BY <1>1, <1>2

\* A push to a buffer with words in it leaves its front.
LEMMA PushKeepsFront ==
  ASSUME NEW f, Ring(f), ~IsEmpty(f), ~IsFull(f), NEW w \in Word
  PROVE  Front(Pushed(f, w)) = Front(f) /\ ~IsEmpty(Pushed(f, w))
<1>1. PICK r \in 0..(Depth - 1), n \in 1..(Depth - 1) : f.read_ptr = r /\ f.count = n
  BY RingFields, SioAssumption DEF IsFull, IsEmpty
<1>2. f.write_ptr = (r + n) % Depth /\ f.messages \in [0..(Depth - 1) -> Word]
  BY <1>1, RingFields
<1>3. (r + n) % Depth # r
  <2>1. n \in 0..Depth /\ Depth \in Nat
    BY SioAssumption
  <2>2. (r + n) % Depth = IF r + n < Depth THEN r + n ELSE r + n - Depth
    BY <2>1, WrapSum
  <2> QED BY <2>1, <2>2
<1>4. Pushed(f, w).messages[r] = f.messages[r]
  BY <1>2, <1>3 DEF Pushed
<1> QED BY <1>1, <1>4 DEF Front, Pushed, IsEmpty

\* A push to an empty buffer is the front.
LEMMA PushIsFront ==
  ASSUME NEW f, Ring(f), IsEmpty(f), NEW w \in Word
  PROVE  /\ Front(TryPush(f, w)) = w /\ TryPush(f, w).count = 1
         /\ ~IsEmpty(TryPush(f, w))
<1>1. PICK r \in 0..(Depth - 1) : f.read_ptr = r
  BY RingFields
<1>2. f.count = 0 /\ f.write_ptr = r /\ f.messages \in [0..(Depth - 1) -> Word]
  <2>1. f.count = 0 /\ f.write_ptr = (r + f.count) % Depth /\ f.messages \in [0..(Depth - 1) -> Word]
    BY <1>1, RingFields DEF IsEmpty
  <2>2. 0 \in 0..Depth /\ Depth \in Nat
    BY SioAssumption
  <2>3. (r + 0) % Depth = IF r + 0 < Depth THEN r + 0 ELSE r + 0 - Depth
    BY <2>2, WrapSum, Zenon
  <2> QED BY <2>1, <2>2, <2>3
<1>3. TryPush(f, w) = Pushed(f, w)
  BY EmptyNotFull DEF TryPush
<1>4. Pushed(f, w).messages[r] = w
  BY <1>2, Zenon DEF Pushed
<1> QED BY <1>1, <1>2, <1>3, <1>4 DEF Front, Pushed, IsEmpty

\* The reset is asserted and released: the boot ROM waits, with no word kept.
LEMMA ResetSteps ==
  ASSUME LaunchInv, Reset \/ ReleaseReset
  PROVE  place' \in Places /\ Handshake' /\ LaunchedAsAsked'
<1>1. CASE Reset
  <2>1. /\ psmOff' /\ halted1' = TRUE /\ ~waiting' /\ launch' = <<>> /\ place' = "release"
        /\ seq' = seq
    BY <1>1 DEF Reset, ResetAssert, Goto
  <2>2. <<>> \in Seq(Word)
    OBVIOUS
  <2>3. Handshake'
    BY <2>1, <2>2 DEF LaunchInv, Handshake
  <2> QED BY <2>1, <2>3 DEF Places, LaunchedAsAsked
<1>2. CASE ReleaseReset
  <2>1. /\ ~psmOff' /\ halted1' = TRUE /\ waiting' /\ launch' = <<>> /\ place' = "ready0"
        /\ seq' = seq
    BY <1>2 DEF ReleaseReset, ResetRelease, Goto
  <2>2. <<>> \in Seq(Word) /\ Len(<<>>) = 0
    OBVIOUS
  <2>3. Sent(0)'
    BY <2>1, <2>2 DEF Sent
  <2>4. Handshake'
    BY <2>1, <2>2, <2>3 DEF LaunchInv, Handshake
  <2> QED BY <2>1, <2>4 DEF Places, LaunchedAsAsked
<1> QED BY <1>1, <1>2

\* Reading FIFO_ST: the readiness word may appear while Core 0 waits for it or
\* drains, but not once the mailbox has been found empty.
LEMMA StatusSteps ==
  ASSUME LaunchInv, Ready0 \/ Wready \/ Rvalid \/ Drain
  PROVE  place' \in Places /\ Handshake' /\ LaunchedAsAsked'
<1> USE DEF Goto
<1>0. MailInv /\ Handshake /\ LaunchedAsAsked /\ seq' = seq
  BY DEF LaunchInv, Ready0, Wready, Rvalid, Drain
<1>1. CASE Ready0
  <2>1. place = "ready0" /\ FifoStatus(CORE0) /\ place' \in {"pop0", "ready0"}
    BY <1>1 DEF Ready0
  <2>2. Sent(0)' /\ waiting' /\ ~psmOff' /\ launch' \in Seq(Word) /\ LaunchedAsAsked'
    BY <1>0, <2>1, StatusKeeps DEF Handshake, Sent, LaunchedAsAsked
  <2> QED BY <1>0, <2>1, <2>2 DEF Handshake, Places
<1>2. CASE Wready
  <2>1. /\ place = "wready" /\ FifoStatus(CORE0)
        /\ place' = IF RDY(fifo', CORE0) THEN "send" ELSE "wready"
    BY <1>2 DEF Wready
  <2>2. Quiet' /\ Sent(seq - 1)' /\ waiting' /\ ~psmOff' /\ launch' \in Seq(Word) /\ LaunchedAsAsked'
    BY <1>0, <2>1, StatusKeeps DEF Handshake, Quiet, Sent, LaunchedAsAsked
  <2> QED BY <1>0, <2>1, <2>2 DEF Handshake, Places
<1>3. CASE Rvalid
  <2>1. place = "rvalid" /\ FifoStatus(CORE0) /\ place' \in {"answer", "rvalid"}
    BY <1>3 DEF Rvalid
  <2>2. Answered' /\ ~psmOff' /\ launch' \in Seq(Word) /\ LaunchedAsAsked'
    BY <1>0, <2>1, StatusKeeps DEF Handshake, Answered, Sent, LaunchedAsAsked
  <2> QED BY <1>0, <2>1, <2>2 DEF Handshake, Places
<1>4. CASE Drain /\ Command[seq] = 0
  <2>1. /\ place = "drain" /\ FifoStatus(CORE0)
        /\ place' = IF VLD(fifo', CORE0) THEN "drainRead" ELSE "wready"
    BY <1>4 DEF Drain
  <2>2. Sent(seq - 1)' /\ waiting' /\ ~psmOff' /\ launch' \in Seq(Word) /\ LaunchedAsAsked'
    BY <1>0, <2>1, StatusKeeps DEF Handshake, Sent, LaunchedAsAsked
  <2>3. place' = "wready" => Quiet'
    BY <1>0, <2>1, StatusKeeps DEF Handshake, Quiet, VLD
  <2> QED BY <1>0, <1>4, <2>1, <2>2, <2>3 DEF Handshake, Places
<1>5. CASE Drain /\ Command[seq] # 0
  <2>1. place = "drain" /\ UNCHANGED vars /\ place' = "wready"
    BY <1>5 DEF Drain
  <2>2. Quiet' /\ Sent(seq - 1)' /\ waiting' /\ ~psmOff' /\ launch' \in Seq(Word) /\ LaunchedAsAsked'
    BY <1>0, <1>5, <2>1 DEF Handshake, Quiet, Sent, LaunchedAsAsked, vars, fifoVars, bootVars
  <2> QED BY <1>0, <2>1, <2>2 DEF Handshake, Places
<1> QED BY <1>1, <1>2, <1>3, <1>4, <1>5

\* Reading FIFO_RD, and the places between a launch and the next.
LEMMA ReadSteps ==
  ASSUME LaunchInv, Pop0 \/ Pause \/ DrainRead \/ Again
  PROVE  place' \in Places /\ Handshake' /\ LaunchedAsAsked'
<1> USE DEF Goto
<1>0. MailInv /\ Handshake /\ LaunchedAsAsked /\ CORE0 \in Cores
  BY CoresTwo DEF LaunchInv
<1>1. CASE Pop0
  <2>1. place = "pop0" /\ FifoRead(CORE0) /\ place' = "pause" /\ seq' = seq
    BY <1>1 DEF Pop0
  <2>2. Sent(0)' /\ waiting' /\ ~psmOff' /\ launch' \in Seq(Word) /\ LaunchedAsAsked'
    BY <1>0, <2>1, ReadKeeps, Zenon DEF Handshake, Sent, LaunchedAsAsked
  <2> QED BY <1>0, <2>1, <2>2 DEF Handshake, Places
<1>2. CASE DrainRead
  <2>1. place = "drainRead" /\ FifoRead(CORE0) /\ place' = "drain" /\ seq' = seq
    BY <1>2 DEF DrainRead
  <2>2. Sent(seq - 1)' /\ waiting' /\ ~psmOff' /\ launch' \in Seq(Word) /\ LaunchedAsAsked'
    BY <1>0, <2>1, ReadKeeps, Zenon DEF Handshake, Sent, LaunchedAsAsked
  <2> QED BY <1>0, <2>1, <2>2 DEF Handshake, Places
<1>3. CASE Pause
  <2>1. place = "pause" /\ place' = "drain" /\ seq' = 1 /\ UNCHANGED bootVars
    BY <1>3 DEF Pause, vars
  <2>2. Sent(0)' /\ waiting' /\ ~psmOff' /\ launch' \in Seq(Word) /\ LaunchedAsAsked'
    BY <1>0, <2>1 DEF Handshake, Sent, LaunchedAsAsked, bootVars
  <2>3. seq' - 1 = 0 /\ seq' \in 1..LaunchLength
    BY <2>1 DEF LaunchLength
  <2>4. Sent(seq - 1)'
    BY <2>2, <2>3 DEF Sent
  <2> QED BY <1>0, <2>1, <2>2, <2>3, <2>4, CommandWords DEF Handshake, Places
<1>4. CASE Again
  <2>1. /\ place = "launched" /\ place' = "reset" /\ seq' = seq /\ UNCHANGED bootVars
    BY <1>4 DEF Again, vars
  <2>2. ~waiting' /\ ~psmOff' /\ launch' \in Seq(Word) /\ LaunchedAsAsked'
    BY <1>0, <2>1 DEF Handshake, LaunchedAsAsked, bootVars
  <2> QED BY <1>0, <2>1, <2>2 DEF Handshake, Places
<1> QED BY <1>1, <1>2, <1>3, <1>4

\* The answer is the word that was sent, so Core 0 goes on to the next word
\* or has launched Core 1.
LEMMA AnswerStep ==
  ASSUME LaunchInv, Answer
  PROVE  place' \in Places /\ Handshake' /\ LaunchedAsAsked'
<1> USE DEF Goto
<1>0. MailInv /\ Handshake /\ LaunchedAsAsked /\ CORE0 \in Cores
  BY CoresTwo DEF LaunchInv
<1>1. /\ place = "answer" /\ FifoRead(CORE0) /\ seq \in 1..6
      /\ Answered /\ launch \in Seq(Word) /\ ~psmOff
  BY <1>0 DEF Answer, Handshake, LaunchLength
<1>2. /\ psmOff' = psmOff /\ waiting' = waiting /\ launch' = launch
      /\ halted1' = halted1 /\ core1' = core1 /\ due' = due
      /\ fifo'[CORE0].count = fifo[CORE0].count - 1
  BY <1>0, <1>1, ReadKeeps DEF Answered
<1>3. LaunchedAsAsked'
  BY <1>0, <1>2 DEF LaunchedAsAsked
<1>4. CASE seq = LaunchLength
  <2>1. place' = "launched" /\ seq' = 1
    BY <1>1, <1>4 DEF Answer, Answered
  <2>2. ~waiting' /\ ~halted1'
    BY <1>1, <1>2, <1>4 DEF Answered
  <2> QED BY <1>1, <1>2, <1>3, <2>1, <2>2 DEF Handshake, Places, LaunchLength
<1>5. CASE seq # LaunchLength
  <2>1. place' = "drain" /\ seq' = seq + 1 /\ seq' \in 1..LaunchLength
    BY <1>1, <1>5 DEF Answer, Answered, LaunchLength
  <2>2. waiting' /\ Quiet'
    BY <1>1, <1>2, <1>5 DEF Answered, Quiet, IsEmpty
  <2>3. seq' - 1 = seq
    BY <1>1, <2>1
  <2>4. Sent(seq - 1)'
    BY <1>1, <1>2, <1>5, <2>3 DEF Answered, Sent
  <2> QED BY <1>1, <1>2, <1>3, <2>1, <2>2, <2>4 DEF Handshake, Places
<1> QED BY <1>4, <1>5

\* A word sent: it is echoed into Core 0's empty mailbox and kept; the sixth
\* launches Core 1 from the words kept.
LEMMA SendStep ==
  ASSUME LaunchInv, Send
  PROVE  place' \in Places /\ Handshake' /\ LaunchedAsAsked'
<1> USE DEF Goto
<1> DEFINE w == Command[seq]
           ws == Append(launch, w)
<1>0. MailInv /\ Handshake /\ LaunchedAsAsked /\ CORE0 \in Cores
  BY CoresTwo DEF LaunchInv
<1>1. /\ place = "send" /\ FifoWrite(CORE0, w) /\ place' = "rvalid" /\ seq' = seq
      /\ seq \in 1..6 /\ waiting /\ ~psmOff /\ Sent(seq - 1) /\ Quiet /\ launch \in Seq(Word)
      /\ w \in Word
  BY <1>0, CommandWords DEF Send, Handshake, LaunchLength
<1>2. BootromWord(w) /\ psmOff' = psmOff /\ due' = due
  BY <1>1 DEF FifoWrite
<1>3. fifo' = [fifo EXCEPT ![CORE0] = TryPush(fifo[CORE0], w)]
  BY <1>2 DEF BootromWord
<1>4. fifo'[CORE0] = TryPush(fifo[CORE0], w) /\ Ring(fifo[CORE0])
  BY <1>0, <1>3, InvRings
<1>5. Front(fifo'[CORE0]) = w /\ fifo'[CORE0].count = 1 /\ ~IsEmpty(fifo'[CORE0])
  BY <1>1, <1>4, PushIsFront DEF Quiet
<1>6. /\ ws \in Seq(Word) /\ Len(ws) = seq
      /\ \A i \in 1..seq : ws[i] = Command[i]
  <2>1. /\ Len(ws) = Len(launch) + 1 /\ ws \in Seq(Word) /\ ws[Len(launch) + 1] = w
        /\ \A i \in 1..Len(launch) : ws[i] = launch[i]
    BY <1>1
  <2> HIDE DEF ws
  <2>2. Len(launch) = seq - 1 /\ \A i \in 1..(seq - 1) : launch[i] = Command[i]
    BY <1>1 DEF Sent
  <2>3. Len(ws) = seq /\ ws[seq] = w
    BY <1>1, <2>1, <2>2
  <2>4. ASSUME NEW i \in 1..seq
        PROVE  ws[i] = Command[i]
    <3>1. CASE i = seq
      BY <2>3, <3>1
    <3>2. CASE i # seq
      BY <1>1, <2>1, <2>2, <3>2
    <3> QED BY <3>1, <3>2
  <2> QED BY <2>1, <2>3, <2>4
<1> HIDE DEF w, ws
<1>7. CASE seq = LaunchLength
  <2>1. core1' = RegsOf(ws) /\ halted1' = FALSE /\ waiting' = FALSE /\ launch' = <<>>
    BY <1>2, <1>6, <1>7 DEF BootromWord, ws, w
  <2>2. ws[4] = 2 /\ ws[5] = 3 /\ ws[6] = 4
    BY <1>6, <1>7, CommandWords DEF LaunchLength
  <2>3. LaunchedAsAsked'
    BY <2>1, <2>2 DEF LaunchedAsAsked, RegsOf, Asked
  <2>4. Answered'
    BY <1>1, <1>5, <1>7, <2>1 DEF Answered, w
  <2> QED BY <1>0, <1>1, <1>2, <2>1, <2>3, <2>4 DEF Handshake, Places
<1>8. CASE seq # LaunchLength
  <2>1. launch' = ws /\ core1' = core1 /\ halted1' = halted1 /\ waiting' = waiting
    BY <1>2, <1>6, <1>8 DEF BootromWord, ws, w
  <2>2. LaunchedAsAsked'
    BY <1>0, <2>1 DEF LaunchedAsAsked
  <2>3. Sent(seq)'
    BY <1>1, <1>6, <2>1 DEF Sent
  <2>4. Answered'
    BY <1>1, <1>2, <1>5, <1>8, <2>1, <2>3 DEF Answered, Quiet, w
  <2> QED BY <1>0, <1>1, <1>2, <1>6, <2>1, <2>2, <2>4 DEF Handshake, Places
<1> QED BY <1>7, <1>8

\* Core 1 runs only when the handshake is over, and writes behind the answer
\* Core 0 may still have to read.
LEMMA Core1Step ==
  ASSUME LaunchInv, Core1
  PROVE  place' \in Places /\ Handshake' /\ LaunchedAsAsked'
<1>0. MailInv /\ Handshake /\ LaunchedAsAsked /\ place \in Places
  BY DEF LaunchInv
<1>1. ~halted1 /\ ~waiting /\ ~psmOff /\ place' = place /\ seq' = seq
  BY DEF LaunchInv, LaunchExclusive, Core1, Executing, launchVars
<1>2. CORE0 \in Cores /\ CORE1 \in Cores /\ CORE0 # CORE1 /\ Other(CORE1) = CORE0 /\ 1 \in Word
  BY LaunchAssumption DEF CORE0, CORE1, Cores, Other
<1>3. /\ psmOff' = psmOff /\ waiting' = waiting /\ launch' = launch
      /\ halted1' = halted1 /\ core1' = core1
  BY <1>2 DEF Core1, FifoWrite, FifoRead, bootVars
<1>4. ASSUME ~IsEmpty(fifo[CORE0])
      PROVE  ~IsEmpty(fifo'[CORE0]) /\ Front(fifo'[CORE0]) = Front(fifo[CORE0])
  <2>1. CASE FifoWrite(CORE1, 1) /\ IsFull(fifo[CORE0])
    <3>1. fifo' = fifo
      BY <1>2, <2>1 DEF FifoWrite
    <3> QED BY <1>4, <3>1
  <2>2. CASE FifoWrite(CORE1, 1) /\ ~IsFull(fifo[CORE0])
    <3>1. fifo' = [fifo EXCEPT ![CORE0] = Pushed(fifo[CORE0], 1)]
      BY <1>2, <2>2 DEF FifoWrite
    <3>2. fifo'[CORE0] = Pushed(fifo[CORE0], 1) /\ Ring(fifo[CORE0])
      BY <1>0, <1>2, <3>1, InvRings
    <3> QED BY <1>2, <1>4, <2>2, <3>2, PushKeepsFront
  <2>3. CASE FifoRead(CORE1)
    <3>1. fifo'[CORE0] = fifo[CORE0]
      BY <1>0, <1>2, <2>3, ReadKeeps
    <3> QED BY <1>4, <3>1
  <2> QED BY <2>1, <2>2, <2>3 DEF Core1
<1>5. place \in {"rvalid", "answer"} => Answered'
  BY <1>0, <1>1, <1>3, <1>4 DEF Handshake, Answered
<1>6. LaunchedAsAsked'
  BY <1>0, <1>3 DEF LaunchedAsAsked
<1> QED BY <1>0, <1>1, <1>3, <1>5, <1>6 DEF Handshake

\* A millisecond passes only where the readiness word does no harm.
LEMMA TickStep ==
  ASSUME LaunchInv, Tick, Prompt
  PROVE  place' \in Places /\ Handshake' /\ LaunchedAsAsked'
<1>0. Handshake /\ LaunchedAsAsked /\ place \in Places
  BY DEF LaunchInv
<1>1. /\ place \in {"reset", "release", "ready0", "pop0", "pause", "launched"}
      /\ place' = place /\ seq' = seq /\ UNCHANGED bootVars
  BY DEF Tick, Millisecond, launchVars
<1>2. LaunchedAsAsked'
  BY <1>0, <1>1 DEF LaunchedAsAsked, bootVars
<1> QED BY <1>0, <1>1, <1>2 DEF Handshake, Sent, bootVars

LEMMA LaunchInvInit == LInit => LaunchInv
<1> SUFFICES ASSUME LInit
             PROVE  LaunchInv
  OBVIOUS
<1>1. Init /\ place = "reset" /\ seq = 1
  BY DEF LInit
<1>2. MailInv
  BY <1>1, MailInvInit
<1>3. ~psmOff /\ ~waiting /\ launch = <<>> /\ halted1
  BY <1>1 DEF Init
<1>4. <<>> \in Seq(Word)
  OBVIOUS
<1> QED BY <1>1, <1>2, <1>3, <1>4
        DEF LaunchInv, LaunchExclusive, Places, Handshake, LaunchedAsAsked, LaunchLength

LEMMA LaunchInvStep ==
  ASSUME LaunchInv, [LNext]_allVars, Prompt
  PROVE  LaunchInv'
<1>1. CASE LNext
  <2>1. place' \in Places /\ Handshake' /\ LaunchedAsAsked'
    BY <1>1, ResetSteps, StatusSteps, ReadSteps, AnswerStep, SendStep, Core1Step, TickStep
       DEF LNext, Core0
  <2>2. MailInv' /\ LaunchExclusive'
    BY <1>1, LaunchIsFirmware, MailInvStep, LaunchExclusiveStep DEF LaunchInv
  <2> QED BY <2>1, <2>2 DEF LaunchInv
<1>2. CASE UNCHANGED allVars
  <2>1. UNCHANGED vars /\ place' = place /\ seq' = seq
    BY <1>2 DEF allVars, launchVars
  <2>2. MailInv' /\ LaunchExclusive'
    BY <2>1, MailInvStep, LaunchExclusiveStep DEF LaunchInv
  <2>3. UNCHANGED <<fifo, psmOff, waiting, launch, due, halted1, core1>>
    BY <2>1 DEF vars, fifoVars, bootVars
  <2>4. Handshake' /\ LaunchedAsAsked'
    BY <2>1, <2>3 DEF LaunchInv, Handshake, Sent, Quiet, Answered, LaunchedAsAsked
  <2> QED BY <2>1, <2>2, <2>4 DEF LaunchInv
<1> QED BY <1>1, <1>2

\* multicore_launch_core1 against the boot ROM stand-in: if no millisecond
\* passes inside the handshake, then however often Core 0 launches, and
\* whatever Core 1 left in the mailboxes, Core 1 runs from the registers Core 0
\* asked for, and it runs when Core 0 believes it launched.
THEOREM LaunchCorrect == ASSUME Prompt PROVE LSpec => []LaunchAgrees
<1>1. LaunchInv /\ [LNext]_allVars => LaunchInv'
  BY LaunchInvStep
<1>2. LaunchInv => LaunchAgrees
  BY DEF LaunchInv, Handshake, LaunchAgrees, HandshakeAgrees
<1> QED BY <1>1, <1>2, LaunchInvInit, PTL DEF LSpec
=============================================================================
