----------------------------- MODULE FifoQueue ------------------------------
(***************************************************************************)
(* What the mailboxes between the two cores promise (Pico-emu_Guide.md,    *)
(* 8.2): a bounded first-in first-out queue per receiving core.  In a step *)
(* a queue stays, gains a word at its end, loses the word at its front or  *)
(* is emptied.  A write is refused, and WOF raised, only when the queue of *)
(* the other core is full; ROE is raised only by a read of an empty queue. *)
(***************************************************************************)
EXTENDS Naturals, Sequences

CONSTANTS Word, Depth

Cores == {0, 1}
Other(c) == 1 - c

VARIABLES q, wof, roe

vars == <<q, wof, roe>>

Init == q = [c \in Cores |-> <<>>] /\ wof = {} /\ roe = {}

Put(c) == Len(q[c]) < Depth /\ \E w \in Word : q'[c] = Append(q[c], w)
Take(c) == q[c] # <<>> /\ q'[c] = Tail(q[c])
Clear(c) == q'[c] = <<>>

Next ==
  /\ q' = [c \in Cores |-> q'[c]]
  /\ \A c \in Cores : q'[c] = q[c] \/ Put(c) \/ Take(c) \/ Clear(c)
  /\ wof' \subseteq Cores /\ roe' \subseteq Cores
  /\ \A c \in wof' \ wof : Len(q[Other(c)]) = Depth /\ q' = q
  /\ \A c \in roe' \ roe : q[c] = <<>> /\ q' = q

Spec == Init /\ [][Next]_vars
=============================================================================
