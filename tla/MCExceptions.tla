---------------------------- MODULE MCExceptions ----------------------------
(* Instances of Exceptions for TLC: the firmware profiles of the runs. *)
EXTENDS Exceptions

\* Firmware as the SDK and an RTOS write it: priorities set in Thread mode,
\* SVC only where SVCall outranks the caller.
LawfulGuest == {"svc", "prio", "fault", "faultmask", "basepri"}

\* Firmware without discipline, with IT blocks and the JIT.
AnyGuest == {"svc", "svcAnywhere", "prio", "prioAnywhere", "fault", "it", "jit"}

\* The JIT, where an interrupt may wait behind an SVC.
JitGuest == {"svc", "prio", "jit"}

\* IT blocks and interrupts only.
ItGuest == {"it"}
=============================================================================
