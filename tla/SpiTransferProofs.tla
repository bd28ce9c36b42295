------------------------- MODULE SpiTransferProofs -------------------------
(* Safety of SpiTransfer for every block size, every FIFO depth, and with or *)
(* without lost bytes.                                                       *)
EXTENDS SpiTransfer, TLAPS

\* True after any history: the interrupt is pending only while the receive
\* channel is idle, and what that channel may still write is bounded.
Always ==
    /\ ~halted
    /\ irq => rx = 0
    /\ pc = "finishRx" => tx = 0
    /\ got + rx <= 2 * BlockSize
    /\ pc = "start" => got + rx <= BlockSize

\* TypeOK in two parts: the provers take the Booleans apart from the numbers.
Numbers ==
    /\ pc \in {"idle", "configure", "start", "acquire", "finishTx", "finishRx"}
    /\ sem \in 0..1
    /\ tx \in 0..BlockSize /\ rx \in 0..BlockSize
    /\ fifo \in 0..Depth /\ stale \in 0..fifo
    /\ got \in 0..2 * BlockSize

Flags ==
    /\ irq \in BOOLEAN /\ dirty \in BOOLEAN /\ rc \in BOOLEAN
    /\ late \in BOOLEAN /\ halted \in BOOLEAN

InFlight == pc \in {"acquire", "finishTx", "finishRx"}

\* True as long as no call has timed out: outside a call everything is at
\* rest, inside it each byte of the block is written or still to come, and a
\* permit or a pending interrupt means the receive channel is through.
Clean ==
    /\ fifo + tx <= rx
    /\ stale = 0 /\ ~dirty
    /\ ~InFlight => rx = 0 /\ sem = 0 /\ ~irq
    /\ pc = "start" => got = 0
    /\ InFlight => got + rx = BlockSize
    /\ pc = "acquire" => (sem = 1 => rx = 0 /\ ~irq)
    /\ pc \in {"finishTx", "finishRx"} => rx = 0 /\ sem = 0 /\ ~irq
    /\ (pc = "idle" /\ rc) => got = BlockSize

\* The inductive invariant.
IInv == TypeOK /\ Always /\ (~late => Clean)

\* The driver comes out of my_spi_init at rest.
LEMMA InitIInv == Init => IInv
<1> USE SizeAssumption DEF SizeAssumption
<1>1. Init => TypeOK
  <2>1. Init => Numbers
    BY DEF Init, Numbers
  <2>2. Init => Flags
    BY DEF Init, Flags
  <2> QED
    BY <2>1, <2>2 DEF TypeOK, Numbers, Flags
<1>2. Init => Always
  BY DEF Init, Always
<1>3. Init => Clean
  BY DEF Init, Clean, InFlight
<1> QED
  BY <1>1, <1>2, <1>3 DEF IInv

\* Every statement of the thread, the interrupt handler and every move of the
\* DMA engine preserve the invariant.
LEMMA NextIInv == IInv /\ [Next]_vars => IInv'
<1> SUFFICES ASSUME IInv, [Next]_vars PROVE IInv'
  OBVIOUS
<1> USE SizeAssumption DEF SizeAssumption
<1>1. CASE Call
  <2>1. TypeOK' /\ Always'
    BY <1>1 DEF Call, IInv, TypeOK, Always, Clean, InFlight, Running
  <2>2. ~late' => Clean'
    BY <1>1 DEF Call, IInv, TypeOK, Always, Clean, InFlight, Running
  <2> QED
    BY <2>1, <2>2 DEF IInv
<1>2. CASE Configure
  <2>1. TypeOK' /\ Always'
    <3>1. Numbers'
      BY <1>2 DEF Configure, Numbers, IInv, TypeOK, Always, Running
    <3>2. Flags'
      BY <1>2 DEF Configure, Flags, IInv, TypeOK, Always, Running
    <3>3. Always'
      BY <1>2 DEF Configure, IInv, TypeOK, Always, Running
    <3> QED
      BY <3>1, <3>2, <3>3 DEF TypeOK, Numbers, Flags
  <2>2. ~late' => Clean'
    BY <1>2 DEF Configure, IInv, TypeOK, Always, Clean, InFlight, Running
  <2> QED
    BY <2>1, <2>2 DEF IInv
<1>3. CASE Start
  <2>1. TypeOK' /\ Always'
    BY <1>3 DEF Start, Triggered, IInv, TypeOK, Always, Clean, InFlight, Running
  <2>2. ~late' => Clean'
    BY <1>3 DEF Start, Triggered, IInv, TypeOK, Always, Clean, InFlight, Running
  <2> QED
    BY <2>1, <2>2 DEF IInv
<1>4. CASE Acquire
  <2>1. TypeOK' /\ Always'
    BY <1>4 DEF Acquire, IInv, TypeOK, Always, Clean, InFlight, Running
  <2>2. ~late' => Clean'
    BY <1>4 DEF Acquire, IInv, TypeOK, Always, Clean, InFlight, Running
  <2> QED
    BY <2>1, <2>2 DEF IInv
<1>5. CASE Timeout
  <2>1. TypeOK' /\ Always'
    BY <1>5 DEF Timeout, IInv, TypeOK, Always, Clean, InFlight, Running
  <2>2. ~late' => Clean'
    BY <1>5 DEF Timeout, IInv, TypeOK, Always, Clean, InFlight, Running
  <2> QED
    BY <2>1, <2>2 DEF IInv
<1>6. CASE FinishTx
  <2>1. TypeOK' /\ Always'
    BY <1>6 DEF FinishTx, IInv, TypeOK, Always, Clean, InFlight, Running
  <2>2. ~late' => Clean'
    BY <1>6 DEF FinishTx, IInv, TypeOK, Always, Clean, InFlight, Running
  <2> QED
    BY <2>1, <2>2 DEF IInv
<1>7. CASE FinishRx
  <2>1. TypeOK' /\ Always'
    BY <1>7 DEF FinishRx, IInv, TypeOK, Always, Clean, InFlight, Running
  <2>2. ~late' => Clean'
    BY <1>7 DEF FinishRx, IInv, TypeOK, Always, Clean, InFlight, Running
  <2> QED
    BY <2>1, <2>2 DEF IInv
<1>8. CASE Isr
  <2>1. TypeOK' /\ Always'
    <3>1. Numbers'
      BY <1>8 DEF Isr, Numbers, IInv, TypeOK, Always, Running
    <3>2. Flags'
      BY <1>8 DEF Isr, Flags, IInv, TypeOK, Always, Running
    <3>3. Always'
      BY <1>8 DEF Isr, IInv, TypeOK, Always, Running
    <3> QED
      BY <3>1, <3>2, <3>3 DEF TypeOK, Numbers, Flags
  <2>2. ~late' => Clean'
    BY <1>8 DEF Isr, IInv, TypeOK, Always, Clean, InFlight, Running
  <2> QED
    BY <2>1, <2>2 DEF IInv
<1>9. CASE TxMove
  <2>1. TypeOK' /\ Always'
    BY <1>9 DEF TxMove, IInv, TypeOK, Always, Clean, InFlight, Running
  <2>2. ~late' => Clean'
    BY <1>9 DEF TxMove, IInv, TypeOK, Always, Clean, InFlight, Running
  <2> QED
    BY <2>1, <2>2 DEF IInv
<1>10. CASE Overrun
  <2>1. TypeOK' /\ Always'
    BY <1>10 DEF Overrun, IInv, TypeOK, Always, Clean, InFlight, Running
  <2>2. ~late' => Clean'
    BY <1>10 DEF Overrun, IInv, TypeOK, Always, Clean, InFlight, Running
  <2> QED
    BY <2>1, <2>2 DEF IInv
<1>11. CASE RxMove
  <2>1. TypeOK' /\ Always'
    BY <1>11 DEF RxMove, IInv, TypeOK, Always, Clean, InFlight, Running
  <2>2. ~late' => Clean'
    BY <1>11 DEF RxMove, IInv, TypeOK, Always, Clean, InFlight, Running
  <2> QED
    BY <2>1, <2>2 DEF IInv
<1>12. CASE UNCHANGED vars
  BY <1>12 DEF vars, IInv, TypeOK, Always, Clean, InFlight
<1> QED
  BY <1>1, <1>2, <1>3, <1>4, <1>5, <1>6, <1>7, <1>8, <1>9, <1>10, <1>11, <1>12 DEF Next, Thread, Hardware

\* The invariant holds in every reachable state.
THEOREM Invariance == Spec => []IInv
  BY InitIInv, NextIInv, PTL DEF Spec

\* Every variable stays in its type; in particular the receive channel never
\* writes more than a second block behind the buffer it was pointed at.
THEOREM TypeCorrect == Spec => []TypeOK
<1>1. IInv => TypeOK
  BY DEF IInv
<1> QED
  BY <1>1, Invariance, PTL

\* No myASSERT of spi_transfer (87-88) or of spi_irq_handler (24) fails,
\* whatever timed out before.
THEOREM AssertsNeverFail == Spec => []AssertsHold
<1>1. IInv => AssertsHold
  BY DEF IInv, Always, AssertsHold
<1> QED
  BY <1>1, Invariance, PTL

\* Until a call times out, "true" means the caller's whole block, and nothing
\* but its block.
THEOREM TrueMeansBlock == Spec => []BlockComplete
<1>1. IInv => BlockComplete
  BY DEF IInv, Clean, BlockComplete
<1> QED
  BY <1>1, Invariance, PTL

\* Until a call times out, the semaphore holds no permit between calls.
THEOREM NoStalePermit == Spec => []PermitBelongsToCall
<1>1. IInv => PermitBelongsToCall
  BY DEF IInv, Clean, InFlight, PermitBelongsToCall
<1> QED
  BY <1>1, Invariance, PTL
=============================================================================
