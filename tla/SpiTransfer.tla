---------------------------- MODULE SpiTransfer ----------------------------
(* The block transfer of the SD card's SPI driver (sd_driver/spi.c): one    *)
(* thread programs two DMA channels, starts them together and waits on a    *)
(* semaphore that the receive channel's completion interrupt releases, for  *)
(* at most a second.  The DMA engine, the SPI FIFO and the interrupt run     *)
(* beside the thread.  One core: a pending interrupt is taken before the     *)
(* thread's next statement.                                                  *)
EXTENDS Naturals

CONSTANTS
    BlockSize,  \* XFER_BLOCK_SIZE, the elements of a transfer
    Depth,      \* bytes the SPI FIFOs hold between the two channels
    Overruns    \* whether a byte can be lost although both channels run (71-72)

ASSUME SizeAssumption == BlockSize \in Nat \ {0} /\ Depth \in Nat \ {0}
ASSUME OverrunAssumption == Overruns \in BOOLEAN

VARIABLES
    pc,      \* where spi_transfer stands, "idle" between calls
    sem,     \* permits of this->sem, at most 1
    irq,     \* the receive channel's bit of ints0
    tx, rx,  \* elements each channel still has to move; busy iff not 0
    fifo,    \* bytes clocked in and not yet read by the receive channel
    stale,   \* those of them that answer an earlier call
    got,     \* elements written at the current call's buffer and past it
    dirty,   \* whether one of them answered an earlier call
    rc,      \* what the last call returned
    late,    \* whether some call has timed out since my_spi_init
    halted   \* a myASSERT has failed

vars == <<pc, sem, irq, tx, rx, fifo, stale, got, dirty, rc, late, halted>>

TypeOK ==
    /\ pc \in {"idle", "configure", "start", "acquire", "finishTx", "finishRx"}
    /\ sem \in 0..1
    /\ irq \in BOOLEAN
    /\ tx \in 0..BlockSize /\ rx \in 0..BlockSize
    /\ fifo \in 0..Depth /\ stale \in 0..fifo
    /\ got \in 0..2 * BlockSize
    /\ dirty \in BOOLEAN /\ rc \in BOOLEAN /\ late \in BOOLEAN
    /\ halted \in BOOLEAN

\* my_spi_init: sem_init(&this->sem, 0, 1), channels claimed and idle, the
\* completion interrupt enabled for the receive channel alone.
Init ==
    /\ pc = "idle" /\ sem = 0 /\ irq = FALSE
    /\ tx = 0 /\ rx = 0 /\ fifo = 0 /\ stale = 0
    /\ got = 0 /\ dirty = FALSE
    /\ rc = FALSE /\ late = FALSE /\ halted = FALSE

Running == ~halted /\ ~irq

(***************************************************************************)
(* The thread.                                                             *)
(***************************************************************************)
\* A caller enters spi_transfer with a buffer of its own; nothing on entry
\* looks at the channels or at the semaphore.  The interrupt bit is cleared.
Call ==
    /\ Running /\ pc = "idle"
    /\ pc' = "configure"
    /\ irq' = FALSE
    /\ UNCHANGED <<sem, tx, rx, fifo, stale, got, dirty, rc, late, halted>>

\* Mutant: the write address is left where the last block ended.
KeepAddress ==
    /\ Running /\ pc = "configure"
    /\ stale' = fifo
    /\ pc' = "start"
    /\ UNCHANGED <<sem, irq, tx, rx, fifo, got, dirty, rc, late, halted>>

\* dma_channel_configure writes both address registers, and they take effect
\* at once, also on a channel that still moves an earlier block; the count is
\* only reloaded by a trigger.
Configure ==
    /\ Running /\ pc = "configure"
    /\ got' = 0 /\ dirty' = FALSE
    /\ stale' = fifo
    /\ pc' = "start"
    /\ UNCHANGED <<sem, irq, tx, rx, fifo, rc, late, halted>>

\* What a trigger does to a channel: an idle one starts on a whole block, a
\* busy one ignores it.
Triggered(left) == IF left = 0 THEN BlockSize ELSE left

\* Mutant: the receive channel is programmed for one element too few.
ShortStart ==
    /\ Running /\ pc = "start"
    /\ tx' = Triggered(tx) /\ rx' = IF rx = 0 THEN BlockSize - 1 ELSE rx
    /\ pc' = "acquire"
    /\ UNCHANGED <<sem, irq, fifo, stale, got, dirty, rc, late, halted>>

\* dma_start_channel_mask starts the two at the same instant.
Start ==
    /\ Running /\ pc = "start"
    /\ tx' = Triggered(tx) /\ rx' = Triggered(rx)
    /\ pc' = "acquire"
    /\ UNCHANGED <<sem, irq, fifo, stale, got, dirty, rc, late, halted>>

\* Mutant: the notification is looked at and not taken.
PeekAcquire ==
    /\ Running /\ pc = "acquire" /\ sem = 1
    /\ pc' = "finishTx"
    /\ UNCHANGED <<sem, irq, tx, rx, fifo, stale, got, dirty, rc, late, halted>>

Acquire ==
    /\ Running /\ pc = "acquire" /\ sem = 1
    /\ sem' = 0
    /\ pc' = "finishTx"
    /\ UNCHANGED <<irq, tx, rx, fifo, stale, got, dirty, rc, late, halted>>

\* Mutant: the semaphore is waited on for ever.
NeverTimeout == FALSE /\ UNCHANGED vars

\* A second without a permit: the call returns false and leaves the channels
\* and the semaphore as they are.
Timeout ==
    /\ Running /\ pc = "acquire" /\ sem = 0
    /\ pc' = "idle" /\ rc' = FALSE /\ late' = TRUE
    /\ UNCHANGED <<sem, irq, tx, rx, fifo, stale, got, dirty, halted>>

\* Mutant: the wait for the transmit channel is dropped.
SkipTx ==
    /\ Running /\ pc = "finishTx"
    /\ pc' = "finishRx"
    /\ UNCHANGED <<sem, irq, tx, rx, fifo, stale, got, dirty, rc, late, halted>>

\* dma_channel_wait_for_finish_blocking on the transmit, then on the receive
\* channel: busy waits without a limit.
FinishTx ==
    /\ Running /\ pc = "finishTx" /\ tx = 0
    /\ pc' = "finishRx"
    /\ UNCHANGED <<sem, irq, tx, rx, fifo, stale, got, dirty, rc, late, halted>>

FinishRx ==
    /\ Running /\ pc = "finishRx" /\ rx = 0
    /\ pc' = "idle" /\ rc' = TRUE
    /\ halted' = (tx # 0)   \* myASSERT(!dma_channel_is_busy(this->tx_dma))
    /\ UNCHANGED <<sem, irq, tx, rx, fifo, stale, got, dirty, late>>

(***************************************************************************)
(* The interrupt: spi_irq_handler.                                         *)
(***************************************************************************)
Isr ==
    /\ ~halted /\ irq
    /\ irq' = FALSE
    /\ IF rx # 0
       THEN halted' = TRUE /\ UNCHANGED sem
       ELSE sem' = 1 /\ UNCHANGED halted   \* capped: max_permits is 1
    /\ UNCHANGED <<pc, tx, rx, fifo, stale, got, dirty, rc, late>>

(***************************************************************************)
(* The hardware.                                                           *)
(***************************************************************************)
\* The transmit channel feeds a byte and the byte that answers it arrives.
TxMove ==
    /\ tx > 0 /\ fifo < Depth
    /\ tx' = tx - 1 /\ fifo' = fifo + 1
    /\ UNCHANGED <<pc, sem, irq, rx, stale, got, dirty, rc, late, halted>>

\* The receive FIFO is full and the arriving byte is lost: always when no
\* channel empties it, and in extreme cases when one does.
Overrun ==
    /\ tx > 0 /\ fifo = Depth
    /\ Overruns \/ rx = 0
    /\ tx' = tx - 1
    /\ UNCHANGED <<pc, sem, irq, rx, fifo, stale, got, dirty, rc, late, halted>>

\* The receive channel writes the oldest byte to the buffer it points at;
\* the last element of its count raises the interrupt.
RxMove ==
    /\ rx > 0 /\ fifo > 0
    /\ rx' = rx - 1 /\ fifo' = fifo - 1
    /\ got' = got + 1
    /\ dirty' = (dirty \/ stale > 0)
    /\ stale' = IF stale > 0 THEN stale - 1 ELSE 0
    /\ irq' = (irq \/ rx = 1)
    /\ UNCHANGED <<pc, sem, tx, rc, late, halted>>

Thread == Call \/ Configure \/ Start \/ Acquire \/ Timeout \/ FinishTx \/ FinishRx
Hardware == TxMove \/ Overrun \/ RxMove
Next == Thread \/ Isr \/ Hardware

Spec == Init /\ [][Next]_vars

\* The thread and the interrupt run whenever they can, the DMA engine serves
\* its requests, and a second passes.  A caller need not call.
Fairness ==
    /\ WF_vars(Configure) /\ WF_vars(Start) /\ WF_vars(Acquire)
    /\ WF_vars(Timeout) /\ WF_vars(FinishTx) /\ WF_vars(FinishRx)
    /\ WF_vars(Isr) /\ WF_vars(TxMove \/ Overrun) /\ WF_vars(RxMove)

FairSpec == Spec /\ Fairness

(***************************************************************************)
(* Properties.                                                             *)
(***************************************************************************)
\* No myASSERT of spi_transfer or of its interrupt handler fails, also after
\* calls that timed out: the handler always finds the receive channel idle
\* (24), the caller always finds both idle (87-88).
AssertsHold == ~halted

\* As long as no call has timed out, a call that returned true filled its
\* whole buffer, wrote nothing past it, and with no byte that answers an
\* earlier call.  (After a timeout none of this holds: the channel is neither
\* aborted nor drained, see the README.)
BlockComplete == (pc = "idle" /\ rc /\ ~late) => got = BlockSize /\ ~dirty

\* As long as no call has timed out, no completion outlives its call: the next
\* call cannot take the permit of this one and skip its own one-second limit.
PermitBelongsToCall == (pc = "idle" /\ ~late) => sem = 0 /\ ~irq

\* As long as no call has timed out, a call comes back, also when a byte of it
\* is lost and only the one-second limit can end it.
CallReturnsUntilTimeout == (pc # "idle" /\ ~late) ~> (pc = "idle")

\* A call comes back, with the block or with a timeout (comments at 75, 77).
EveryCallReturns == (pc # "idle") ~> (pc = "idle")
=============================================================================
