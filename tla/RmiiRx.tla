------------------------------- MODULE RmiiRx -------------------------------
(* Frame reception of the RMII Ethernet driver (rmii_ethernet.c): a polling  *)
(* loop that arms a DMA channel and a PIO state machine for one frame, the   *)
(* interrupt on the falling edge of CRS_DV that ends it, and the hardware    *)
(* between them.  A frame is counted in pieces of at most 500 bytes, its     *)
(* check sequence included: the 1500 bytes the DMA is programmed for are     *)
(* three pieces, the frames of more than 1500 bytes have four.               *)
EXTENDS Naturals, Sequences, FiniteSets

CONSTANTS
    Count,     \* pieces the receive DMA is programmed for
    Lengths,   \* pieces of the frames on the wire
    MaxFrames, \* bound: frames that arrive
    Pool,      \* PBUF_POOL_SIZE
    Idle       \* what the state machine samples between frames

ASSUME RxAssumption ==
    /\ {Count, MaxFrames, Pool} \subseteq Nat \ {0}
    /\ Lengths \subseteq Nat \ {0}
    /\ Idle \notin [frame : Nat, at : Nat, of : Nat]

VARIABLES
    pc,       \* where netif_rmii_ethernet_poll stands
    link,     \* the link flag of the netif
    left,     \* pieces the receive DMA has still to move; busy iff not 0
    sm,       \* the receive state machine: "off", "hunt" (for a start) or "on"
    fifo,     \* whether its FIFO holds bytes no DMA has fetched
    irqOn,    \* the falling-edge interrupt is enabled
    edge,     \* ... and pending
    junk,     \* rx_frame starts with bytes of an earlier frame
    data,     \* the pieces written to rx_frame since it was cleared
    line,     \* the frame on the wire: [id, len, sent], sent = len when idle
    delivered,\* frames handed to lwIP and to the monitor, in order
    owed,     \* the last frame that began while the receiver was armed: [id,
              \* clean], clean if rx_frame was really empty by then
    pool,     \* free pbufs
    halted    \* an assertion of lwIP has failed

hw == <<left, sm, fifo, irqOn, edge>>
buf == <<junk, data>>
ghost == <<delivered, owed>>
vars == <<pc, link, hw, buf, line, ghost, pool, halted>>

Piece == [frame : 1..MaxFrames, at : Nat \ {0}, of : Lengths] \cup {Idle}
PC == {"poll", "read", "clear", "start", "sm", "irq", "timeouts"}

TypeOK ==
    /\ pc \in PC /\ link \in BOOLEAN
    /\ left \in 0..Count /\ sm \in {"off", "hunt", "on"}
    /\ fifo \in BOOLEAN /\ irqOn \in BOOLEAN /\ edge \in BOOLEAN
    /\ junk \in BOOLEAN /\ data \in Seq(Piece) /\ Len(data) <= Count
    /\ line \in [id : 0..MaxFrames, len : Lengths \cup {0}, sent : Nat]
    /\ line.sent <= line.len
    /\ delivered \in Seq(1..MaxFrames) /\ owed \in [id : 0..MaxFrames, clean : BOOLEAN]
    /\ pool \in 0..Pool /\ halted \in BOOLEAN

\* netif_rmii_ethernet_low_init: everything claimed, nothing armed.
Init ==
    /\ pc = "poll" /\ link = FALSE
    /\ left = 0 /\ sm = "off" /\ fifo = FALSE /\ irqOn = FALSE /\ edge = FALSE
    /\ junk = FALSE /\ data = <<>>
    /\ line = [id |-> 0, len |-> 0, sent |-> 0]
    /\ delivered = <<>> /\ owed = [id |-> 0, clean |-> FALSE]
    /\ pool = Pool /\ halted = FALSE

Quiet == line.sent = line.len
Running == ~halted /\ ~edge   \* the interrupt preempts the loop on its core

(***************************************************************************)
(* The polling loop.                                                       *)
(***************************************************************************)
\* Mutant: rx_frame is read also while the DMA writes it.
PollAnyway ==
    /\ Running /\ pc = "poll"
    /\ link' \in BOOLEAN
    /\ pc' = "read"
    /\ UNCHANGED <<hw, buf, line, ghost, pool, halted>>

\* The link flag follows the PHY, then the DMA is looked at.
Poll ==
    /\ Running /\ pc = "poll"
    /\ link' \in BOOLEAN
    /\ pc' = IF left > 0 THEN "timeouts" ELSE "read"
    /\ UNCHANGED <<hw, buf, line, ghost, pool, halted>>

\* ethernet_frame_length: the shortest prefix of rx_frame that a check
\* sequence follows, i.e. one whole frame at its very beginning.
Received(f) ==
    /\ ~junk /\ data # <<>> /\ data[1] # Idle
    /\ LET n == data[1].of IN
        /\ Len(data) >= n
        /\ \A i \in 1..n : data[i] = [frame |-> f, at |-> i, of |-> n]

\* A whole frame is parsed, counted, copied to a pbuf and given to lwIP.
\* pbuf_alloc fails when the pool is empty, and netif_input asserts a pbuf.
Read ==
    /\ Running /\ pc = "read"
    /\ \/ \E f \in 1..MaxFrames :
            /\ Received(f)
            /\ IF pool = 0
               THEN halted' = TRUE /\ UNCHANGED <<delivered, pool>>
               ELSE /\ delivered' = Append(delivered, f)
                    /\ pool' = pool - 1
                    /\ UNCHANGED halted
       \/ /\ \A f \in 1..MaxFrames : ~Received(f)
          /\ UNCHANGED <<delivered, pool, halted>>
    /\ pc' = "clear"
    /\ UNCHANGED <<link, hw, buf, line, owed>>

\* Mutant: rx_frame is not cleared.
NoMemset ==
    /\ Running /\ pc = "clear"
    /\ pc' = "start"
    /\ UNCHANGED <<link, hw, buf, line, ghost, pool, halted>>

\* memset of rx_frame and dma_channel_configure, which does not start.
Clear ==
    /\ Running /\ pc = "clear"
    /\ junk' = FALSE /\ data' = <<>>
    /\ pc' = "start"
    /\ UNCHANGED <<link, hw, line, ghost, pool, halted>>

\* Mutants: the channel is programmed for a piece too few, or too many.
ShortCount ==
    /\ Running /\ pc = "start"
    /\ left' = Count - 1
    /\ junk' = fifo /\ fifo' = FALSE
    /\ pc' = "sm"
    /\ UNCHANGED <<link, sm, irqOn, edge, data, line, ghost, pool, halted>>

LongCount ==
    /\ Running /\ pc = "start"
    /\ left' = Count + 1
    /\ junk' = fifo /\ fifo' = FALSE
    /\ pc' = "sm"
    /\ UNCHANGED <<link, sm, irqOn, edge, data, line, ghost, pool, halted>>

\* dma_channel_start: the channel at once fetches what the FIFO still holds.
Start ==
    /\ Running /\ pc = "start"
    /\ left' = Count
    /\ junk' = fifo /\ fifo' = FALSE
    /\ pc' = "sm"
    /\ UNCHANGED <<link, sm, irqOn, edge, data, line, ghost, pool, halted>>

\* rmii_ethernet_phy_rx_init: pio_sm_init empties the FIFO and puts the state
\* machine back to the start of its program, which waits for a frame's start.
InitSm ==
    /\ Running /\ pc = "sm"
    /\ sm' = "hunt" /\ fifo' = FALSE
    /\ pc' = "irq"
    /\ UNCHANGED <<link, left, irqOn, edge, buf, line, ghost, pool, halted>>

\* Enabling the interrupt clears an edge that came before.
EnableIrq ==
    /\ Running /\ pc = "irq"
    /\ irqOn' = TRUE /\ edge' = FALSE
    /\ pc' = "timeouts"
    /\ UNCHANGED <<link, left, sm, fifo, buf, line, ghost, pool, halted>>

\* sys_check_timeouts, and round again.
Timeouts ==
    /\ Running /\ pc = "timeouts"
    /\ pc' = "poll"
    /\ UNCHANGED <<link, hw, buf, line, ghost, pool, halted>>

\* Mutant of the interrupt below: the DMA is not aborted.
NoAbort ==
    /\ ~halted /\ edge
    /\ sm' = "off" /\ irqOn' = FALSE /\ edge' = FALSE
    /\ UNCHANGED <<pc, link, left, fifo, buf, line, ghost, pool, halted>>

(***************************************************************************)
(* The interrupt: netif_rmii_ethernet_rx_dv_falling_callback.              *)
(***************************************************************************)
Isr ==
    /\ ~halted /\ edge
    /\ sm' = "off" /\ left' = 0 /\ irqOn' = FALSE /\ edge' = FALSE
    /\ UNCHANGED <<pc, link, fifo, buf, line, ghost, pool, halted>>

(***************************************************************************)
(* The wire, the state machine and the DMA.                                *)
(***************************************************************************)
\* A sampled piece: to rx_frame while the DMA is busy, else to the FIFO,
\* where it stays.
Sampled(p) ==
    IF left > 0
    THEN /\ left' = left - 1 /\ data' = Append(data, p)
         /\ UNCHANGED fifo
    ELSE fifo' = TRUE /\ UNCHANGED <<left, data>>

\* The driver is through with arming.
Armed ==
    /\ pc \in {"timeouts", "poll"}
    /\ sm = "hunt" /\ left > 0 /\ irqOn /\ ~edge

\* A frame begins.
FrameStart(n) ==
    /\ Quiet /\ line.id < MaxFrames
    /\ line' = [id |-> line.id + 1, len |-> n, sent |-> 0]
    /\ sm' = IF sm = "hunt" THEN "on" ELSE sm
    /\ owed' = IF Armed
               THEN [id |-> line.id + 1, clean |-> ~junk /\ data = <<>>] ELSE owed
    /\ UNCHANGED <<pc, link, left, fifo, irqOn, edge, buf, delivered, pool, halted>>

FramePiece ==
    /\ ~Quiet
    /\ line' = [line EXCEPT !.sent = @ + 1]
    /\ IF sm = "on"
       THEN Sampled([frame |-> line.id, at |-> line.sent + 1, of |-> line.len])
       ELSE UNCHANGED <<left, data, fifo>>
    /\ edge' = (edge \/ (irqOn /\ line.sent + 1 = line.len))   \* CRS_DV falls
    /\ UNCHANGED <<pc, link, sm, irqOn, junk, ghost, pool, halted>>

\* A state machine that nobody stopped goes on sampling the idle line.
IdlePiece ==
    /\ Quiet /\ sm = "on"
    /\ Sampled(Idle)
    /\ UNCHANGED <<pc, link, sm, irqOn, edge, junk, line, ghost, pool, halted>>

\* lwIP is through with a pbuf.
Release ==
    /\ pool < Pool
    /\ pool' = pool + 1
    /\ UNCHANGED <<pc, link, hw, buf, line, ghost, halted>>

Loop == Poll \/ Read \/ Clear \/ Start \/ InitSm \/ EnableIrq \/ Timeouts
Hardware == FramePiece \/ IdlePiece \/ \E n \in Lengths : FrameStart(n)
Next == Loop \/ Isr \/ Hardware \/ Release

Spec == Init /\ [][Next]_vars

\* The loop runs on its core, the interrupt is taken, a frame on the wire ends
\* and the state machine keeps sampling.  Frames need not come.
Fairness ==
    /\ WF_vars(Loop) /\ WF_vars(Isr)
    /\ WF_vars(FramePiece) /\ WF_vars(IdlePiece) /\ WF_vars(Release)
FairSpec == Spec /\ Fairness

(***************************************************************************)
(* Properties.                                                             *)
(***************************************************************************)
\* No frame is handed on twice, or after a later one: the buffer that is read
\* never still holds a frame of an earlier turn (396-421).
DeliveredOnce ==
    \A i, j \in 1..Len(delivered) : i < j => delivered[i] < delivered[j]

\* The loop reads and clears rx_frame only while no DMA writes it, whenever
\* the interrupt and the hardware move (393-421).
BufferQuiet == pc \in {"read", "clear", "start"} => left = 0

\* The receiver never goes deaf: it is always made to hunt again, whatever the
\* order of edges, counts running out and steps of the loop (393-436, 298-304).
ReceiverRearms == []<>(sm = "hunt")

\* Every frame that begins while the receiver is armed, with an empty buffer,
\* is handed on.
CleanFrameDelivered == \A f \in 1..MaxFrames :
    (owed = [id |-> f, clean |-> TRUE])
        ~> (\E i \in 1..Len(delivered) : delivered[i] = f)

\* Every frame that begins while the receiver is armed is handed on.
ArmedFrameDelivered == \A f \in 1..MaxFrames :
    (owed.id = f) ~> (\E i \in 1..Len(delivered) : delivered[i] = f)

\* netif_input is never given a null pbuf (its assertion in netif.c).
NoNullInput == ~halted
=============================================================================
