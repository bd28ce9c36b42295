------------------------------- MODULE RmiiTx -------------------------------
(* Frame transmission of the RMII Ethernet driver: a call of                 *)
(* netif_rmii_ethernet_output copies a frame from its pbufs, waits for the   *)
(* DMA, spreads the frame over tx_frame_bits and starts the DMA, which feeds *)
(* the transmit state machine while the next call is already at work on the  *)
(* same buffers.  A frame is counted in pieces; what the state machine's     *)
(* FIFO holds back counts as sent, as nothing can overtake it there.         *)
EXTENDS Naturals, Sequences

CONSTANTS
    Callers,  \* who calls linkoutput: the loop, or also another core
    Frames,   \* the frames that lwIP sends
    Size,     \* the pieces of each
    Least,    \* pieces of 60 bytes
    MaxSize,  \* pieces of tx_frame
    Nothing,  \* no frame
    MaxCalls  \* bound: calls

ASSUME TxAssumption ==
    /\ MaxSize \in Nat /\ Least \in 1..MaxSize /\ MaxCalls \in Nat
    /\ Size \in [Frames -> 1..MaxSize]
    /\ Nothing \notin Frames

VARIABLES
    pc,      \* of each caller: "idle", "crc", "wait" or "encode"
    local,   \* its [frame, len, crc, index]: argument, tot_len, crc, index
    frame,   \* tx_frame
    bits,    \* tx_frame_bits
    dma,     \* [at, count]: busy iff at < count
    wire,    \* what has been sent since the DMA was started last
    due,     \* history: the frame it was started for
    calls

vars == <<pc, local, frame, bits, dma, wire, due, calls>>

\* A piece of a frame, as bytes and as dibits.
Zero == <<Nothing, 0>>
Data(b) == [kind |-> "data", of |-> b]
Fcs(b) == [kind |-> "fcs", of |-> b]
Preamble == [kind |-> "preamble", of |-> <<>>]
Gap == [kind |-> "gap", of |-> <<>>]

\* What has to go over the wire for frame f: padded, with its check sequence.
Length(f) == IF Size[f] < Least THEN Least ELSE Size[f]
Bytes(f) == [i \in 1..Length(f) |-> IF i =< Size[f] THEN <<f, i>> ELSE Zero]
Coded(f) == [k \in 1..(Length(f) + 3) |->
                IF k = 1 THEN Preamble
                ELSE IF k =< Length(f) + 1 THEN Data(Bytes(f)[k - 1])
                ELSE IF k = Length(f) + 2 THEN Fcs(Bytes(f)) ELSE Gap]

Byte == (Frames \X (1..MaxSize)) \cup {Zero}
Busy == dma.at < dma.count
NoCall == [frame |-> Nothing, len |-> 0, crc |-> <<>>, index |-> 0]

TypeOK ==
    /\ pc \in [Callers -> {"idle", "crc", "wait", "encode"}]
    /\ \A c \in Callers :
        /\ local[c].frame \in Frames \cup {Nothing} /\ local[c].len \in 0..MaxSize
        /\ local[c].index \in 0..(local[c].len + 3)
    /\ frame \in [1..MaxSize -> Byte]
    /\ DOMAIN bits = 1..(MaxSize + 3)
    /\ dma.at \in 0..dma.count /\ dma.count \in 0..(MaxSize + 3)
    /\ due \in Frames \cup {Nothing} /\ calls \in 0..MaxCalls

Init ==
    /\ pc = [c \in Callers |-> "idle"] /\ local = [c \in Callers |-> NoCall]
    /\ frame = [i \in 1..MaxSize |-> Zero]
    /\ bits = [k \in 1..(MaxSize + 3) |-> Gap]
    /\ dma = [at |-> 0, count |-> 0] /\ wire = <<>> /\ due = Nothing /\ calls = 0
-----------------------------------------------------------------------------
\* memset, the chain of pbufs, and the padding.
Output(c, f) ==
    /\ pc[c] = "idle" /\ calls < MaxCalls /\ calls' = calls + 1
    /\ frame' = [i \in 1..MaxSize |-> IF i =< Size[f] THEN <<f, i>> ELSE Zero]
    /\ local' = [local EXCEPT ![c] =
           [frame |-> f, len |-> Length(f), crc |-> <<>>, index |-> 0]]
    /\ pc' = [pc EXCEPT ![c] = "crc"]
    /\ UNCHANGED <<bits, dma, wire, due>>

\* ethernet_frame_crc.
Crc(c) ==
    /\ pc[c] = "crc"
    /\ local' = [local EXCEPT ![c].crc = [i \in 1..local[c].len |-> frame[i]]]
    /\ pc' = [pc EXCEPT ![c] = "wait"]
    /\ UNCHANGED <<frame, bits, dma, wire, due, calls>>

\* Mutant: nobody waits.
NoWait(c) ==
    /\ pc[c] = "wait" /\ pc' = [pc EXCEPT ![c] = "encode"]
    /\ UNCHANGED <<local, frame, bits, dma, wire, due, calls>>

\* dma_channel_wait_for_finish_blocking.
Wait(c) ==
    /\ pc[c] = "wait" /\ ~Busy /\ pc' = [pc EXCEPT ![c] = "encode"]
    /\ UNCHANGED <<local, frame, bits, dma, wire, due, calls>>

\* The next piece of tx_frame_bits.
Encode(c) ==
    LET k == local[c].index + 1
        len == local[c].len
    IN
    /\ pc[c] = "encode" /\ local[c].index < len + 3
    /\ bits' = [bits EXCEPT ![k] =
           IF k = 1 THEN Preamble
           ELSE IF k =< len + 1 THEN Data(frame[k - 1])
           ELSE IF k = len + 2 THEN Fcs(local[c].crc) ELSE Gap]
    /\ local' = [local EXCEPT ![c].index = k]
    /\ UNCHANGED <<pc, frame, dma, wire, due, calls>>

\* Mutants: the gap is not counted; the index is not reset.
ShortStart(c) ==
    /\ pc[c] = "encode" /\ local[c].index = local[c].len + 3
    /\ dma' = [at |-> 0, count |-> local[c].index - 1]
    /\ wire' = <<>> /\ due' = local[c].frame
    /\ pc' = [pc EXCEPT ![c] = "idle"]
    /\ local' = [local EXCEPT ![c] = NoCall]
    /\ UNCHANGED <<frame, bits, calls>>

KeepIndex(c) ==
    /\ pc[c] = "encode" /\ local[c].index = local[c].len + 3
    /\ dma' = [at |-> 0, count |-> local[c].index]
    /\ wire' = <<>> /\ due' = local[c].frame
    /\ pc' = [pc EXCEPT ![c] = "idle"]
    /\ local' = [local EXCEPT ![c].len = 0]
    /\ UNCHANGED <<frame, bits, calls>>

\* dma_channel_configure and dma_channel_start.
Start(c) ==
    /\ pc[c] = "encode" /\ local[c].index = local[c].len + 3
    /\ dma' = [at |-> 0, count |-> local[c].index]
    /\ wire' = <<>> /\ due' = local[c].frame
    /\ pc' = [pc EXCEPT ![c] = "idle"]
    /\ local' = [local EXCEPT ![c] = NoCall]
    /\ UNCHANGED <<frame, bits, calls>>

\* The DMA fetches a piece for the state machine.
Send ==
    /\ Busy /\ dma' = [dma EXCEPT !.at = @ + 1]
    /\ wire' = Append(wire, bits[dma.at + 1])
    /\ UNCHANGED <<pc, local, frame, bits, due, calls>>

Step(c) == Crc(c) \/ Wait(c) \/ Encode(c) \/ Start(c)
Next == Send \/ \E c \in Callers : Step(c) \/ \E f \in Frames : Output(c, f)

Spec == Init /\ [][Next]_vars
-----------------------------------------------------------------------------
\* What goes over the wire is the frame the DMA was started for, its padding
\* zeros and its check sequence its own, although the next frame is prepared
\* in tx_frame while it is sent (the wait at 251 stands between the two).
WireIsFrame ==
    due # Nothing =>
        /\ Len(wire) =< Len(Coded(due))
        /\ \A k \in 1..Len(wire) : wire[k] = Coded(due)[k]

\* The DMA is started again only after the frame before, with the gap behind
\* it, has been handed to the state machine to its end.
NoFrameIsCut ==
    [][(\E d \in Callers : Start(d)) /\ due # Nothing => wire = Coded(due)]_vars
=============================================================================
