---------------------------- MODULE RmiiTxProofs ----------------------------
(* What RmiiTx guarantees with one caller, for any frames and sizes.  The    *)
(* invariant follows a frame on its way: it is in tx_frame as long as its    *)
(* call runs, its check sequence is computed from there, tx_frame_bits holds *)
(* as much of it as the index has passed, and all of it while the DMA reads. *)
EXTENDS RmiiTx, TLAPS

One(c) == Callers = {c}

\* What may lie in tx_frame_bits.
Item == {Preamble, Gap} \cup {Data(b) : b \in Byte} \cup {Fcs(b) : b \in Seq(Byte)}

Shapes(c) ==
    /\ pc \in [Callers -> {"idle", "crc", "wait", "encode"}]
    /\ local \in [Callers -> [frame : Frames \cup {Nothing}, len : 0..MaxSize,
                              crc : Seq(Byte), index : 0..(MaxSize + 3)]]
    /\ frame \in [1..MaxSize -> Byte]
    /\ bits \in [1..(MaxSize + 3) -> Item]
    /\ dma \in [at : 0..(MaxSize + 3), count : 0..(MaxSize + 3)]
    /\ due \in Frames \cup {Nothing} /\ calls \in 0..MaxCalls
    /\ wire \in Seq(Item)

\* The call in progress.
Caller(c) ==
    LET l == local[c] IN
    /\ pc[c] # "idle" =>
        /\ l.frame \in Frames /\ l.len = Length(l.frame)
        /\ \A i \in 1..MaxSize : frame[i] = IF i =< Size[l.frame] THEN <<l.frame, i>> ELSE Zero
    /\ pc[c] \in {"wait", "encode"} => l.crc = Bytes(l.frame)
    /\ pc[c] = "encode" =>
        /\ ~Busy /\ l.index =< l.len + 3
        /\ \A k \in 1..l.index : bits[k] = Coded(l.frame)[k]
    /\ pc[c] # "encode" => l.index = 0

\* The frame that was started last.
Under ==
    /\ dma.at =< dma.count
    /\ due = Nothing => dma.count = 0
    /\ due # Nothing =>
        /\ dma.count = Length(due) + 3 /\ Len(wire) = dma.at
        /\ \A k \in 1..dma.at : wire[k] = Coded(due)[k]
        /\ Busy => \A k \in 1..dma.count : bits[k] = Coded(due)[k]

TxInv(c) == Shapes(c) /\ Caller(c) /\ Under
-----------------------------------------------------------------------------
LEMMA Bounds == /\ MaxSize \in Nat /\ MaxSize >= 1 /\ MaxCalls \in Nat /\ Nothing \notin Frames
                /\ <<>> \in Seq(Byte)
    BY TxAssumption

\* The length of a frame, and what it is coded as (238-241, 253-283).
LEMMA FrameFacts ==
    ASSUME NEW f \in Frames
    PROVE  /\ Length(f) \in 1..MaxSize /\ Size[f] \in 1..MaxSize
           /\ Bytes(f) \in Seq(Byte) /\ Coded(f) \in Seq(Item)
           /\ Len(Coded(f)) = Length(f) + 3 /\ Len(Bytes(f)) = Length(f)
           /\ DOMAIN Bytes(f) = 1..Length(f)
           /\ \A i \in 1..Length(f) :
                Bytes(f)[i] = IF i =< Size[f] THEN <<f, i>> ELSE Zero
<1>1. Size[f] \in 1..MaxSize /\ Length(f) \in 1..MaxSize
    BY TxAssumption DEF Length
<1>2. ASSUME NEW i \in 1..Length(f)
      PROVE  (IF i =< Size[f] THEN <<f, i>> ELSE Zero) \in Byte
    <2>1. CASE i =< Size[f]
        BY <2>1, <1>1, <1>2, Bounds DEF Byte
    <2>2. CASE ~(i =< Size[f])
        BY <2>2 DEF Byte
    <2> QED BY <2>1, <2>2
<1>3. /\ Bytes(f) \in [1..Length(f) -> Byte] /\ DOMAIN Bytes(f) = 1..Length(f)
      /\ \A i \in 1..Length(f) :
                Bytes(f)[i] = IF i =< Size[f] THEN <<f, i>> ELSE Zero
    BY <1>2 DEF Bytes
<1>4. Bytes(f) \in Seq(Byte) /\ Len(Bytes(f)) = Length(f)
    BY <1>1, <1>3
<1> DEFINE n == Length(f) + 3
<1>5. ASSUME NEW k \in 1..n
      PROVE  (IF k = 1 THEN Preamble
              ELSE IF k =< Length(f) + 1 THEN Data(Bytes(f)[k - 1])
              ELSE IF k = Length(f) + 2 THEN Fcs(Bytes(f)) ELSE Gap) \in Item
    <2>1. CASE k = 1
        BY <2>1 DEF Item
    <2>2. CASE k # 1 /\ k =< Length(f) + 1
        <3>1. k - 1 \in 1..Length(f)
            BY <2>2, <1>1, <1>5
        <3>2. Bytes(f)[k - 1] \in Byte
            BY <3>1, <1>3
        <3> QED BY <2>2, <3>2 DEF Item
    <2>3. CASE k # 1 /\ ~(k =< Length(f) + 1)
        BY <2>3, <1>4 DEF Item
    <2> QED BY <2>1, <2>2, <2>3
<1>6. Coded(f) \in [1..n -> Item]
    BY <1>5 DEF Coded
<1>7. n \in Nat
    BY <1>1
<1> HIDE DEF n
<1>8. Coded(f) \in Seq(Item) /\ Len(Coded(f)) = n
    BY <1>6, <1>7
<1> QED BY <1>1, <1>3, <1>4, <1>8 DEF n

LEMMA TxInit ==
    ASSUME NEW c, One(c), Init PROVE TxInv(c)
<1>1. Zero \in Byte /\ Gap \in Item
    BY DEF Byte, Item
<1>2. Shapes(c)
    BY <1>1, TxAssumption DEF Init, Shapes, NoCall, One
<1>3. Caller(c) /\ Under
    BY DEF Init, Caller, Under, Busy, NoCall, One
<1> QED BY <1>2, <1>3 DEF TxInv

LEMMA OutputStep ==
    ASSUME NEW c, One(c), TxInv(c), NEW f \in Frames, Output(c, f) PROVE TxInv(c)'
<1> USE DEF TxInv
<1>1. c \in Callers
    BY DEF One
<1>2. Length(f) \in 1..MaxSize /\ Size[f] \in 1..MaxSize
    BY FrameFacts
<1>3. ASSUME NEW i \in 1..MaxSize
      PROVE  (IF i =< Size[f] THEN <<f, i>> ELSE Zero) \in Byte
    BY <1>2 DEF Byte
<1>4. frame' \in [1..MaxSize -> Byte]
    BY <1>3 DEF Output
<1>5. Shapes(c)'
    <2>2. 0 \in 0..(MaxSize + 3) /\ Length(f) \in 0..MaxSize
        BY <1>2, Bounds
    <2>3. [frame |-> f, len |-> Length(f), crc |-> <<>>, index |-> 0] \in
            [frame : Frames \cup {Nothing}, len : 0..MaxSize,
             crc : Seq(Byte), index : 0..(MaxSize + 3)]
        BY <2>2, Bounds
    <2>4. calls' \in 0..MaxCalls
        BY Bounds DEF Output, Shapes
    <2> QED BY <2>3, <2>4, <1>4, <1>1 DEF Output, Shapes
<1>6. /\ pc'[c] = "crc" /\ local'[c].frame = f /\ local'[c].len = Length(f)
      /\ local'[c].index = 0
    BY <1>1 DEF Output, Shapes, NoCall
<1>7. Caller(c)'
    BY <1>6 DEF Caller, Output
<1>8. Under'
    BY DEF Under, Output, Busy
<1> QED BY <1>5, <1>7, <1>8

LEMMA CrcStep ==
    ASSUME NEW c, One(c), TxInv(c), Crc(c) PROVE TxInv(c)'
<1> USE DEF TxInv
<1> DEFINE f == local[c].frame
<1> DEFINE s == [i \in 1..local[c].len |-> frame[i]]
<1>1. c \in Callers /\ pc[c] = "crc" /\ f \in Frames /\ local[c].len = Length(f)
    BY DEF One, Crc, Caller
<1>2. /\ Length(f) \in 1..MaxSize /\ DOMAIN Bytes(f) = 1..Length(f)
      /\ \A i \in 1..Length(f) :
            Bytes(f)[i] = IF i =< Size[f] THEN <<f, i>> ELSE Zero
      /\ Bytes(f) \in Seq(Byte)
    BY <1>1, FrameFacts
<1>3. Bytes(f) = [i \in 1..Length(f) |-> IF i =< Size[f] THEN <<f, i>> ELSE Zero]
    BY DEF Bytes
<1>4. \A i \in 1..Length(f) : frame[i] = IF i =< Size[f] THEN <<f, i>> ELSE Zero
    BY <1>1, <1>2, Bounds DEF Caller
<1>5. s = Bytes(f)
    BY <1>1, <1>3, <1>4
<1>6. /\ local' = [local EXCEPT ![c].crc = Bytes(f)]
      /\ pc' = [pc EXCEPT ![c] = "wait"]
      /\ UNCHANGED <<frame, bits, dma, wire, due, calls>>
    BY <1>5 DEF Crc
<1>7. Shapes(c)'
    <2>1. local' \in [Callers -> [frame : Frames \cup {Nothing}, len : 0..MaxSize,
                              crc : Seq(Byte), index : 0..(MaxSize + 3)]]
        <3>1. local[c] \in [frame : Frames \cup {Nothing}, len : 0..MaxSize,
                              crc : Seq(Byte), index : 0..(MaxSize + 3)]
            BY <1>1 DEF Shapes
        <3>2. [local[c] EXCEPT !.crc = Bytes(f)] \in
                  [frame : Frames \cup {Nothing}, len : 0..MaxSize,
                              crc : Seq(Byte), index : 0..(MaxSize + 3)]
            BY <3>1, <1>2
        <3> QED BY <3>2, <1>1, <1>6 DEF Shapes
    <2> QED BY <2>1, <1>1, <1>6 DEF Shapes
<1>8. /\ pc'[c] = "wait" /\ local'[c].crc = Bytes(f) /\ local'[c].frame = f
      /\ local'[c].len = local[c].len /\ local'[c].index = 0
    BY <1>1, <1>6 DEF Shapes, Caller
<1>9. Caller(c)'
    BY <1>1, <1>6, <1>8 DEF Caller
<1>10. Under'
    BY <1>6 DEF Under, Busy
<1> QED BY <1>7, <1>9, <1>10

LEMMA WaitStep ==
    ASSUME NEW c, One(c), TxInv(c), Wait(c) PROVE TxInv(c)'
<1> USE DEF TxInv
<1>1. c \in Callers
    BY DEF One
<1>2. Shapes(c)'
    BY <1>1 DEF Wait, Shapes
<1>3. pc'[c] = "encode" /\ pc[c] = "wait" /\ ~Busy' /\ local'[c].index = 0
    BY <1>1 DEF Wait, Shapes, Caller, Busy
<1>4. local'[c].len + 3 >= 0
    BY <1>1, TxAssumption DEF Wait, Shapes
<1>5. Caller(c)'
    BY <1>3, <1>4, TxAssumption DEF Caller, Wait
<1>6. Under'
    BY DEF Under, Wait, Busy
<1> QED BY <1>2, <1>5, <1>6

LEMMA EncodeStep ==
    ASSUME NEW c, One(c), TxInv(c), Encode(c) PROVE TxInv(c)'
<1> USE DEF TxInv
<1> DEFINE f == local[c].frame
           k == local[c].index + 1
           item == IF k = 1 THEN Preamble
                   ELSE IF k =< local[c].len + 1 THEN Data(frame[k - 1])
                   ELSE IF k = local[c].len + 2 THEN Fcs(local[c].crc) ELSE Gap
<1>1. /\ c \in Callers /\ pc[c] = "encode" /\ f \in Frames
      /\ local[c].len = Length(f) /\ local[c].crc = Bytes(f) /\ ~Busy
      /\ \A i \in 1..MaxSize : frame[i] = IF i =< Size[f] THEN <<f, i>> ELSE Zero
    BY DEF One, Encode, Caller
<1>2. /\ Length(f) \in 1..MaxSize /\ Coded(f) \in Seq(Item)
      /\ Len(Coded(f)) = Length(f) + 3
      /\ \A i \in 1..Length(f) : Bytes(f)[i] = IF i =< Size[f] THEN <<f, i>> ELSE Zero
    BY <1>1, FrameFacts
<1>3. k \in 1..(Length(f) + 3) /\ k \in 1..(MaxSize + 3)
    <2>1. local[c].index \in 0..(MaxSize + 3)
        BY <1>1 DEF Shapes
    <2>2. local[c].index < local[c].len + 3
        BY DEF Encode
    <2>3. local[c].index < Length(f) + 3
        BY <2>2, <1>1
    <2>4. Length(f) \in 1..MaxSize /\ MaxSize \in Nat
        BY <1>2, Bounds
    <2> HIDE DEF f
    <2> QED BY ONLY <2>1, <2>3, <2>4
<1>0. \A i \in 1..Length(f) : frame[i] = Bytes(f)[i]
    <2> TAKE i \in 1..Length(f)
    <2>1. i \in 1..MaxSize
        BY <1>2, Bounds
    <2> DEFINE x == IF i =< Size[f] THEN <<f, i>> ELSE Zero
    <2>2. frame[i] = x
        BY ONLY <2>1, <1>1
    <2>3. Bytes(f)[i] = x
        BY ONLY <1>2, i \in 1..Length(f)
    <2> QED BY ONLY <2>2, <2>3
<1>4. item = Coded(f)[k]
    <2>1. Coded(f)[k] = IF k = 1 THEN Preamble
              ELSE IF k =< Length(f) + 1 THEN Data(Bytes(f)[k - 1])
              ELSE IF k = Length(f) + 2 THEN Fcs(Bytes(f)) ELSE Gap
        BY <1>3 DEF Coded
    <2>2. CASE k # 1 /\ k =< Length(f) + 1
        <3>1. k - 1 \in 1..Length(f)
            BY <2>2, <1>2, <1>3, Bounds
        <3>2. frame[k - 1] = Bytes(f)[k - 1]
            BY <3>1, <1>0
        <3> QED BY <3>2, <2>1, <2>2, <1>1
    <2>3. CASE k = 1 \/ ~(k =< Length(f) + 1)
        BY <2>1, <2>3, <1>1
    <2> QED BY <2>2, <2>3
<1>5. Coded(f)[k] \in Item
    BY <1>2, <1>3
<1>6. /\ bits' = [bits EXCEPT ![k] = Coded(f)[k]]
      /\ local' = [local EXCEPT ![c].index = k]
      /\ UNCHANGED <<pc, frame, dma, wire, due, calls>>
    BY <1>4 DEF Encode
<1>7. k =< local[c].len + 3 /\ local[c].index = k - 1 /\ local[c].index =< local[c].len + 3
    <2>1. local[c].index \in Nat
        BY <1>1 DEF Shapes
    <2> QED BY <2>1, <1>1, <1>2, <1>3
<1> HIDE DEF k, item
<1>8. Shapes(c)'
    <2>1. local' \in [Callers -> [frame : Frames \cup {Nothing}, len : 0..MaxSize,
                              crc : Seq(Byte), index : 0..(MaxSize + 3)]]
        <3>1. local[c] \in [frame : Frames \cup {Nothing}, len : 0..MaxSize,
                              crc : Seq(Byte), index : 0..(MaxSize + 3)]
            BY <1>1 DEF Shapes
        <3>2. k \in 0..(MaxSize + 3)
            BY <1>3, Bounds
        <3>3. [local[c] EXCEPT !.index = k] \in
                  [frame : Frames \cup {Nothing}, len : 0..MaxSize,
                              crc : Seq(Byte), index : 0..(MaxSize + 3)]
            BY <3>1, <3>2
        <3> QED BY <3>3, <1>1, <1>6 DEF Shapes
    <2> QED BY <2>1, <1>5, <1>6 DEF Shapes
<1>9. /\ local'[c].index = k /\ local'[c].frame = f /\ local'[c].len = local[c].len
      /\ local'[c].crc = local[c].crc
    BY <1>1, <1>6 DEF Shapes
<1>10. \A j \in 1..k : bits'[j] = Coded(f)[j]
    <2> TAKE j \in 1..k
    <2>1. bits \in [1..(MaxSize + 3) -> Item] /\ j \in 1..(MaxSize + 3)
        BY <1>3, Bounds DEF Shapes
    <2>2. CASE j = k
        BY <2>1, <2>2, <1>6
    <2>3. CASE j # k
        <3>1. j \in 1..local[c].index
            BY <2>3, <1>3, <1>7
        <3>2. bits[j] = Coded(f)[j]
            BY <3>1, <1>1 DEF Caller
        <3> QED BY <3>2, <2>1, <2>3, <1>6
    <2> QED BY <2>2, <2>3
<1>11. Caller(c)'
    BY <1>1, <1>6, <1>7, <1>9, <1>10 DEF Caller, Busy
<1>12. Under'
    BY <1>1, <1>6 DEF Under, Busy
<1> QED BY <1>8, <1>11, <1>12

LEMMA StartStep ==
    ASSUME NEW c, One(c), TxInv(c), Start(c) PROVE TxInv(c)'
<1> USE DEF TxInv
<1> DEFINE f == local[c].frame
<1>1. /\ c \in Callers /\ pc[c] = "encode" /\ f \in Frames
      /\ local[c].index = Length(f) + 3
      /\ \A k \in 1..local[c].index : bits[k] = Coded(f)[k]
    BY DEF One, Start, Caller
<1>2. Length(f) \in 1..MaxSize /\ f # Nothing
    BY <1>1, FrameFacts, TxAssumption
<1>3. /\ dma' = [at |-> 0, count |-> Length(f) + 3] /\ wire' = <<>> /\ due' = f
      /\ UNCHANGED <<frame, bits, calls>>
    BY <1>1 DEF Start
<1>4. Shapes(c)'
    <2>1. NoCall \in [frame : Frames \cup {Nothing}, len : 0..MaxSize,
                              crc : Seq(Byte), index : 0..(MaxSize + 3)]
        BY TxAssumption DEF NoCall
    <2>2. dma' \in [at : 0..(MaxSize + 3), count : 0..(MaxSize + 3)]
        BY <1>2, <1>3, TxAssumption
    <2> QED BY <2>1, <2>2, <1>1, <1>3 DEF Start, Shapes
<1>5. pc'[c] = "idle" /\ local'[c].index = 0
    BY <1>1 DEF Start, Shapes, NoCall
<1>6. Caller(c)'
    BY <1>5 DEF Caller
<1>7. Under'
    BY <1>1, <1>2, <1>3 DEF Under
<1> QED BY <1>4, <1>6, <1>7

LEMMA SendStep ==
    ASSUME NEW c, One(c), TxInv(c), Send PROVE TxInv(c)'
<1> USE DEF TxInv
<1> DEFINE k == dma.at + 1
<1>1. /\ Busy /\ due # Nothing /\ due \in Frames /\ dma.count = Length(due) + 3
      /\ Len(wire) = dma.at /\ k \in 1..dma.count
      /\ dma.at \in 0..(MaxSize + 3) /\ dma.count \in 0..(MaxSize + 3)
    BY DEF Send, Under, Busy, Shapes
<1>2. bits[k] = Coded(due)[k] /\ bits[k] \in Item
    <2>1. k \in 1..(MaxSize + 3)
        BY <1>1, Bounds
    <2> QED BY <2>1, <1>1 DEF Under, Shapes
<1>3. wire' = Append(wire, bits[k]) /\ dma' = [dma EXCEPT !.at = k]
      /\ UNCHANGED <<pc, local, frame, bits, due, calls>>
    BY DEF Send
<1>4. dma'.at = k /\ dma'.count = dma.count /\ k =< dma.count
    BY <1>1, <1>3 DEF Shapes
<1>5. wire' \in Seq(Item) /\ Len(wire') = k
    BY <1>1, <1>2, <1>3 DEF Shapes
<1>6. \A j \in 1..k : wire'[j] = Coded(due)[j]
    <2> TAKE j \in 1..k
    <2>1. CASE j = k
        BY <2>1, <1>1, <1>2, <1>3 DEF Shapes
    <2>2. CASE j # k
        <3>1. j \in 1..dma.at
            BY <2>2, <1>1
        <3>2. wire[j] = Coded(due)[j]
            BY <3>1, <1>1 DEF Under
        <3> QED BY <3>1, <3>2, <1>1, <1>3 DEF Shapes
    <2> QED BY <2>1, <2>2
<1>7. Shapes(c)'
    <2>1. dma' \in [at : 0..(MaxSize + 3), count : 0..(MaxSize + 3)]
        <3>1. k \in 0..(MaxSize + 3)
            BY <1>1, Bounds
        <3> QED BY <3>1, <1>3 DEF Shapes
    <2> QED BY <2>1, <1>3, <1>5 DEF Shapes
<1>8. Caller(c)'
    BY <1>1, <1>3 DEF Caller
<1>9. Under'
    BY <1>1, <1>3, <1>4, <1>5, <1>6 DEF Under
<1> QED BY <1>7, <1>8, <1>9

LEMMA TxStep ==
    ASSUME NEW c, One(c), TxInv(c), [Next]_vars PROVE TxInv(c)'
<1>1. CASE UNCHANGED vars
    BY <1>1 DEF vars, TxInv, Shapes, Caller, Under, Busy
<1>2. CASE Send
    BY <1>2, SendStep
<1>3. CASE Crc(c)
    BY <1>3, CrcStep
<1>4. CASE Wait(c)
    BY <1>4, WaitStep
<1>5. CASE Encode(c)
    BY <1>5, EncodeStep
<1>6. CASE Start(c)
    BY <1>6, StartStep
<1>7. CASE \E f \in Frames : Output(c, f)
    BY <1>7, OutputStep
<1> QED BY <1>1, <1>2, <1>3, <1>4, <1>5, <1>6, <1>7 DEF Next, Step, One

LEMMA TxInvariant ==
    ASSUME NEW c, One(c) PROVE Spec => []TxInv(c)
<1>1. Init => TxInv(c)
    BY TxInit
<1>2. TxInv(c) /\ [Next]_vars => TxInv(c)'
    BY TxStep
<1> QED BY <1>1, <1>2, PTL DEF Spec
-----------------------------------------------------------------------------
\* Types, and no write of the encoding behind the end of its frame (253-283).
THEOREM TxTypes ==
    ASSUME NEW c, One(c) PROVE Spec => []TypeOK
<1>1. TxInv(c) => TypeOK
    <2> SUFFICES ASSUME TxInv(c) PROVE TypeOK
        OBVIOUS
    <2>1. Shapes(c) /\ Caller(c) /\ Under
        BY DEF TxInv
    <2>2. local[c] \in [frame : Frames \cup {Nothing}, len : 0..MaxSize,
                       crc : Seq(Byte), index : 0..(MaxSize + 3)]
        BY <2>1 DEF Shapes, One
    <2>3. local[c].index \in 0..(local[c].len + 3)
        <3>1. local[c].index =< local[c].len + 3
            <4>1. CASE pc[c] = "encode"
                BY <4>1, <2>1 DEF Caller
            <4>2. CASE pc[c] # "encode"
                <5>1. local[c].index = 0
                    BY <4>2, <2>1 DEF Caller
                <5> QED BY <5>1, <2>2, Bounds
            <4> QED BY <4>1, <4>2
        <3> QED BY <3>1, <2>2, Bounds
    <2>4. \A d \in Callers :
             /\ local[d].frame \in Frames \cup {Nothing} /\ local[d].len \in 0..MaxSize
             /\ local[d].index \in 0..(local[d].len + 3)
        BY <2>2, <2>3 DEF One
    <2>5. dma.at \in 0..dma.count /\ dma.count \in 0..(MaxSize + 3)
        BY <2>1, Bounds DEF Shapes, Under
    <2>6. DOMAIN bits = 1..(MaxSize + 3)
        BY <2>1 DEF Shapes
    <2> QED BY <2>1, <2>4, <2>5, <2>6 DEF Shapes, TypeOK
<1> QED BY <1>1, TxInvariant, PTL

\* With one caller the wire carries the frame that was asked for (251).
THEOREM WireCorrect ==
    ASSUME NEW c, One(c) PROVE Spec => []WireIsFrame
<1>1. TxInv(c) => WireIsFrame
    <2> SUFFICES ASSUME TxInv(c), due # Nothing
                 PROVE  /\ Len(wire) =< Len(Coded(due))
                        /\ \A k \in 1..Len(wire) : wire[k] = Coded(due)[k]
        BY DEF WireIsFrame
    <2>1. due \in Frames /\ Len(Coded(due)) = Length(due) + 3
        BY FrameFacts DEF TxInv, Shapes
    <2> QED BY <2>1 DEF TxInv, Under
<1> QED BY <1>1, TxInvariant, PTL

\* With one caller the DMA is not started before it has sent the frame before.
THEOREM FramesWhole ==
    ASSUME NEW c, One(c) PROVE Spec => NoFrameIsCut
<1>1. TxInv(c) /\ [Next]_vars
        => [(\E d \in Callers : Start(d)) /\ due # Nothing => wire = Coded(due)]_vars
    <2> SUFFICES ASSUME TxInv(c), Start(c), due # Nothing PROVE wire = Coded(due)
        BY DEF One
    <2>1. /\ due \in Frames /\ Len(Coded(due)) = Length(due) + 3
          /\ Coded(due) \in Seq(Item) /\ wire \in Seq(Item)
        BY FrameFacts DEF TxInv, Shapes
    <2>2. ~Busy /\ dma.at =< dma.count /\ dma.at \in Nat /\ dma.count \in Nat
        BY DEF TxInv, Caller, Start, Under, Shapes
    <2>3. dma.at = dma.count
        BY <2>2 DEF Busy
    <2>4. /\ Len(wire) = Len(Coded(due))
          /\ \A k \in 1..Len(wire) : wire[k] = Coded(due)[k]
        BY <2>1, <2>3 DEF TxInv, Under
    <2> QED BY <2>1, <2>4
<1>2. Spec => []TxInv(c)
    BY TxInvariant
<1> QED BY <1>1, <1>2, PTL DEF Spec, NoFrameIsCut
=============================================================================
