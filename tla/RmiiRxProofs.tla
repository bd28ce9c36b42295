---------------------------- MODULE RmiiRxProofs ----------------------------
(* Proofs about RmiiRx, for every pool, count and set of frame lengths: the  *)
(* loop has the receive buffer for itself while it reads and clears it, and  *)
(* no frame is handed on twice or out of order.                              *)
EXTENDS RmiiRx, SequenceTheorems, TLAPS

\* TypeOK in two parts: the provers take the Booleans apart from the rest.
Numbers ==
    /\ pc \in PC
    /\ left \in 0..Count /\ sm \in {"off", "hunt", "on"}
    /\ data \in Seq(Piece) /\ Len(data) <= Count
    /\ line \in [id : 0..MaxFrames, len : Lengths \cup {0}, sent : Nat]
    /\ line.sent <= line.len
    /\ delivered \in Seq(1..MaxFrames)
    /\ pool \in 0..Pool
Flags ==
    /\ link \in BOOLEAN /\ fifo \in BOOLEAN /\ irqOn \in BOOLEAN /\ edge \in BOOLEAN
    /\ junk \in BOOLEAN /\ halted \in BOOLEAN
    /\ owed \in [id : 0..MaxFrames, clean : BOOLEAN]

\* What the DMA may still write fits behind what it has written.
Room ==
    /\ Len(data) + left <= Count
    /\ pc = "start" => data = <<>>

\* A piece in the buffer has been on the line.
Came(p) ==
    \/ p.frame < line.id
    \/ p.frame = line.id /\ p.at <= line.sent /\ p.of = line.len
Fresh == \A j \in 1..Len(data) : data[j] # Idle => Came(data[j])

\* What was handed on is over.
Over == \A i \in 1..Len(delivered) :
    delivered[i] <= line.id /\ (delivered[i] = line.id => Quiet)

\* Outside the turn in which a frame is handed on, the buffer holds only later
\* frames.
Later == pc # "clear" =>
    \A i \in 1..Len(delivered), j \in 1..Len(data) :
        data[j] # Idle => delivered[i] < data[j].frame

\* A frame on the line has a number.
Started == line.len # 0 => line.id >= 1

IInv == Numbers /\ Started /\ Room /\ BufferQuiet /\ Fresh /\ Over /\ Later /\ DeliveredOnce

LEMMA ConstantsTyped ==
  /\ Count \in Nat /\ Pool \in Nat /\ MaxFrames \in Nat
  /\ \A n \in Lengths \cup {0} : n \in Nat
  BY RxAssumption

LEMMA LineTyped ==
  ASSUME Numbers
  PROVE  /\ line.id \in Nat /\ line.len \in Nat /\ line.sent \in Nat
         /\ line.sent <= line.len
<1>1. /\ line.len \in Lengths \cup {0} /\ line.id \in 0..MaxFrames
      /\ line.sent \in Nat /\ line.sent <= line.len
  BY DEF Numbers
<1>2. line.len \in Nat
  BY <1>1, ConstantsTyped, Zenon
<1> QED BY <1>1, <1>2, ConstantsTyped

LEMMA InitIInv == Init => IInv
<1> SUFFICES ASSUME Init PROVE IInv
  OBVIOUS
<1>1. Numbers /\ Room
  <2>1. <<>> \in Seq(Piece) /\ <<>> \in Seq(1..MaxFrames) /\ Len(<<>>) = 0
    OBVIOUS
  <2> QED BY <2>1, RxAssumption DEF Init, Numbers, Room, PC
<1>2. Started /\ BufferQuiet /\ Fresh /\ Over /\ Later /\ DeliveredOnce
  BY DEF Init, Started, BufferQuiet, Fresh, Over, Later, DeliveredOnce
<1> QED BY <1>1, <1>2 DEF IInv

LEMMA DeliveredTyped ==
  ASSUME Numbers
  PROVE  \A i \in 1..Len(delivered) : delivered[i] \in 1..MaxFrames
<1>1. delivered \in Seq(1..MaxFrames)
  BY DEF Numbers
<1> QED BY <1>1, ElementOfSeq

\* Handing a frame on.
LEMMA ReadIInv ==
  ASSUME IInv, Read
  PROVE  IInv'
<1> USE DEF hw, buf
<1>1. /\ pc = "read" /\ pc' = "clear"
      /\ UNCHANGED <<link, hw, buf, line, owed>>
  BY DEF Read
<1>2. CASE UNCHANGED <<delivered, pool>>
  BY <1>1, <1>2 DEF IInv, Numbers, Started, Room, BufferQuiet, Fresh, Came, Over, Quiet, Later, DeliveredOnce, PC
<1>3. ASSUME NEW f \in 1..MaxFrames, Received(f), pool # 0,
             delivered' = Append(delivered, f), pool' = pool - 1
      PROVE  IInv'
  <2> DEFINE n == data[1].of
  <2>1. /\ data \in Seq(Piece) /\ data # <<>> /\ data[1] # Idle /\ Len(data) >= 1
        /\ Len(data) >= n
        /\ \A i \in 1..n : data[i] = [frame |-> f, at |-> i, of |-> n]
    BY <1>3 DEF Received, IInv, Numbers
  <2>2. data[1] \in Piece
    BY <2>1
  <2>3. n \in Nat \ {0}
    BY <2>1, <2>2, RxAssumption DEF Piece
  <2> HIDE DEF n
  <2>4. /\ data[1] = [frame |-> f, at |-> 1, of |-> n]
        /\ data[n] = [frame |-> f, at |-> n, of |-> n]
    BY <2>1, <2>3
  <2>5. n \in 1..Len(data)
    BY <2>1, <2>3
  <2>6. data[n] # Idle
    BY <2>3, <2>4, RxAssumption
  <2>7. f < line.id \/ (f = line.id /\ line.sent = line.len)
    <3>1. Came(data[n])
      BY <2>5, <2>6 DEF IInv, Fresh
    <3>2. line.sent \in Nat /\ line.len \in Nat /\ line.sent <= line.len /\ line.id \in Nat
      BY LineTyped DEF IInv
    <3> QED BY <2>3, <2>4, <3>1, <3>2 DEF Came
  <2>8. \A i \in 1..Len(delivered) : delivered[i] < f
    BY <1>1, <2>1, <2>4 DEF IInv, Later
  <2>9. /\ delivered \in Seq(1..MaxFrames)
        /\ Len(delivered') = Len(delivered) + 1
        /\ \A i \in 1..Len(delivered) : delivered'[i] = delivered[i]
        /\ delivered'[Len(delivered) + 1] = f
        /\ delivered' \in Seq(1..MaxFrames)
    BY <1>3 DEF IInv, Numbers
  <2>10. DeliveredOnce'
    <3> SUFFICES ASSUME NEW i \in 1..Len(delivered'), NEW j \in 1..Len(delivered'), i < j
                 PROVE  delivered'[i] < delivered'[j]
      BY DEF DeliveredOnce
    <3>1. i \in 1..Len(delivered)
      BY <2>9
    <3>2. CASE j = Len(delivered) + 1
      BY <2>8, <2>9, <3>1, <3>2
    <3>3. CASE j # Len(delivered) + 1
      BY <2>9, <3>1, <3>3 DEF IInv, DeliveredOnce
    <3> QED BY <3>2, <3>3
  <2>11. Over'
    <3>1. line.id \in Nat
      BY DEF IInv, Numbers
    <3>2. f <= line.id /\ (f = line.id => line.sent = line.len)
      BY <2>7, <3>1
    <3> SUFFICES ASSUME NEW i \in 1..Len(delivered')
                 PROVE  delivered'[i] <= line.id /\ (delivered'[i] = line.id => Quiet)
      BY <1>1 DEF Over, Quiet
    <3>3. CASE i = Len(delivered) + 1
      BY <2>9, <3>2, <3>3 DEF Quiet
    <3>4. CASE i # Len(delivered) + 1
      BY <2>9, <3>4 DEF IInv, Over
    <3> QED BY <3>3, <3>4
  <2>12. Numbers'
    <3>1. pool' \in 0..Pool
      BY <1>3, ConstantsTyped DEF IInv, Numbers
    <3>2. pc' \in PC
      BY <1>1 DEF PC
    <3> QED BY <1>1, <2>9, <3>1, <3>2 DEF IInv, Numbers
  <2>13. (Started /\ Room /\ BufferQuiet /\ Fresh /\ Later)'
    BY <1>1 DEF IInv, Started, Room, BufferQuiet, Fresh, Came, Later
  <2> QED BY <2>10, <2>11, <2>12, <2>13 DEF IInv
<1> QED BY <1>2, <1>3 DEF Read

\* A piece of a frame in the buffer.
LEMMA FramePieceIInv ==
  ASSUME IInv, FramePiece
  PROVE  IInv'
<1> DEFINE p == [frame |-> line.id, at |-> line.sent + 1, of |-> line.len]
           After(q) == \/ q.frame < line'.id
                       \/ q.frame = line'.id /\ q.at <= line'.sent /\ q.of = line'.len
<1>1. /\ line.sent # line.len /\ line' = [line EXCEPT !.sent = @ + 1]
      /\ UNCHANGED <<pc, sm, delivered, pool>>
  BY DEF FramePiece, Quiet, ghost
<1>2. /\ line \in [id : 0..MaxFrames, len : Lengths \cup {0}, sent : Nat]
      /\ line.sent < line.len /\ line.len \in Lengths /\ line.sent \in Nat /\ line.len \in Nat
      /\ line'.id = line.id /\ line'.len = line.len /\ line'.sent = line.sent + 1
  BY <1>1, RxAssumption DEF IInv, Numbers
<1>3. line' \in [id : 0..MaxFrames, len : Lengths \cup {0}, sent : Nat] /\ line'.sent <= line'.len
  BY <1>1, <1>2
<1>4. \A j \in 1..Len(data) : data[j] # Idle => After(data[j])
  <2> SUFFICES ASSUME NEW j \in 1..Len(data), data[j] # Idle PROVE After(data[j])
    OBVIOUS
  <2>1. Came(data[j]) /\ data[j] \in Piece
    BY DEF IInv, Fresh, Numbers
  <2>2. data[j].at \in Nat
    BY <2>1, RxAssumption DEF Piece
  <2> QED BY <1>2, <2>1, <2>2 DEF Came
<1>5. \/ left > 0 /\ data' = Append(data, p) /\ left' = left - 1
      \/ data' = data /\ left' = left
  BY DEF FramePiece, Sampled
<1>6. p \in Piece /\ p # Idle /\ After(p)
  <2>1. line.sent + 1 \in Nat \ {0} /\ line.id \in Nat
    BY <1>2
  <2>2. line.id \in 1..MaxFrames
    BY <1>2 DEF IInv, Started
  <2>3. p # Idle
    BY <2>1, <1>2, RxAssumption
  <2>4. After(p)
    BY <1>2, <2>1
  <2> QED BY <1>2, <2>1, <2>2, <2>3, <2>4 DEF Piece
<1>7. Numbers' /\ Room' /\ BufferQuiet'
  <2>1. left \in 0..Count /\ Count \in Nat /\ data \in Seq(Piece)
    BY ConstantsTyped DEF IInv, Numbers
  <2>2. CASE data' = data /\ left' = left
    BY <1>1, <1>3, <2>1, <2>2 DEF IInv, Numbers, Room, BufferQuiet
  <2>3. CASE left > 0 /\ data' = Append(data, p) /\ left' = left - 1
    <3>1. data' \in Seq(Piece) /\ Len(data') = Len(data) + 1
      BY <1>6, <2>1, <2>3
    <3>2. pc # "start" /\ pc # "read" /\ pc # "clear"
      BY <2>1, <2>3 DEF IInv, BufferQuiet
    <3>3. left' \in 0..Count /\ Len(data') + left' <= Count /\ Len(data') <= Count
      BY <2>1, <2>3, <3>1 DEF IInv, Room
    <3> QED BY <1>1, <1>3, <3>1, <3>2, <3>3 DEF IInv, Numbers, Room, BufferQuiet
  <2> QED BY <1>5, <2>2, <2>3
<1>8. Fresh'
  <2>1. data \in Seq(Piece)
    BY DEF IInv, Numbers
  <2> SUFFICES ASSUME NEW j \in 1..Len(data'), data'[j] # Idle PROVE After(data'[j])
    BY DEF Fresh, Came
  <2>2. CASE j \in 1..Len(data)
    <3>1. data'[j] = data[j]
      BY <1>5, <2>1, <2>2
    <3> QED BY <1>4, <2>2, <3>1
  <2>3. CASE j \notin 1..Len(data)
    <3>1. data'[j] = p
      BY <1>5, <2>1, <2>3
    <3> QED BY <1>6, <3>1
  <2> QED BY <2>2, <2>3
<1>9. \A i \in 1..Len(delivered) : delivered[i] < line.id
  <2> SUFFICES ASSUME NEW i \in 1..Len(delivered) PROVE delivered[i] < line.id
    OBVIOUS
  <2>1. delivered[i] <= line.id /\ delivered[i] # line.id
    BY <1>2 DEF IInv, Over, Quiet
  <2>2. delivered[i] \in 1..MaxFrames
    BY DeliveredTyped DEF IInv
  <2>3. line.id \in Nat
    BY LineTyped DEF IInv
  <2> QED BY <2>1, <2>2, <2>3
<1>10. Later'
  <2>1. data \in Seq(Piece)
    BY DEF IInv, Numbers
  <2> SUFFICES ASSUME pc' # "clear", NEW i \in 1..Len(delivered'), NEW j \in 1..Len(data'),
                      data'[j] # Idle
               PROVE  delivered'[i] < data'[j].frame
    BY DEF Later
  <2>2. CASE j \in 1..Len(data)
    <3>1. data'[j] = data[j]
      BY <1>5, <2>1, <2>2
    <3> QED BY <1>1, <2>2, <3>1 DEF IInv, Later
  <2>3. CASE j \notin 1..Len(data)
    <3>1. data'[j] = p
      BY <1>5, <2>1, <2>3
    <3> QED BY <1>1, <1>9, <3>1
  <2> QED BY <2>2, <2>3
<1>11. Over' /\ DeliveredOnce' /\ Started'
  BY <1>1, <1>2, <1>9, LineTyped DEF IInv, Numbers, Over, Quiet, DeliveredOnce, Started
<1> QED BY <1>7, <1>8, <1>10, <1>11 DEF IInv

\* A sample of the idle line in the buffer.
LEMMA IdlePieceIInv ==
  ASSUME IInv, IdlePiece
  PROVE  IInv'
<1>1. UNCHANGED <<pc, sm, line, delivered, pool>>
  BY DEF IdlePiece, ghost
<1>2. /\ left \in 0..Count /\ data \in Seq(Piece) /\ Count \in Nat
      /\ Idle \in Piece /\ Len(data) + left <= Count
  BY ConstantsTyped DEF IInv, Numbers, Room, Piece
<1>3. CASE left = 0
  <2>1. UNCHANGED <<left, data>>
    BY <1>2, <1>3 DEF IdlePiece, Sampled
  <2> QED BY <1>1, <2>1 DEF IInv, Numbers, Started, Room, BufferQuiet, Fresh, Came, Over, Quiet,
                          Later, DeliveredOnce
<1>4. CASE left # 0
  <2>1. left' = left - 1 /\ data' = Append(data, Idle)
    BY <1>2, <1>4 DEF IdlePiece, Sampled
  <2>2. /\ data' \in Seq(Piece) /\ Len(data') = Len(data) + 1
        /\ \A j \in 1..Len(data') :
              data'[j] = IF j \in 1..Len(data) THEN data[j] ELSE Idle
    BY <1>2, <2>1
  <2>3. pc # "start" /\ pc # "read" /\ pc # "clear"
    BY <1>4 DEF IInv, BufferQuiet
  <2>4. left' \in 0..Count /\ Len(data') + left' <= Count /\ Len(data') <= Count
    BY <1>2, <1>4, <2>1, <2>2
  <2>5. (Numbers /\ Room /\ BufferQuiet)'
    BY <1>1, <2>2, <2>3, <2>4 DEF IInv, Numbers, Room, BufferQuiet
  <2>6. (Fresh /\ Later)'
    BY <1>1, <2>2 DEF IInv, Fresh, Came, Later
  <2>7. (Started /\ Over /\ DeliveredOnce)'
    BY <1>1 DEF IInv, Started, Over, Quiet, DeliveredOnce
  <2> QED BY <2>5, <2>6, <2>7 DEF IInv
<1> QED BY <1>3, <1>4

\* A frame begins.
LEMMA FrameStartIInv ==
  ASSUME IInv, NEW n \in Lengths, FrameStart(n)
  PROVE  IInv'
<1>1. /\ UNCHANGED <<pc, left, data, delivered, pool>>
      /\ line' = [id |-> line.id + 1, len |-> n, sent |-> 0]
      /\ sm' \in {sm, "on"} /\ line.id < MaxFrames
  BY DEF FrameStart, buf
<1>2. n \in Nat /\ line.id \in 0..MaxFrames /\ MaxFrames \in Nat
  BY ConstantsTyped DEF IInv, Numbers
<1>3. line'.id = line.id + 1 /\ line'.len = n /\ line'.sent = 0
  BY <1>1
<1>4. Numbers'
  <2>1. line' \in [id : 0..MaxFrames, len : Lengths \cup {0}, sent : Nat] /\ line'.sent <= line'.len
    BY <1>1, <1>2, <1>3
  <2> QED BY <1>1, <2>1 DEF IInv, Numbers
<1>5. (Started /\ Room /\ BufferQuiet /\ Later /\ DeliveredOnce)'
  BY <1>1, <1>2, <1>3 DEF IInv, Started, Room, BufferQuiet, Later, DeliveredOnce
<1>6. Fresh'
  <2> SUFFICES ASSUME NEW j \in 1..Len(data), data[j] # Idle PROVE data[j].frame < line'.id
    BY <1>1 DEF Fresh, Came
  <2>1. Came(data[j])
    BY DEF IInv, Fresh
  <2>2. data[j].frame \in 1..MaxFrames
    <3>1. data[j] \in Piece
      BY DEF IInv, Numbers
    <3> QED BY <3>1 DEF Piece
  <2> QED BY <1>2, <1>3, <2>1, <2>2 DEF Came
<1>7. Over'
  <2> SUFFICES ASSUME NEW i \in 1..Len(delivered) PROVE delivered[i] < line'.id
    BY <1>1, <1>2, <1>3, DeliveredTyped DEF Over, IInv
  <2>1. delivered[i] <= line.id /\ delivered[i] \in 1..MaxFrames
    BY DeliveredTyped DEF IInv, Over
  <2> QED BY <1>2, <1>3, <2>1
<1> QED BY <1>4, <1>5, <1>6, <1>7 DEF IInv

\* The steps of the loop that do not look into the buffer, the interrupt, and
\* the pool.
LEMMA OtherIInv ==
  ASSUME IInv, Poll \/ Start \/ InitSm \/ EnableIrq \/ Timeouts \/ Isr \/ Release
  PROVE  IInv'
<1> USE DEF hw, buf, ghost
<1>1. UNCHANGED <<data, line, delivered>>
  BY DEF Poll, Start, InitSm, EnableIrq, Timeouts, Isr, Release
<1>2. (Started /\ Fresh /\ Over /\ DeliveredOnce)'
  BY <1>1 DEF IInv, Started, Fresh, Came, Over, Quiet, DeliveredOnce
<1>3. pc # "clear" => Later'
  BY <1>1 DEF IInv, Later
<1>4. pc = "clear" => pc' = "clear"
  BY DEF Poll, Start, InitSm, EnableIrq, Timeouts, Isr, Release
<1>5. Later'
  BY <1>3, <1>4 DEF Later
<1>6. /\ pc' \in PC /\ left' \in 0..Count /\ sm' \in {"off", "hunt", "on"}
      /\ pool' \in 0..Pool
  BY ConstantsTyped DEF IInv, Numbers, PC, Poll, Start, InitSm, EnableIrq, Timeouts, Isr, Release
<1>7. Numbers'
  BY <1>1, <1>6 DEF IInv, Numbers
<1>8. Len(data) + left' <= Count /\ (pc' = "start" => pc = "start")
  <2>1. Len(data) \in Nat /\ left \in 0..Count /\ Count \in Nat
    BY ConstantsTyped DEF IInv, Numbers
  <2>2. CASE Start
    BY <2>1, <2>2 DEF IInv, Room, Start
  <2>3. CASE Isr
    BY <2>1, <2>3 DEF IInv, Numbers, Isr
  <2>4. CASE Poll \/ InitSm \/ EnableIrq \/ Timeouts \/ Release
    BY <2>4 DEF IInv, Room, Poll, InitSm, EnableIrq, Timeouts, Release
  <2> QED BY <2>2, <2>3, <2>4
<1>9. Room'
  BY <1>1, <1>8 DEF IInv, Room
<1>10. BufferQuiet'
  <2>1. left \in Nat
    BY ConstantsTyped DEF IInv, Numbers
  <2> QED BY <2>1 DEF IInv, BufferQuiet, Poll, Start, InitSm, EnableIrq, Timeouts, Isr, Release
<1> QED BY <1>2, <1>5, <1>7, <1>9, <1>10 DEF IInv

LEMMA ClearIInv ==
  ASSUME IInv, Clear
  PROVE  IInv'
<1>1. /\ pc = "clear" /\ pc' = "start" /\ data' = <<>>
      /\ UNCHANGED <<left, sm, line, delivered, pool>>
  BY DEF Clear, hw, ghost
<1>2. data' \in Seq(Piece) /\ Len(data') = 0
  BY <1>1
<1>3. (Numbers /\ Room /\ BufferQuiet)'
  BY <1>1, <1>2, ConstantsTyped DEF IInv, Numbers, Room, BufferQuiet, PC
<1>4. (Started /\ Fresh /\ Over /\ Later /\ DeliveredOnce)'
  BY <1>1, <1>2 DEF IInv, Started, Fresh, Over, Quiet, Later, DeliveredOnce
<1> QED BY <1>3, <1>4 DEF IInv

LEMMA NextIInv == IInv /\ [Next]_vars => IInv'
<1> SUFFICES ASSUME IInv, [Next]_vars PROVE IInv'
  OBVIOUS
<1>1. CASE UNCHANGED vars
  BY <1>1 DEF vars, hw, buf, ghost, IInv, Numbers, Started, Room, BufferQuiet, Fresh, Came, Over,
              Quiet, Later, DeliveredOnce
<1>2. CASE Next
  BY <1>2, ReadIInv, ClearIInv, OtherIInv, FramePieceIInv, IdlePieceIInv, FrameStartIInv
     DEF Next, Loop, Hardware
<1> QED BY <1>1, <1>2

LEMMA FlagsStep == IInv /\ Flags /\ [Next]_vars => Flags'
<1> SUFFICES ASSUME IInv, Flags, [Next]_vars PROVE Flags'
  OBVIOUS
<1> USE DEF hw, buf, ghost
<1>1. /\ link' \in BOOLEAN /\ fifo' \in BOOLEAN /\ irqOn' \in BOOLEAN /\ junk' \in BOOLEAN
      /\ halted' \in BOOLEAN
  BY DEF Flags, Next, vars, Loop, Hardware, Poll, Read, Clear, Start, InitSm, EnableIrq,
         Timeouts, Isr, FramePiece, IdlePiece, FrameStart, Sampled, Release
<1>2. edge' \in BOOLEAN
  BY Zenon DEF Flags, Next, vars, Loop, Hardware, Poll, Read, Clear, Start, InitSm, EnableIrq,
         Timeouts, Isr, FramePiece, IdlePiece, FrameStart, Release
<1>3. owed' \in [id : 0..MaxFrames, clean : BOOLEAN]
  <2>1. CASE owed' = owed
    BY <2>1 DEF Flags
  <2>2. ASSUME NEW n \in Lengths, FrameStart(n) PROVE owed' \in [id : 0..MaxFrames, clean : BOOLEAN]
    <3>1. line.id + 1 \in 0..MaxFrames
      BY <2>2, LineTyped, ConstantsTyped DEF FrameStart, IInv
    <3>2. (~junk /\ data = <<>>) \in BOOLEAN
      OBVIOUS
    <3> QED BY <2>2, <3>1, <3>2 DEF FrameStart, Flags
  <2> QED BY <2>1, <2>2 DEF Next, vars, Loop, Hardware, Poll, Read, Clear, Start, InitSm,
                EnableIrq, Timeouts, Isr, FramePiece, IdlePiece, Release
<1> QED BY <1>1, <1>2, <1>3 DEF Flags

\* Types, and the room the DMA has behind what it wrote (48, 423-429).
THEOREM RxTypes == Spec => []TypeOK
<1>1. Init => Flags
  <2>1. Init => /\ link \in BOOLEAN /\ fifo \in BOOLEAN /\ irqOn \in BOOLEAN
                /\ edge \in BOOLEAN /\ junk \in BOOLEAN /\ halted \in BOOLEAN
    BY DEF Init
  <2>2. Init => owed \in [id : 0..MaxFrames, clean : BOOLEAN]
    BY ConstantsTyped DEF Init
  <2> QED BY <2>1, <2>2 DEF Flags
<1>2. IInv /\ Flags => TypeOK
  BY Zenon DEF IInv, Numbers, Flags, TypeOK
<1> QED BY InitIInv, NextIInv, FlagsStep, <1>1, <1>2, PTL DEF Spec

\* While the loop reads and clears rx_frame nothing writes it (393-421).
THEOREM BufferExclusive == Spec => []BufferQuiet
<1>1. IInv => BufferQuiet
  BY DEF IInv
<1> QED BY InitIInv, NextIInv, <1>1, PTL DEF Spec

\* No frame reaches lwIP twice or out of order (396-421).
THEOREM NoFrameTwice == Spec => []DeliveredOnce
<1>1. IInv => DeliveredOnce
  BY DEF IInv
<1> QED BY InitIInv, NextIInv, <1>1, PTL DEF Spec
=============================================================================
