------------------------ MODULE PacketHandlerProofs ------------------------
(* Proofs about PacketHandler, for any addresses, flag bytes, frames and     *)
(* bounds: the types, and that the SYN counter is what it claims to be.      *)
EXTENDS PacketHandler, SequenceTheorems, TLAPS

\* The record is there when it is needed.
RecordReady == pc = "detect" => rec \in Record

\* Neither the counter nor any address of the history is ahead of the frames
\* whose analysis is over.
Handled == IF pc = "idle" THEN frames ELSE frames - 1
Bounded ==
    /\ pc # "idle" => frames > 0
    /\ counter <= Handled
    /\ \A d \in Dests : tally[d] <= Handled

\* The counter is 0 only before the first SYN record.
ZeroMeansNone == counter = 0 => \A d \in Dests : tally[d] = 0

\* Of the code more is true than CounterIsTally says: the count goes on
\* whatever other addresses get.
Tallied ==
    counter > 0 => first.time = second /\ first.dest \in Dests /\ counter = tally[first.dest]

IInv == TypeOK /\ RecordReady /\ Bounded /\ ZeroMeansNone /\ Tallied

LEMMA InitIInv == Init => IInv
<1> SUFFICES ASSUME Init PROVE IInv
  OBVIOUS
<1>1. TypeOK
  <2>1. <<>> \in Seq(Header)
    OBVIOUS
  <2> QED BY <2>1, PacketAssumption DEF Init, TypeOK
<1>2. Bounded /\ ZeroMeansNone /\ Tallied /\ RecordReady
  BY PacketAssumption DEF Init, Bounded, Handled, ZeroMeansNone, Tallied, RecordReady
<1> QED BY <1>1, <1>2 DEF IInv

\* A SYN record: the counter and the history move together.
LEMMA DetectSynIInv ==
  ASSUME IInv, NEW w \in PortWrites, DetectSyn(w)
  PROVE  IInv'
<1> DEFINE anew == counter = 0 \/ first.time # rec.time
           anchor == IF anew THEN [time |-> rec.time, dest |-> rec.dest] ELSE first
<1>1. CASE w = "fault"
  <2>1. pc = "detect" /\ pc' = "dead" /\ UNCHANGED <<epoch, frame, rec, static, frames, history>>
    BY <1>1 DEF DetectSyn
  <2>2. TypeOK'
    BY <2>1 DEF IInv, TypeOK, static, history
  <2>3. (RecordReady /\ Bounded /\ ZeroMeansNone /\ Tallied)'
    BY <2>1 DEF IInv, TypeOK, RecordReady, Bounded, Handled, ZeroMeansNone, Tallied,
                static, history
  <2> QED BY <2>2, <2>3 DEF IInv
<1>2. CASE w = "harmless"
  <2>1. /\ pc = "detect" /\ pc' = "idle"
        /\ first' = anchor
        /\ counter' = (IF anew THEN 0 ELSE counter)
                        + (IF anchor.dest = rec.dest THEN 1 ELSE 0)
        /\ second' = rec.time
        /\ tally' = [d \in Dests |->
             (IF rec.time = second THEN tally[d] ELSE 0) + (IF d = rec.dest THEN 1 ELSE 0)]
        /\ UNCHANGED <<epoch, frame, rec, frames>>
    BY <1>2 DEF DetectSyn, Recorded
  <2>2. /\ rec \in Record /\ rec.time \in 0..MaxTime /\ rec.dest \in Dests
        /\ counter \in Nat /\ frames \in 0..MaxFrames /\ frames > 0
        /\ MaxFrames \in Nat /\ MaxTime \in Nat
        /\ counter <= frames - 1
        /\ tally \in [Dests -> 0..MaxFrames]
        /\ \A d \in Dests : tally[d] <= frames - 1
    BY <2>1, PacketAssumption DEF IInv, TypeOK, RecordReady, Record, Bounded, Handled
  <2>3. first' \in [time : 0..MaxTime, dest : Dests \cup {None}]
    BY <2>1, <2>2 DEF IInv, TypeOK
  <2>4. counter' \in Nat /\ counter' <= frames
    BY <2>1, <2>2
  <2>5. \A d \in Dests : tally'[d] \in Nat /\ tally'[d] <= frames
    BY <2>1, <2>2
  <2>6. TypeOK'
    <3>1. tally' \in [Dests -> 0..MaxFrames]
      BY <2>1, <2>2, <2>5
    <3>2. counter' \in 0..MaxFrames
      BY <2>2, <2>4
    <3> QED BY <2>1, <2>2, <2>3, <3>1, <3>2 DEF IInv, TypeOK
  <2>7. Bounded' /\ RecordReady'
    BY <2>1, <2>4, <2>5 DEF Bounded, Handled, RecordReady
  <2>8. counter' > 0
    BY <2>1, <2>2
  <2>9. Tallied'
    <3>1. CASE anew
      <4>0. anchor = [time |-> rec.time, dest |-> rec.dest]
        BY <3>1
      <4>1. counter' = 1 /\ first' = [time |-> rec.time, dest |-> rec.dest]
        <5>1. anchor.dest = rec.dest
          BY <4>0
        <5> HIDE DEF anchor
        <5> QED BY <2>1, <3>1, <4>0, <5>1
      <4>2. rec.time = second => tally[rec.dest] = 0
        BY <2>2, <3>1 DEF IInv, ZeroMeansNone, Tallied
      <4>3. tally'[rec.dest] = 1
        BY <2>1, <2>2, <4>2
      <4> QED BY <2>1, <2>2, <4>1, <4>3 DEF Tallied
    <3>2. CASE ~anew
      <4>1. /\ first' = first /\ first.time = rec.time /\ counter > 0
            /\ counter' = counter + (IF first.dest = rec.dest THEN 1 ELSE 0)
        BY <2>1, <2>2, <3>2
      <4>2. first.time = second /\ first.dest \in Dests /\ counter = tally[first.dest]
        BY <4>1 DEF IInv, Tallied
      <4>3. tally'[first.dest] = tally[first.dest] + (IF first.dest = rec.dest THEN 1 ELSE 0)
        BY <2>1, <2>2, <4>1, <4>2
      <4> QED BY <2>1, <4>1, <4>2, <4>3 DEF Tallied
    <3> QED BY <3>1, <3>2
  <2> QED BY <2>6, <2>7, <2>8, <2>9, <2>2 DEF IInv, ZeroMeansNone
<1>3. w = "fault" \/ w = "harmless"
  BY DEF DetectSyn
<1> QED BY <1>1, <1>2, <1>3

LEMMA NextIInv == IInv /\ [Next]_vars => IInv'
<1> SUFFICES ASSUME IInv, [Next]_vars PROVE IInv'
  OBVIOUS
<1> USE DEF static, history
<1>1. CASE Tick
  BY <1>1, PacketAssumption DEF Tick, IInv, TypeOK, RecordReady, Bounded, Handled, ZeroMeansNone, Tallied
<1>2. CASE SetClock
  BY <1>2 DEF SetClock, IInv, TypeOK, RecordReady, Bounded, Handled, ZeroMeansNone, Tallied
<1>3. ASSUME NEW f \in Frames, Receive(f) PROVE IInv'
  <2>1. f \in [scan : Seq(Header), own : 0..MaxScan]
    BY SeqDef, PacketAssumption DEF Frames
  <2>2. TypeOK'
    BY <1>3, <2>1, PacketAssumption DEF Receive, IInv, TypeOK
  <2>3. (RecordReady /\ Bounded /\ ZeroMeansNone /\ Tallied)'
    BY <1>3, PacketAssumption DEF Receive, IInv, TypeOK, RecordReady, Bounded, Handled,
                                  ZeroMeansNone, Tallied
  <2> QED BY <2>2, <2>3 DEF IInv
<1>4. CASE Parse
  <2>1. /\ rec' \in Record \cup {None}
        /\ pc' = "detect" => rec' \in Record
        /\ pc = "parse" /\ pc' \in {"idle", "detect"}
        /\ UNCHANGED <<epoch, frame, static, frames, history>>
    <3>1. CASE \E i \in 1..Len(frame.scan) :
                 /\ Known(i)
                 /\ rec' = [time |-> epoch, flags |-> frame.scan[i].flags,
                            dest |-> frame.scan[i].dest]
                 /\ pc' = "detect"
      <4>1. PICK i \in 1..Len(frame.scan) :
                 /\ rec' = [time |-> epoch, flags |-> frame.scan[i].flags,
                            dest |-> frame.scan[i].dest]
                 /\ pc' = "detect"
        BY <3>1
      <4>2. frame.scan[i] \in Header /\ epoch \in 0..MaxTime
        <5>1. frame.scan \in Seq(Header)
          BY DEF IInv, TypeOK
        <5> QED BY <5>1, ElementOfSeq DEF IInv, TypeOK
      <4>3. rec' \in Record
        BY <4>1, <4>2 DEF Header, Record
      <4> QED BY <1>4, <4>1, <4>3 DEF Parse
    <3>2. CASE rec' = None /\ pc' = "idle"
      BY <1>4, <3>2 DEF Parse
    <3> QED BY <1>4, <3>1, <3>2 DEF Parse
  <2>2. TypeOK'
    BY <2>1 DEF IInv, TypeOK
  <2>3. (RecordReady /\ Bounded /\ ZeroMeansNone /\ Tallied)'
    BY <2>1, PacketAssumption DEF IInv, TypeOK, RecordReady, Bounded, Handled, ZeroMeansNone, Tallied
  <2> QED BY <2>2, <2>3 DEF IInv
<1>5. CASE DetectOther
  BY <1>5, PacketAssumption DEF DetectOther, IInv, TypeOK, RecordReady, Bounded, Handled,
                                ZeroMeansNone, Tallied
<1>6. ASSUME NEW w \in PortWrites, DetectSyn(w) PROVE IInv'
  BY <1>6, DetectSynIInv
<1>7. CASE UNCHANGED vars
  BY <1>7 DEF vars, IInv, TypeOK, RecordReady, Bounded, Handled, ZeroMeansNone, Tallied
<1> QED BY <1>1, <1>2, <1>3, <1>4, <1>5, <1>6, <1>7 DEF Next, Analyse

\* Types and bounds, whatever the frames and the clock (265-267, 207-231).
THEOREM PacketTypes == Spec => []TypeOK
<1>1. IInv => TypeOK
  BY DEF IInv
<1> QED BY InitIInv, NextIInv, <1>1, PTL DEF Spec

\* detect_syn_flood counts what it says it counts (261-290).
THEOREM CounterCorrect == Spec => []CounterIsTally
<1>1. IInv => CounterIsTally
  BY DEF IInv, TypeOK, Tallied, CounterIsTally
<1> QED BY InitIInv, NextIInv, <1>1, PTL DEF Spec
=============================================================================
