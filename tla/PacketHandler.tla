--------------------------- MODULE PacketHandler ---------------------------
(* Packet analysis (packet_handler.c) as the receive loop uses it: a frame   *)
(* is scanned for something that looks like a TCP header with known flags,   *)
(* a record with the time of the clock is made of it, and SYN records are    *)
(* counted for the address that was seen first in a second.  The clock is    *)
(* advanced by a timer interrupt between any two steps.                      *)
EXTENDS Naturals, Sequences

CONSTANTS
    Dests,     \* destination addresses
    FlagBytes, \* flag bytes that occur in frames, as sets of flags
    MaxScan,   \* bound: places in a frame that look like a TCP header
    MaxTime,   \* bound: the clock
    MaxFrames, \* bound: frames that arrive
    PortWrites, \* what "%d" into an int that is no pointer can do
    None       \* no record, no address

ASSUME PacketAssumption ==
    /\ MaxTime \in Nat /\ MaxFrames \in Nat /\ MaxScan \in Nat
    /\ PortWrites \subseteq {"harmless", "fault"}
    /\ None \notin Dests

VARIABLES
    epoch,   \* epoch_time, the formatted second
    pc,      \* "idle", "parse", "detect" or "dead"
    frame,   \* the frame: [scan, own], scan the places that match, in order,
             \* own the index of the real header, 0 if it is no TCP frame
    rec,     \* what parse_packet returned
    counter, \* sync_counter
    first,   \* first_time and first_dest_ip
    frames,  \* frames that have come
    second,  \* history: the second of the latest SYN record ...
    tally    \* ... and the SYN records of each address since it began

static == <<counter, first>>
history == <<second, tally>>
vars == <<epoch, pc, frame, rec, static, frames, history>>

Header == [flags : FlagBytes, dest : Dests]
Record == [time : 0..MaxTime, flags : FlagBytes, dest : Dests]

TypeOK ==
    /\ epoch \in 0..MaxTime /\ pc \in {"idle", "parse", "detect", "dead"}
    /\ frame \in [scan : Seq(Header), own : 0..MaxScan]
    /\ rec \in Record \cup {None}
    /\ counter \in 0..MaxFrames
    /\ first \in [time : 0..MaxTime, dest : Dests \cup {None}]
    /\ frames \in 0..MaxFrames
    /\ second \in 0..MaxTime
    /\ tally \in [Dests -> 0..MaxFrames]

Init ==
    /\ epoch = 0 /\ pc = "idle" /\ frame = [scan |-> <<>>, own |-> 0] /\ rec = None
    /\ counter = 0 /\ first = [time |-> 0, dest |-> None] /\ frames = 0
    /\ second = 0 /\ tally = [d \in Dests |-> 0]

(***************************************************************************)
(* The clock: increment_epoch in the timer interrupt, and ntp_recv.        *)
(***************************************************************************)
Tick ==
    /\ epoch < MaxTime /\ epoch' = epoch + 1
    /\ UNCHANGED <<pc, frame, rec, static, frames, history>>

SetClock ==
    /\ epoch' \in 0..MaxTime
    /\ UNCHANGED <<pc, frame, rec, static, frames, history>>

(***************************************************************************)
(* The receive loop.                                                       *)
(***************************************************************************)
\* netif_rmii_ethernet_poll has recognised a frame.
Receive(f) ==
    /\ pc = "idle" /\ frames < MaxFrames
    /\ frame' = f /\ frames' = frames + 1
    /\ pc' = "parse"
    /\ UNCHANGED <<epoch, rec, static, history>>

\* flag_map.
FlagMap == {{"FIN"}, {"SYN"}, {"RST"}, {"PSH"}, {"ACK"}, {"URG"},
            {"SYN", "RST"}, {"SYN", "ACK"}, {"RST", "ACK"}, {"FIN", "ACK"},
            {"PSH", "ACK"}, {"PSH", "FIN", "URG"}}

\* check_flag: the whole flag byte has to be one of the map.
Known(i) == frame.scan[i].flags \in FlagMap

\* parse_packet: the first place that matches a known flag byte.
Parse ==
    /\ pc = "parse"
    /\ \/ \E i \in 1..Len(frame.scan) :
            /\ Known(i) /\ \A j \in 1..i-1 : ~Known(j)
            /\ rec' = [time |-> epoch, flags |-> frame.scan[i].flags,
                       dest |-> frame.scan[i].dest]
            /\ pc' = "detect"
       \/ /\ \A i \in 1..Len(frame.scan) : ~Known(i)
          /\ rec' = None /\ pc' = "idle"
    /\ UNCHANGED <<epoch, frame, static, frames, history>>

\* strstr over the record's flag name.
IsSyn(flags) == "SYN" \in flags /\ flags \notin {{"SYN", "RST"}, {"SYN", "ACK"}}

Recorded ==
    /\ second' = rec.time
    /\ tally' = [d \in Dests |->
        (IF rec.time = second THEN tally[d] ELSE 0) + (IF d = rec.dest THEN 1 ELSE 0)]

\* Mutants: the count goes on in a new second; it runs ahead of the records.
KeepCount(w) ==
    /\ pc = "detect" /\ IsSyn(rec.flags) /\ w = "harmless"
    /\ LET anew == counter = 0 \/ first.time # rec.time
           anchor == IF anew THEN [time |-> rec.time, dest |-> rec.dest] ELSE first
       IN /\ first' = anchor
          /\ counter' = counter + (IF anchor.dest = rec.dest THEN 1 ELSE 0)
    /\ Recorded /\ pc' = "idle"
    /\ UNCHANGED <<epoch, frame, rec, frames>>

CountTwice(w) ==
    /\ pc = "detect" /\ IsSyn(rec.flags) /\ w = "harmless"
    /\ counter' = counter + 2
    /\ first' = [time |-> rec.time, dest |-> rec.dest]
    /\ Recorded /\ pc' = "idle"
    /\ UNCHANGED <<epoch, frame, rec, frames>>

\* detect_syn_flood of a SYN.  sscanf gets the uninitialised src_port and
\* dest_port where it needs their addresses: the write either does no harm to
\* what is modelled here or stops the core.
DetectSyn(w) ==
    /\ pc = "detect" /\ IsSyn(rec.flags)
    /\ \/ /\ w = "fault"
          /\ pc' = "dead" /\ UNCHANGED <<static, history>>
       \/ /\ w = "harmless"
          /\ LET anew == counter = 0 \/ first.time # rec.time
                 anchor == IF anew THEN [time |-> rec.time, dest |-> rec.dest]
                                   ELSE first
             IN /\ first' = anchor
                /\ counter' = (IF anew THEN 0 ELSE counter)
                                + (IF anchor.dest = rec.dest THEN 1 ELSE 0)
          /\ Recorded
          /\ pc' = "idle"
    /\ UNCHANGED <<epoch, frame, rec, frames>>

\* detect_syn_flood of anything else.
DetectOther ==
    /\ pc = "detect" /\ ~IsSyn(rec.flags)
    /\ pc' = "idle"
    /\ UNCHANGED <<epoch, frame, rec, static, frames, history>>

Analyse == Parse \/ DetectOther \/ \E w \in PortWrites : DetectSyn(w)

Frames == {f \in [scan : UNION {[1..n -> Header] : n \in 0..MaxScan}, own : 0..MaxScan] :
             f.own <= Len(f.scan)}
Next == Tick \/ SetClock \/ Analyse \/ \E f \in Frames : Receive(f)

Spec == Init /\ [][Next]_vars
\* The loop of core 1 does not stop; clock and network are free.
FairSpec == Spec /\ WF_vars(Analyse)

(***************************************************************************)
(* Properties.                                                             *)
(***************************************************************************)
\* sync_counter belongs to the second of the latest SYN record and counts records
\* of the address in first_dest_ip in it: all of them if no other address got one
\* in that second, and never more than there were, wherever ticks, clock settings
\* and other traffic fall between them (279-290).  What a record for another
\* address does to the count in the same second is NewDestStartsAnew.
CounterIsTally ==
    counter > 0 =>
        /\ first.time = second /\ first.dest \in Dests
        /\ counter <= tally[first.dest]
        /\ (\A d \in Dests \ {first.dest} : tally[d] = 0) => counter = tally[first.dest]

\* Every frame is analysed to the end, so that the loop takes the next one.
FramesAreHandled == (pc # "idle") ~> (pc = "idle")

\* A SYN record for another address than the one that is counted starts the
\* count anew with it, as the comment at 278 says.  The condition at 279 does not
\* look at the address: MC_pkt_dest.cfg violates this.
NewDestStartsAnew == [][
    (pc = "detect" /\ pc' = "idle" /\ IsSyn(rec.flags) /\ counter > 0 /\ rec.dest # first.dest)
        => first' = [time |-> rec.time, dest |-> rec.dest] /\ counter' = 1]_vars

\* What is recorded of a TCP frame is its own header.
RecordIsOwnHeader ==
    pc = "detect" /\ frame.own > 0 =>
        /\ rec.flags = frame.scan[frame.own].flags
        /\ rec.dest = frame.scan[frame.own].dest
=============================================================================
