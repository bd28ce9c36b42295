---------------------------- MODULE SdCardProofs ----------------------------
(* What SdCard guarantees for any cards, sizes, noise and restarts: its      *)
(* types; the agreement of driver and card; that blocks that were            *)
(* acknowledged stay, a read returns them, and a single block is on the      *)
(* medium when its write returns; that one start is enough on a sound wire;  *)
(* and that no call runs for ever.  Each property names what it excepts, by  *)
(* the history variables upset and exposed: an answer misheard, a card that  *)
(* outlasts a wait, a lost CMD59, a transfer the driver does not know of,    *)
(* and the blocks the card may still hold when the power goes.               *)
EXTENDS SdCard, SequenceTheorems, TLAPS

LEMMA ConstantsTyped ==
    /\ Sectors \in Nat /\ Sectors > 0 /\ BlockSize \in Nat /\ BlockSize > 0
    /\ MaxCount \in Nat /\ MaxCount > 0
    /\ MaxNoise \in Nat /\ MaxRestarts \in Nat /\ Deaf \in Nat
BY SdAssumption

\* What the driver is in the middle of.
OpMatches ==
    /\ pc = "cmd0" => tries < 10
    /\ pc \in {"readCmd", "readBlock"} => op.kind = "read" /\ op.todo > 0
    /\ pc \in {"writeCmd", "writeBlock"} => op.kind = "write" /\ op.todo > 0
    /\ pc = "settle" => op.kind = "write"
    /\ pc = "writeBlock" => Len(pending) <= op.n - op.todo
    /\ op.kind = "write" => op.data \in Seq(Values)
    /\ op.first + op.n =< Sectors

SameAddresses == type = "V2HC" <=> card.kind = "V2HC"

\* What an exchange may do to what is left of the noise, and to the record of
\* what went wrong.
Wire == Quiet \/ Noise \/ \E what \in Upsets : Upset(what)

\* How far the start-up conversation has brought the two.
Stages ==
    /\ pc \in Starting => noinit
    /\ pc \in Transferring => ~noinit
    /\ pc \in {"cmd8", "cmd59", "cmd58", "acmd41"} => card.state = "idle"
    /\ pc = "acmd41" => type # "V2HC"
    /\ pc \in {"cmd8", "cmd59", "cmd58"} => type # "V2HC"
    /\ pc = "cmd0" => type # "V2HC"
    /\ pc = "ccs" => card.state \in {"idle", "ready"} /\ type = "V2"
    /\ pc = "cmd16" => card.state = "ready"
    /\ ~noinit => card.state = "ready"

\* How much of it a driver that was not misled can rely on.
Agreement ==
    /\ pc = "ccs" => card.state = "ready"
    /\ pc = "cmd9" /\ card.state = "ready" => SameAddresses
    /\ pc = "cmd16" => SameAddresses
    /\ ~noinit => SameAddresses
Stage == Stages /\ (Misled \/ Agreement)

TypeInv == TypeOK /\ OpMatches

(***************************************************************************)
(* Types.                                                                  *)
(***************************************************************************)
LEMMA AddressTyped ==
    ASSUME NEW b \in Nat, Sectors \in Nat, BlockSize \in Nat, BlockSize > 0
    PROVE  CardBlock(Address(b)) \in Nat
<1>1. b * BlockSize \in Nat
  OBVIOUS
<1>2. Address(b) \in Nat
  BY <1>1 DEF Address
<1>3. \A a \in Nat : a \div BlockSize \in Nat
  OBVIOUS
<1> QED
  BY <1>2, <1>3 DEF CardBlock

\* The wire under every step.
LEMMA WireSteps ==
    ASSUME Next
    PROVE  Wire
<1> USE DEF Quiet, Noise
<1>1. CASE Start
  <2> "misheard" \in Upsets /\ "slow" \in Upsets /\ "unchecked" \in Upsets
    BY DEF Upsets
  <2> HIDE DEF Quiet, Noise
  <2>1. InitCall => Quiet
    BY DEF InitCall, Quiet
  <2>2. Cmd0 => Wire
    BY DEF Cmd0, Unheard, Outlasts, Wire
  <2>3. Cmd8 \/ Cmd58 \/ Cmd9 \/ Cmd16 => Wire
    BY DEF Cmd8, Cmd58, Cmd9, Cmd16, Wire
  <2>4. Cmd59 \/ Acmd41 \/ Ccs => Wire
    BY DEF Cmd59, Acmd41, Ccs, Wire
  <2> QED
    BY <1>1, <2>1, <2>2, <2>3, <2>4 DEF Start, Wire
<1>2. CASE Transfer
  <2> "slow" \in Upsets /\ "unstopped" \in Upsets
    BY DEF Upsets
  <2> HIDE DEF Quiet, Noise
  <2>1. ReadCmd \/ WriteCmd => Wire
    BY DEF ReadCmd, WriteCmd, Fails, Outlasts, Wire
  <2>2. ReadBlock \/ Cmd12 \/ WriteBlock \/ Settle => Wire
    BY DEF ReadBlock, Cmd12, WriteBlock, Settle, Outlasts, Wire
  <2> QED
    BY <1>2, <2>1, <2>2 DEF Transfer
<1>3. User \/ Sync \/ Program \/ Restart \/ PowerCycle => Quiet
  BY DEF User, Read, Write, Call, Sync, Program, Restart, PowerCycle, Reset
<1> QED
  BY <1>1, <1>2, <1>3 DEF Next, Wire

LEMMA WireTyped ==
    ASSUME TypeInv, Wire
    PROVE  /\ noise' = noise \/ (noise > 0 /\ noise' = noise - 1)
           /\ noise' \in 0..MaxNoise /\ upset' \subseteq Upsets /\ upset \subseteq upset'
           /\ noise' = noise => upset' = upset
<1>1. noise \in 0..MaxNoise /\ MaxNoise \in Nat /\ upset \subseteq Upsets
  BY ConstantsTyped DEF TypeInv, TypeOK
<1> QED
  BY <1>1 DEF Wire, Quiet, Noise, Upset

LEMMA InitTypes == Init => TypeInv
<1> SUFFICES ASSUME Init PROVE TypeInv
  OBVIOUS
<1> USE DEF Init
<1>1. HostOK
  BY ConstantsTyped DEF HostOK, NoOp, Starting, Transferring, Block, Content
<1>2. CardOK
  BY ConstantsTyped DEF CardOK, Fresh
<1>3. MediumOK
  BY ConstantsTyped DEF MediumOK, Content, Block
<1>4. OpMatches
  BY ConstantsTyped DEF OpMatches, NoOp
<1> QED
  BY <1>1, <1>2, <1>3, <1>4, ConstantsTyped DEF TypeInv, TypeOK

\* The steps of the start-up conversation: no call, no medium.
LEMMA StartTypes ==
    ASSUME TypeInv, Start
    PROVE  TypeInv'
<1> USE DEF TypeInv, TypeOK
<1>s. UNCHANGED <<op, store, pending, restarts, known>> /\ exposed' \in {exposed, {}}
  BY DEF Start, InitCall, Cmd0, Cmd8, Cmd59, Cmd58, Acmd41, Ccs, Cmd9, Cmd16, StayPut, Secure,
         medium, history
<1>w. noise' \in 0..MaxNoise /\ upset' \subseteq Upsets
  BY WireSteps, WireTyped DEF Next
<1>e. MediumOK'
  BY <1>s DEF MediumOK
<1> DEFINE Numbers ==
      /\ pc' \in {"idle"} \cup Starting
      /\ noinit' \in BOOLEAN /\ tries' \in 0..10
      /\ type' \in {"none", "unknown", "V1", "V2", "V2HC"}
      /\ pc' = "cmd0" => tries' < 10
<1>0. CASE InitCall
  <2>1. Numbers
    BY <1>0 DEF InitCall, HostOK, Starting, Transferring
  <2>2. CardOK'
    BY <1>0 DEF InitCall, CardOK
  <2>3. HostOK'
    BY <2>1, <1>s DEF HostOK
  <2>5. OpMatches'
    <3>1. pc' = "cmd0" /\ tries' < 10
      BY <1>0 DEF InitCall
    <3> QED
      BY <3>1, <1>s DEF OpMatches
  <2> QED
    BY <2>2, <2>3, <2>5, <1>s, <1>e, <1>w
<1>1. CASE Cmd0
  <2>1. Numbers
    <3>1. /\ pc = "cmd0" /\ UNCHANGED <<noinit, type>>
          /\ \/ pc' = "cmd8" /\ UNCHANGED tries
             \/ tries' = tries + 1 /\ pc' = IF tries' = 10 THEN "idle" ELSE "cmd0"
      BY <1>1 DEF Cmd0, GoOn
    <3>4. tries \in 0..10 /\ tries < 10
      BY <3>1 DEF HostOK, OpMatches
    <3>5. pc' \in {"idle"} \cup Starting /\ tries' \in 0..10 /\ (pc' = "cmd0" => tries' < 10)
      BY <3>1, <3>4 DEF Starting
    <3> QED
      BY <3>1, <3>5 DEF HostOK
  <2>2. CardOK'
    <3>1. Reset0 \in [kind : Kinds, state : {"native", "idle", "ready"}, crc : BOOLEAN,
             job : {"none", "one", "many", "receiving"}, at : 0..Sectors, deaf : 0..Deaf]
      BY ConstantsTyped DEF Reset0, Fresh, CardOK
    <3>2. [card EXCEPT !.deaf = @ - 1] \in [kind : Kinds, state : {"native", "idle", "ready"}, crc : BOOLEAN,
             job : {"none", "one", "many", "receiving"}, at : 0..Sectors, deaf : Int]
      BY DEF CardOK
    <3>3. card.deaf > 0 => card.deaf - 1 \in 0..Deaf
      BY ConstantsTyped DEF CardOK
    <3> QED
      BY <1>1, <3>1, <3>2, <3>3 DEF Cmd0, Unheard, CardOK
  <2> QED
    BY <2>1, <2>2, <1>s, <1>e, <1>w DEF HostOK, OpMatches, Starting, Transferring
<1>2. CASE Cmd8 \/ Cmd59 \/ Cmd58 \/ Ccs \/ Cmd9 \/ Cmd16
  <2>1. Numbers
    <3> USE DEF HostOK, Starting, Transferring, GoOn, GiveUp
    <3>1. CASE Cmd8
      <4>1. pc' \in {"cmd59", "idle"} /\ UNCHANGED <<noinit, tries>>
            /\ type' \in {type, "V2", "unknown"}
        BY <3>1 DEF Cmd8
      <4> QED
        BY <4>1
    <3>2. CASE Cmd59
      <4>1. pc' = "cmd58" /\ UNCHANGED <<noinit, tries, type>>
        BY <3>2 DEF Cmd59
      <4> QED
        BY <4>1
    <3>5. CASE Cmd58
      <4>1. pc' \in {"acmd41", "idle"} /\ UNCHANGED <<noinit, tries>> /\ type' \in {type, "unknown"}
        BY <3>5 DEF Cmd58
      <4> QED
        BY <4>1
    <3>3. CASE Ccs
      <4>1. pc' \in {"cmd9", "idle"} /\ UNCHANGED <<noinit, tries>> /\ type' \in {type, "V2", "V2HC"}
        BY <3>3 DEF Ccs
      <4> QED
        BY <4>1
    <3>4. CASE Cmd9
      <4>1. pc' \in {"cmd16", "idle"} /\ UNCHANGED <<noinit, tries, type>>
        BY <3>4 DEF Cmd9
      <4> QED
        BY <4>1
    <3>6. CASE Cmd16
      <4>1. pc' = "idle" /\ UNCHANGED <<tries, type>>
        BY <3>6 DEF Cmd16
      <4>3. noinit' \in BOOLEAN
        BY <3>6, Zenon DEF Cmd16
      <4> QED
        BY <4>1, <4>3
    <3> QED
      BY <1>2, <3>1, <3>2, <3>3, <3>4, <3>5, <3>6
  <2>2. CardOK'
    BY <1>2 DEF Cmd8, Cmd59, Cmd58, Ccs, MayComeUp, Ready, Cmd9, Cmd16, CardOK
  <2> QED
    BY <2>1, <2>2, <1>s, <1>e, <1>w DEF HostOK, OpMatches, Starting, Transferring
<1>3. CASE Acmd41
  <2>1. Numbers
    <3>1. pc' \in {"ccs", "cmd9", "acmd41", "idle"} /\ UNCHANGED <<noinit, tries>>
          /\ type' \in {type, "V1", "unknown"}
      BY <1>3 DEF Acmd41, Up, GoOn, GiveUp
    <3> QED
      BY <3>1 DEF HostOK, Starting, Transferring
  <2>2. CardOK'
    BY <1>3 DEF Acmd41, MayComeUp, Ready, CardOK
  <2> QED
    BY <2>1, <2>2, <1>s, <1>e, <1>w DEF HostOK, OpMatches, Starting, Transferring
<1> QED
  BY <1>0, <1>1, <1>2, <1>3 DEF Start

LEMMA UserTypes ==
    ASSUME TypeInv, User
    PROVE  TypeInv'
<1>1. PICK b \in Block, n \in 1..MaxCount : Read(b, n) \/ Write(b, n)
  BY DEF User
<1>2. PICK kind \in {"read", "write"}, data \in Seq(Values) :
        /\ Call(kind, b, n, data)
        /\ Len(data) = IF kind = "read" THEN 0 ELSE n
  <2>1. CASE Read(b, n)
    <3>1. <<>> \in Seq(Values) /\ Len(<<>>) = 0
      OBVIOUS
    <3>2. Call("read", b, n, <<>>)
      BY <2>1 DEF Read
    <3> WITNESS "read" \in {"read", "write"}, <<>> \in Seq(Values)
    <3> QED
      BY <3>1, <3>2
  <2>2. CASE Write(b, n)
    <3>1. PICK data \in [1..n -> Values] : Call("write", b, n, data)
      BY <2>2 DEF Write
    <3>2. data \in Seq(Values) /\ Len(data) = n
      BY <3>1, ConstantsTyped
    <3> QED
      BY <3>1, <3>2
  <2> QED
    BY <1>1, <2>1, <2>2
<1>3. /\ op' = [kind |-> kind, first |-> b, n |-> n, todo |-> n, data |-> data, ok |-> FALSE]
      /\ pc' = IF kind = "read" THEN "readCmd" ELSE "writeCmd"
      /\ b + n =< Sectors
      /\ UNCHANGED <<card, store, pending, noise, upset, exposed, known>>
      /\ UNCHANGED <<noinit, type, tries, restarts>>
  BY <1>2 DEF Call, Keep, medium, history
<1>4. data \in Seq(Content)
  BY DEF Content
<1>5. HostOK'
  BY <1>1, <1>2, <1>3, <1>4, ConstantsTyped DEF TypeInv, TypeOK, HostOK, Starting, Transferring
<1>6. OpMatches'
  BY <1>1, <1>2, <1>3, ConstantsTyped DEF TypeInv, OpMatches
<1> QED
  BY <1>3, <1>5, <1>6 DEF TypeInv, TypeOK, CardOK, MediumOK

LEMMA SyncTypes ==
    ASSUME TypeInv, Sync
    PROVE  TypeInv'
<1>1. /\ op' = [NoOp EXCEPT !.kind = "sync", !.ok = TRUE] /\ pc = "idle"
      /\ UNCHANGED <<pc, noinit, type, tries, card, store, pending, noise, restarts, upset, exposed, known>>
  BY DEF Sync, Keep, medium, history
<1>2. /\ op'.kind = "sync" /\ op'.first = 0 /\ op'.n = 0 /\ op'.todo = 0 /\ op'.data = <<>>
      /\ op' = [kind |-> "sync", first |-> 0, n |-> 0, todo |-> 0, data |-> <<>>, ok |-> TRUE]
  BY <1>1 DEF NoOp
<1>3. HostOK'
  <2>1. <<>> \in Seq(Content) /\ Len(<<>>) = 0
    OBVIOUS
  <2>2. op' \in [kind : {"none", "read", "write", "sync"}, first : Block, n : 0..MaxCount,
                todo : 0..MaxCount, data : Seq(Content), ok : BOOLEAN]
    BY <1>2, <2>1, ConstantsTyped DEF Block
  <2> QED
    BY <1>1, <1>2, <2>1, <2>2 DEF TypeInv, TypeOK, HostOK
<1>4. OpMatches'
  BY <1>1, <1>2, ConstantsTyped DEF TypeInv, OpMatches
<1> QED
  BY <1>1, <1>3, <1>4 DEF TypeInv, TypeOK, CardOK, MediumOK

\* What a step of a transfer leaves alone, and what it may do with the noise.
LEMMA TransferKeeps ==
    ASSUME TypeInv, Transfer
    PROVE  /\ UNCHANGED <<noinit, type, tries, restarts>>
           /\ noise' \in 0..MaxNoise /\ upset' \subseteq Upsets
<1>1. UNCHANGED <<noinit, type, tries, restarts>>
  BY DEF Transfer, ReadCmd, ReadBlock, Cmd12, WriteCmd, WriteBlock, Settle, Keep
<1> QED
  BY <1>1, WireSteps, WireTyped DEF Next

\* The blocks of a call are the card's.
LEMMA TargetTyped == TypeInv => Target \subseteq Block
BY ConstantsTyped DEF TypeInv, TypeOK, OpMatches, HostOK, Target, Block

\* The card that starts a transfer.
LEMMA StartsTyped ==
    ASSUME TypeInv, NEW job \in {"one", "many", "receiving"}, Starts(job), Agrees
    PROVE  CardOK'
<1>1. CardBlock(Address(op.first)) \in 0..Sectors
  BY AddressTyped, ConstantsTyped DEF Agrees, TypeInv, TypeOK, HostOK, Block
<1> QED
  BY <1>1 DEF Starts, TypeInv, TypeOK, CardOK

LEMMA EndedTyped ==
    ASSUME TypeInv, NEW ok \in BOOLEAN, Ended(ok), UNCHANGED <<noinit, type, tries>>,
           pc \in {"readCmd", "readBlock", "writeCmd", "writeBlock", "settle"}
    PROVE  HostOK' /\ OpMatches'
<1>1. /\ op' \in [kind : {"none", "read", "write", "sync"}, first : Block, n : 0..MaxCount,
                  todo : 0..MaxCount, data : Seq(Content), ok : BOOLEAN]
      /\ op'.kind = op.kind /\ op'.n = op.n /\ op'.todo = op.todo /\ op'.data = op.data
      /\ op'.first = op.first
  BY DEF Ended, TypeInv, TypeOK, HostOK
<1>2. pc' = "idle"
  BY DEF Ended
<1>3. HostOK'
  BY <1>1, <1>2 DEF TypeInv, TypeOK, HostOK
<1> QED
  BY <1>1, <1>2, <1>3 DEF TypeInv, OpMatches

LEMMA ReadCmdTypes ==
    ASSUME TypeInv, ReadCmd
    PROVE  TypeInv'
<1> DEFINE job == IF op.n = 1 THEN "one" ELSE "many"
<1>1. /\ UNCHANGED <<store, pending, known, noinit, type, tries, restarts>>
      /\ exposed' \in {exposed, {}}
      /\ noise' \in 0..MaxNoise /\ upset' \subseteq Upsets
  BY TransferKeeps DEF Transfer, ReadCmd, Secure, medium
<1>2. CardOK'
  <2>1. CASE Agrees /\ Starts(job)
    BY <2>1, StartsTyped
  <2>2. CASE UNCHANGED card
    BY <2>2 DEF TypeInv, TypeOK, CardOK
  <2> QED
    BY <2>1, <2>2 DEF ReadCmd, Fails
<1>3. HostOK' /\ OpMatches'
  <2>1. CASE pc' = "readBlock" /\ UNCHANGED op
    BY <1>1, <2>1 DEF ReadCmd, TypeInv, TypeOK, HostOK, OpMatches, Starting, Transferring
  <2>2. CASE Ended(FALSE)
    BY <1>1, <2>2, EndedTyped DEF ReadCmd
  <2> QED
    BY <2>1, <2>2 DEF ReadCmd
<1>4. MediumOK'
  BY <1>1 DEF TypeInv, TypeOK, MediumOK
<1> QED
  BY <1>1, <1>2, <1>3, <1>4 DEF TypeInv, TypeOK

LEMMA WriteCmdTypes ==
    ASSUME TypeInv, WriteCmd
    PROVE  TypeInv'
<1>1. /\ UNCHANGED <<store, pending, noinit, type, tries, restarts>>
      /\ noise' \in 0..MaxNoise /\ upset' \subseteq Upsets
  BY TransferKeeps DEF Transfer, history, WriteCmd, medium
<1>2. CardOK'
  <2>1. CASE Agrees /\ Starts("receiving")
    BY <2>1, StartsTyped
  <2>2. CASE UNCHANGED card
    BY <2>2 DEF TypeInv, TypeOK, CardOK
  <2> QED
    BY <2>1, <2>2 DEF WriteCmd, Fails
<1>3. HostOK' /\ OpMatches'
  <2>1. CASE pc' = "writeBlock" /\ UNCHANGED op /\ CardReady
    <3>1. Len(pending) = 0 /\ op.n - op.todo >= 0
      BY <2>1 DEF CardReady, TypeInv, TypeOK, HostOK
    <3> QED
      BY <1>1, <2>1, <3>1 DEF WriteCmd, TypeInv, TypeOK, HostOK, OpMatches, Starting, Transferring
  <2>2. CASE Ended(FALSE)
    BY <1>1, <2>2, EndedTyped DEF WriteCmd
  <2> QED
    BY <2>1, <2>2 DEF WriteCmd
<1>4. MediumOK'
  <2>1. exposed' \in {exposed, {}} /\ known' \in [Block -> Values \cup {Unknown}]
    BY DEF WriteCmd, Secure, history, TypeInv, TypeOK, MediumOK
  <2> QED
    BY <1>1, <2>1 DEF TypeInv, TypeOK, MediumOK
<1> QED
  BY <1>1, <1>2, <1>3, <1>4 DEF TypeInv, TypeOK

LEMMA ReadBlockTypes ==
    ASSUME TypeInv, ReadBlock
    PROVE  TypeInv'
<1>1. /\ UNCHANGED <<store, pending, exposed, known, noinit, type, tries, restarts>>
      /\ noise' \in 0..MaxNoise /\ upset' \subseteq Upsets
  BY TransferKeeps DEF Transfer, history, ReadBlock, medium
<1>2. CardOK'
  <2>1. \E done : AfterRead(done)
    BY DEF ReadBlock
  <2>2. card' = [card EXCEPT !.at = IF card.at < Sectors THEN card.at + 1 ELSE card.at,
                            !.job = IF card.job = "one" THEN "none" ELSE card.job]
    BY <2>1 DEF AfterRead
  <2>3. (IF card.at < Sectors THEN card.at + 1 ELSE card.at) \in 0..Sectors
    BY ConstantsTyped DEF TypeInv, TypeOK, CardOK
  <2> QED
    BY <2>2, <2>3 DEF TypeInv, TypeOK, CardOK
<1>3. HostOK' /\ OpMatches'
  <2>1. CASE Sending /\ Got(store[card.at]) /\ AfterRead(op.todo = 1)
    <3>1. store[card.at] \in Content
      <4>1. card.at \in Block
        BY <2>1, ConstantsTyped DEF Sending, TypeInv, TypeOK, CardOK, Block
      <4> QED
        BY <4>1 DEF TypeInv, TypeOK, MediumOK
    <3>2. Append(op.data, store[card.at]) \in Seq(Content)
          /\ Len(Append(op.data, store[card.at])) = Len(op.data) + 1
      BY <3>1 DEF TypeInv, TypeOK, HostOK
    <3>3. op.kind = "read" /\ op.todo > 0
      BY DEF ReadBlock, TypeInv, OpMatches
    <3>4. op' = [op EXCEPT !.data = Append(op.data, store[card.at]), !.todo = op.todo - 1,
                           !.ok = (op.todo = 1)]
      BY <2>1 DEF Got
    <3>5. /\ op' \in [kind : {"none", "read", "write", "sync"}, first : Block, n : 0..MaxCount,
                      todo : 0..MaxCount, data : Seq(Content), ok : BOOLEAN]
          /\ op'.kind = "read" /\ op'.n = op.n /\ op'.todo = op.todo - 1
          /\ op'.first = op.first
          /\ Len(op'.data) = Len(op.data) + 1
      <4>1. op.todo - 1 \in 0..MaxCount /\ (op.todo = 1) \in BOOLEAN
        BY <3>3, ConstantsTyped DEF TypeInv, TypeOK, HostOK
      <4> DEFINE d == Append(op.data, store[card.at])
      <4>2. d \in Seq(Content)
        BY <3>2
      <4>3. op' = [op EXCEPT !.data = d, !.todo = op.todo - 1, !.ok = (op.todo = 1)]
        BY <3>4
      <4> HIDE DEF d
      <4>4. /\ op' \in [kind : {"none", "read", "write", "sync"}, first : Block, n : 0..MaxCount,
                        todo : 0..MaxCount, data : Seq(Content), ok : BOOLEAN]
            /\ op'.kind = op.kind /\ op'.n = op.n /\ op'.todo = op.todo - 1 /\ op'.data = d
            /\ op'.first = op.first
        BY <4>1, <4>2, <4>3 DEF TypeInv, TypeOK, HostOK
      <4> QED
        BY <3>2, <3>3, <4>4 DEF d
    <3>6. pc' = IF op.todo # 1 THEN "readBlock" ELSE IF op.n = 1 THEN "idle" ELSE "cmd12"
      BY <2>1 DEF AfterRead
    <3>7. HostOK'
      BY <1>1, <3>3, <3>5, <3>6 DEF TypeInv, TypeOK, HostOK, Starting, Transferring
    <3>8. OpMatches'
      BY <3>3, <3>5, <3>6 DEF TypeInv, TypeOK, HostOK, OpMatches
    <3> QED
      BY <3>7, <3>8
  <2>2. CASE UNCHANGED op /\ AfterRead(TRUE)
    <3>1. pc' \in {"idle", "cmd12"} /\ UNCHANGED op
      BY <2>2 DEF AfterRead
    <3> QED
      BY <1>1, <3>1 DEF TypeInv, TypeOK, HostOK, OpMatches, Starting, Transferring
  <2> QED
    BY <2>1, <2>2 DEF ReadBlock
<1>4. MediumOK'
  BY <1>1 DEF TypeInv, TypeOK, MediumOK
<1> QED
  BY <1>1, <1>2, <1>3, <1>4 DEF TypeInv, TypeOK

LEMMA Cmd12Types ==
    ASSUME TypeInv, Cmd12
    PROVE  TypeInv'
<1>1. /\ UNCHANGED <<store, pending, exposed, known, noinit, type, tries, restarts>>
      /\ noise' \in 0..MaxNoise /\ upset' \subseteq Upsets
  BY TransferKeeps DEF Transfer, history, Cmd12, medium
<1>2. CardOK'
  BY DEF Cmd12, TypeInv, TypeOK, CardOK
<1>3. pc' = "idle" /\ (op' = op \/ op' = [op EXCEPT !.ok = FALSE])
  BY DEF Cmd12
<1>4. HostOK' /\ OpMatches'
  <2>1. /\ op' \in [kind : {"none", "read", "write", "sync"}, first : Block, n : 0..MaxCount,
                    todo : 0..MaxCount, data : Seq(Content), ok : BOOLEAN]
        /\ op'.kind = op.kind /\ op'.n = op.n /\ op'.todo = op.todo /\ op'.data = op.data
    BY <1>3 DEF TypeInv, TypeOK, HostOK
  <2> QED
    BY <1>1, <1>3, <2>1 DEF TypeInv, TypeOK, HostOK, OpMatches
<1>5. MediumOK'
  BY <1>1 DEF TypeInv, TypeOK, MediumOK
<1> QED
  BY <1>1, <1>2, <1>4, <1>5 DEF TypeInv, TypeOK

\* What a call that succeeds says of the blocks.
LEMMA SucceedsTyped ==
    ASSUME TypeInv, Succeeds, op.kind = "write"
    PROVE  known' \in [Block -> Values \cup {Unknown}] /\ exposed' \subseteq Block
<1>1. ASSUME NEW b \in Target \cap Block PROVE op.data[b - op.first + 1] \in Values
  <2>1. b - op.first + 1 \in 1..Len(op.data)
    BY <1>1, ConstantsTyped DEF Target, TypeInv, TypeOK, HostOK, Block
  <2>2. op.data \in Seq(Values)
    BY DEF TypeInv, OpMatches
  <2> QED
    BY <2>1, <2>2, ElementOfSeq
<1>2. \A b \in Block : known[b] \in Values \cup {Unknown}
  BY DEF TypeInv, TypeOK, MediumOK
<1>3. known' = [b \in Block |-> IF b \in Target THEN op.data[b - op.first + 1] ELSE known[b]]
      /\ exposed' \in {Target, {}}
  BY DEF Succeeds
<1> QED
  BY <1>1, <1>2, <1>3, TargetTyped

LEMMA SettleTypes ==
    ASSUME TypeInv, Settle
    PROVE  TypeInv'
<1>1. /\ UNCHANGED <<card, store, pending, noinit, type, tries, restarts>>
      /\ noise' \in 0..MaxNoise /\ upset' \subseteq Upsets
  BY TransferKeeps DEF Transfer, history, Settle, medium
<1>2. HostOK' /\ OpMatches'
  BY <1>1, EndedTyped DEF Settle
<1>3. MediumOK'
  BY <1>1, SucceedsTyped DEF Settle, TypeInv, TypeOK, MediumOK, OpMatches
<1> QED
  BY <1>1, <1>2, <1>3 DEF TypeInv, TypeOK, CardOK

\* A block that the card takes, with one more block pending at most.
LEMMA TakenTyped ==
    ASSUME TypeInv, pc = "writeBlock", Taken, card.at < Sectors,
           UNCHANGED <<noinit, type, tries>>,
           Len(pending') <= Len(pending) + 1
    PROVE  /\ HostOK' /\ CardOK' /\ OpMatches'
           /\ known' \in [Block -> Values \cup {Unknown}] /\ exposed' \subseteq Block
<1>1. op.kind = "write" /\ op.todo > 0
  BY DEF TypeInv, OpMatches
<1>2. /\ op' \in [kind : {"none", "read", "write", "sync"}, first : Block, n : 0..MaxCount,
                  todo : 0..MaxCount, data : Seq(Content), ok : BOOLEAN]
      /\ op'.kind = op.kind /\ op'.n = op.n /\ op'.todo = op.todo - 1 /\ op'.data = op.data
      /\ op'.first = op.first
  <2>1. op.todo - 1 \in 0..MaxCount /\ (op.todo = 1 /\ op.n > 1) \in BOOLEAN
    BY <1>1, ConstantsTyped DEF TypeInv, TypeOK, HostOK
  <2>2. op' = [op EXCEPT !.todo = op.todo - 1, !.ok = (op.todo = 1 /\ op.n > 1)]
    BY DEF Taken
  <2> QED
    BY <2>1, <2>2 DEF TypeInv, TypeOK, HostOK
<1>3. \/ op.todo > 1 /\ pc' = "writeBlock"
      \/ op.todo <= 1 /\ pc' \in {"idle", "settle"}
  BY DEF Taken, TypeInv, TypeOK, HostOK
<1>4. HostOK'
  BY <1>1, <1>2, <1>3 DEF TypeInv, TypeOK, HostOK, Starting, Transferring
<1>5. CardOK'
  <2>1. card.at + 1 \in 0..Sectors
    BY ConstantsTyped DEF TypeInv, TypeOK, CardOK
  <2>2. \/ card' = [card EXCEPT !.at = card.at + 1]
        \/ card' = [card EXCEPT !.job = "none"]
    BY DEF Taken
  <2> QED
    BY <2>1, <2>2 DEF TypeInv, TypeOK, CardOK
<1>6. OpMatches'
  <2>1. Len(pending) <= op.n - op.todo /\ op.data \in Seq(Values) /\ op.first + op.n =< Sectors
    BY <1>1 DEF TypeInv, OpMatches
  <2>2. Len(pending) \in Nat /\ Len(pending') \in Int => Len(pending') <= op'.n - op'.todo
    BY <1>2, <2>1 DEF TypeInv, TypeOK, HostOK
  <2>3. op.todo > 1 => op'.todo > 0
    BY <1>2 DEF TypeInv, TypeOK, HostOK
  <2>4. Len(pending') <= op'.n - op'.todo
    BY <1>2, <2>1 DEF TypeInv, TypeOK, HostOK, MediumOK
  <2> QED
    BY <1>1, <1>2, <1>3, <2>1, <2>3, <2>4 DEF OpMatches
<1>7. known' \in [Block -> Values \cup {Unknown}] /\ exposed' \subseteq Block
  <2>1. (known' = known /\ exposed' = exposed) \/ Succeeds
    BY DEF Taken, history
  <2> QED
    BY <1>1, <2>1, SucceedsTyped DEF TypeInv, TypeOK, MediumOK
<1> QED
  BY <1>4, <1>5, <1>6, <1>7

LEMMA WriteBlockTypes ==
    ASSUME TypeInv, WriteBlock
    PROVE  TypeInv'
<1> DEFINE v == op.data[op.n - op.todo + 1]
           entry(c) == [block |-> card.at, value |-> c]
<1>1. /\ UNCHANGED <<store, noinit, type, tries, restarts>>
      /\ noise' \in 0..MaxNoise /\ upset' \subseteq Upsets
  BY TransferKeeps DEF Transfer, history, WriteBlock
<1>2. op.kind = "write" /\ op.todo > 0 /\ Len(pending) <= op.n - op.todo
  BY DEF WriteBlock, TypeInv, OpMatches
<1>3. v \in Values
  <2>1. op.n - op.todo + 1 \in 1..Len(op.data)
    BY <1>2, ConstantsTyped DEF TypeInv, TypeOK, HostOK
  <2>2. op.data \in Seq(Values)
    BY <1>2 DEF TypeInv, OpMatches
  <2> QED
    BY <2>1, <2>2, ElementOfSeq
<1>4. ASSUME NEW c \in Content, card.at < Sectors, Accepted(c)
      PROVE  /\ pending' \in Seq([block : Block, value : Content])
             /\ Len(pending') = Len(pending) + 1
  <2>1. entry(c) \in [block : Block, value : Content]
    BY <1>4, ConstantsTyped DEF TypeInv, TypeOK, CardOK, Block
  <2>2. pending' = Append(pending, entry(c))
    BY <1>4 DEF Accepted
  <2> HIDE DEF entry
  <2> QED
    BY <2>1, <2>2 DEF TypeInv, TypeOK, MediumOK
<1>5. v \in Content /\ Garbage \in Content
  BY <1>3 DEF Content
<1>6. Len(pending) + 1 <= MaxCount
  BY <1>2, ConstantsTyped DEF TypeInv, TypeOK, HostOK, MediumOK
<1> HIDE DEF v
<1>7. CASE \E c \in Content : card.at < Sectors /\ Accepted(c) /\ Taken
  <2>1. PICK c \in Content : card.at < Sectors /\ Accepted(c) /\ Taken
    BY <1>7
  <2>2. pending' \in Seq([block : Block, value : Content]) /\ Len(pending') = Len(pending) + 1
    BY <1>4, <2>1
  <2>3. Len(pending') <= Len(pending) + 1 /\ Len(pending') <= MaxCount
    BY <1>6, <2>2 DEF TypeInv, TypeOK, MediumOK
  <2>4. /\ HostOK' /\ CardOK' /\ OpMatches'
        /\ known' \in [Block -> Values \cup {Unknown}] /\ exposed' \subseteq Block
    BY <1>1, <2>1, <2>3, TakenTyped DEF WriteBlock
  <2> QED
    BY <1>1, <2>2, <2>3, <2>4 DEF TypeInv, TypeOK, MediumOK
<1>8. CASE /\ Ended(FALSE) /\ card' = [card EXCEPT !.job = "none"] /\ UNCHANGED <<known, exposed>>
           /\ pending' = pending \/ (card.at < Sectors /\ Accepted(v))
  <2>1. pending' \in Seq([block : Block, value : Content]) /\ Len(pending') <= MaxCount
    <3>1. CASE pending' = pending
      BY <3>1 DEF TypeInv, TypeOK, MediumOK
    <3>2. CASE card.at < Sectors /\ Accepted(v)
      BY <1>4, <1>5, <1>6, <3>2
    <3> QED
      BY <1>8, <3>1, <3>2
  <2>2. HostOK'
    BY <1>1, <1>8, EndedTyped DEF WriteBlock
  <2>3. OpMatches'
    BY <1>8, <1>2 DEF Ended, TypeInv, TypeOK, HostOK, OpMatches
  <2>4. CardOK'
    BY <1>8 DEF TypeInv, TypeOK, CardOK
  <2> QED
    BY <1>1, <1>8, <2>1, <2>2, <2>3, <2>4 DEF TypeInv, TypeOK, MediumOK
<1>9. \/ \E c \in Content : card.at < Sectors /\ Accepted(c) /\ Taken
      \/ /\ Ended(FALSE) /\ card' = [card EXCEPT !.job = "none"] /\ UNCHANGED <<known, exposed>>
         /\ pending' = pending \/ (card.at < Sectors /\ Accepted(v))
  <2> HIDE DEF Ended, Taken, Accepted
  <2> QED
    BY <1>5 DEF WriteBlock, history, v
<1> QED
  BY <1>7, <1>8, <1>9

LEMMA ProgramTypes ==
    ASSUME TypeInv, Program
    PROVE  TypeInv'
<1>1. /\ pending' \in Seq([block : Block, value : Content]) /\ Len(pending') = Len(pending) - 1
      /\ Head(pending) \in [block : Block, value : Content]
  <2> DEFINE E == [block : Block, value : Content]
  <2>1. pending \in Seq(E) /\ pending # <<>> /\ pending' = Tail(pending)
    BY DEF Program, TypeInv, TypeOK, MediumOK
  <2> HIDE DEF E
  <2>2. Tail(pending) \in Seq(E) /\ Len(Tail(pending)) = Len(pending) - 1 /\ Head(pending) \in E
    BY <2>1, HeadTailProperties
  <2> QED
    BY <2>1, <2>2 DEF E
<1>2. store' \in [Block -> Content]
  BY <1>1 DEF Program, TypeInv, TypeOK, MediumOK
<1>3. /\ UNCHANGED <<pc, noinit, type, tries, op, card>>
      /\ UNCHANGED <<noise, restarts, upset, exposed, known>>
  BY DEF Program, host, history
<1>4. OpMatches'
  BY <1>1, <1>3 DEF TypeInv, TypeOK, HostOK, MediumOK, OpMatches
<1>5. MediumOK'
  BY <1>1, <1>2, <1>3, ConstantsTyped DEF TypeInv, TypeOK, MediumOK
<1> QED
  BY <1>3, <1>4, <1>5 DEF TypeInv, TypeOK, HostOK, CardOK

LEMMA ResetTypes ==
    ASSUME TypeInv, Restart \/ PowerCycle
    PROVE  TypeInv'
<1>1. /\ pc' = "idle" /\ noinit' = TRUE /\ type' = "none" /\ tries' = 0 /\ op' = NoOp
      /\ restarts' \in 0..MaxRestarts /\ noise' = noise /\ upset' = upset
  BY ConstantsTyped DEF Restart, PowerCycle, Reset, TypeInv, TypeOK
<1>2. HostOK' /\ OpMatches'
  BY <1>1, ConstantsTyped DEF HostOK, OpMatches, NoOp, Starting, Transferring, Block
<1>3. CardOK'
  <2>1. CASE Restart
    BY <2>1 DEF Restart, TypeInv, TypeOK, CardOK
  <2>2. CASE PowerCycle
    BY <2>2, ConstantsTyped DEF PowerCycle, Fresh, TypeInv, TypeOK, CardOK
  <2> QED
    BY <2>1, <2>2
<1>4. MediumOK'
  <2>1. CASE Restart
    BY <2>1 DEF Restart, medium, history, TypeInv, TypeOK, MediumOK
  <2>2. CASE PowerCycle
    <3>1. pending' = <<>> /\ known' \in [Block -> Values \cup {Unknown}] /\ exposed' = {}
      BY <2>2 DEF PowerCycle, TypeInv, TypeOK, MediumOK
    <3>2. store' \in [Block -> Content]
      BY <2>2 DEF PowerCycle, TypeInv, TypeOK, MediumOK, Content
    <3>3. <<>> \in Seq([block : Block, value : Content]) /\ Len(<<>>) <= MaxCount
      BY ConstantsTyped
    <3> QED
      BY <3>1, <3>2, <3>3 DEF MediumOK
  <2> QED
    BY <2>1, <2>2
<1> QED
  BY <1>1, <1>2, <1>3, <1>4 DEF TypeInv, TypeOK

\* Every step keeps the types.
LEMMA NextTypes == TypeInv /\ [Next]_vars => TypeInv'
<1> SUFFICES ASSUME TypeInv, [Next]_vars PROVE TypeInv'
  OBVIOUS
<1>1. CASE Transfer
  BY <1>1, ReadCmdTypes, ReadBlockTypes, Cmd12Types, WriteCmdTypes, WriteBlockTypes, SettleTypes
     DEF Transfer
<1>2. CASE UNCHANGED vars
  BY <1>2 DEF vars, host, medium, history, TypeInv, TypeOK, HostOK, CardOK, MediumOK, OpMatches
<1> QED
  BY <1>1, <1>2, StartTypes, UserTypes, SyncTypes, ProgramTypes, ResetTypes DEF Next

\* Types and bounds of every variable, for any cards, sizes and noise.
THEOREM SdTypes == Spec => []TypeOK
<1>1. TypeInv => TypeOK
  BY DEF TypeInv
<1> QED
  BY <1>1, InitTypes, NextTypes, PTL DEF Spec

(***************************************************************************)
(* Driver and card agree.                                                  *)
(***************************************************************************)
LEMMA InitStages == Init => Stage
BY DEF Init, Stage, Stages, Agreement, Starting, Transferring

\* What is gone wrong unnoticed stays on record.
LEMMA Unmisled ==
    ASSUME TypeInv, Next, ~Misled'
    PROVE  ~Misled /\ ~Upset("misheard") /\ ~Upset("slow")
BY WireSteps, WireTyped DEF Misled, Upset

\* The commands of the start-up conversation.
LEMMA StartStages ==
    ASSUME TypeInv, Stages, Start
    PROVE  Stages'
<1> USE DEF Stages, Starting, Transferring
<1>0. CASE InitCall
  BY <1>0 DEF InitCall
<1>1. CASE Cmd0
  <2>1. /\ pc = "cmd0" /\ UNCHANGED <<noinit, type>>
        /\ pc' \in {"cmd0", "idle"} \/ (pc' = "cmd8" /\ card'.state = "idle")
    <3>1. Reset0.state = "idle"
      BY DEF Reset0, Fresh
    <3> HIDE DEF Reset0
    <3>2. /\ pc = "cmd0" /\ UNCHANGED <<noinit, type>>
          /\ pc' \in {"cmd0", "idle"} \/ (pc' = "cmd8" /\ card' = Reset0)
      BY <1>1 DEF Cmd0, GoOn
    <3> QED
      BY <3>1, <3>2
  <2> QED
    BY <2>1
<1>2. CASE Cmd8
  <2>1. /\ pc = "cmd8" /\ pc' \in {"cmd59", "idle"} /\ UNCHANGED <<noinit, card>>
        /\ type' \in {type, "V2", "unknown"}
    BY <1>2 DEF Cmd8, GoOn, GiveUp
  <2> QED
    BY <2>1
<1>3. CASE Cmd59
  <2>1. /\ pc = "cmd59" /\ pc' = "cmd58" /\ UNCHANGED <<noinit, type>>
        /\ card'.state = card.state
    BY <1>3 DEF Cmd59, GoOn, TypeInv, TypeOK, CardOK
  <2> QED
    BY <2>1
<1>4. CASE Cmd58
  <2>1. /\ pc = "cmd58" /\ UNCHANGED <<noinit, card>>
        /\ pc' = "idle" \/ (pc' = "acmd41" /\ type' = type)
    BY <1>4 DEF Cmd58, GoOn, GiveUp
  <2> QED
    BY <2>1
<1>5. CASE Acmd41
  <2>1. /\ pc = "acmd41" /\ UNCHANGED noinit
        /\ \/ pc' \in {"cmd9", "idle"}
           \/ pc' = "ccs" /\ type = "V2" /\ type' = type
           \/ pc' = "acmd41" /\ UNCHANGED <<card, type>>
    BY <1>5 DEF Acmd41, Up, GoOn, GiveUp
  <2>2. card'.state \in {"idle", "ready"}
    BY <1>5 DEF Acmd41, MayComeUp, Ready, TypeInv, TypeOK, CardOK
  <2> QED
    BY <2>1, <2>2
<1>6. CASE Ccs
  <2>1. pc = "ccs" /\ UNCHANGED noinit /\ pc' \in {"cmd9", "idle"}
    BY <1>6 DEF Ccs, GoOn, GiveUp
  <2> QED
    BY <2>1
<1>7. CASE Cmd9
  <2>1. /\ pc = "cmd9" /\ UNCHANGED <<noinit, type, card>>
        /\ pc' = "idle" \/ (pc' = "cmd16" /\ card.state = "ready")
    BY <1>7 DEF Cmd9, GoOn, GiveUp
  <2> QED
    BY <2>1
<1>8. CASE Cmd16
  <2>1. /\ pc = "cmd16" /\ pc' = "idle" /\ UNCHANGED <<type, card>>
    BY <1>8 DEF Cmd16
  <2> QED
    BY <2>1
<1> QED
  BY <1>0, <1>1, <1>2, <1>3, <1>4, <1>5, <1>6, <1>7, <1>8 DEF Start

\* Where they come to an agreement: at the end of the ACMD41 loop for the
\* cards of version 1, and at the capacity bit for the others.
LEMMA StartAgrees ==
    ASSUME TypeInv, Stages, Agreement, Start, ~Upset("misheard"), ~Upset("slow")
    PROVE  Agreement'
<1> USE DEF Agreement, SameAddresses
<1>1. CASE Acmd41
  <2>1. /\ pc = "acmd41" /\ noinit' = noinit
        /\ \/ Willing /\ card' = Ready /\ Up
           \/ ~Willing /\ MayComeUp /\ pc' = "cmd9"
           \/ pc' \in {"idle", "acmd41"}
    BY <1>1 DEF Acmd41, Up, GoOn, GiveUp
  <2>2. noinit /\ card.state = "idle" /\ type # "V2HC"
    BY <2>1 DEF Stages, Starting
  <2>3. CASE Willing /\ card' = Ready /\ Up
    <3>1. card'.state = "ready" /\ card'.kind = card.kind
      BY <2>3 DEF Ready, TypeInv, TypeOK, CardOK
    <3>2. \/ pc' = "ccs"
          \/ pc' = "cmd9" /\ type # "V2" /\ type' = "V1"
      BY <2>3 DEF Up, GoOn
    <3> QED
      BY <2>1, <2>2, <2>3, <3>1, <3>2 DEF Willing
  <2>4. CASE ~Willing /\ MayComeUp /\ pc' = "cmd9"
    <3>1. card' = card
      BY <2>4 DEF MayComeUp
    <3> QED
      BY <2>1, <2>2, <2>4, <3>1
  <2> QED
    BY <2>1, <2>2, <2>3, <2>4
<1>2. CASE Ccs
  <2>1. /\ pc = "ccs" /\ noinit' = noinit /\ card' \in {card, Ready}
        /\ \/ pc' = "idle"
           \/ /\ pc' = "cmd9"
              /\ type' = IF card.kind = "V2HC" /\ card.state = "ready" THEN "V2HC" ELSE type
    BY <1>2 DEF Ccs, MayComeUp, GoOn, GiveUp
  <2>2. noinit /\ card.state = "ready" /\ type = "V2" /\ card'.kind = card.kind
    BY <2>1 DEF Stages, Starting, Ready, TypeInv, TypeOK, CardOK
  <2> QED
    BY <2>1, <2>2
<1>3. CASE Cmd9 \/ Cmd16
  <2>1. UNCHANGED <<type, card>>
    BY <1>3 DEF Cmd9, Cmd16
  <2>2. \/ pc = "cmd9" /\ noinit' = noinit /\ (pc' = "idle" \/ (pc' = "cmd16" /\ card.state = "ready"))
        \/ pc = "cmd16" /\ pc' = "idle"
    BY <1>3 DEF Cmd9, Cmd16, GoOn, GiveUp
  <2> QED
    BY <2>1, <2>2 DEF Stages, Starting
<1>4. CASE InitCall \/ Cmd0 \/ Cmd8 \/ Cmd59 \/ Cmd58
  <2>1. noinit' = noinit /\ pc' \in {"idle", "cmd0", "cmd8", "cmd59", "cmd58", "acmd41"}
    BY <1>4 DEF InitCall, Cmd0, Cmd8, Cmd59, Cmd58, GoOn, GiveUp
  <2>2. noinit
    BY <1>4 DEF InitCall, Cmd0, Cmd8, Cmd59, Cmd58, Stages, Starting
  <2> QED
    BY <2>1, <2>2
<1> QED
  BY <1>1, <1>2, <1>3, <1>4 DEF Start

\* A transfer changes neither the card's kind nor its state.
LEMMA TransferStages ==
    ASSUME TypeInv, Stages, Transfer
    PROVE  Stages' /\ (Agreement => Agreement')
<1>1. UNCHANGED <<noinit, type>>
  BY TransferKeeps
<1>2. pc \in Transferring /\ pc' \in {"idle"} \cup Transferring
  BY DEF Transfer, ReadCmd, ReadBlock, AfterRead, Cmd12, WriteCmd, WriteBlock, Taken, Settle, Ended,
     Transferring
<1>3. card'.kind = card.kind /\ card'.state = card.state
  BY DEF Transfer, ReadCmd, Fails, Starts, ReadBlock, AfterRead, Cmd12, WriteCmd, WriteBlock, Taken,
     Settle, TypeInv, TypeOK, CardOK
<1>4. ~noinit /\ card.state = "ready"
  BY <1>2 DEF Stages
<1>5. Stages'
  BY <1>1, <1>2, <1>3, <1>4 DEF Stages, Starting, Transferring
<1>6. Agreement => Agreement'
  BY <1>1, <1>2, <1>3, <1>4 DEF Agreement, SameAddresses, Transferring
<1> QED
  BY <1>5, <1>6

LEMMA NextStages ==
    ASSUME TypeInv, Stage, [Next]_vars
    PROVE  Stage'
<1>1. CASE User \/ Sync
  BY <1>1 DEF User, Read, Write, Call, Sync, Keep, Stage, Stages, Agreement, Misled, SameAddresses,
              Starting, Transferring
<1>2. CASE Program \/ UNCHANGED vars
  BY <1>2 DEF Program, vars, host, Stage, Stages, Agreement, Misled, SameAddresses
<1>3. CASE Restart \/ PowerCycle
  BY <1>3 DEF Restart, PowerCycle, Reset, Stage, Stages, Agreement, Starting, Transferring
<1>4. CASE Start
  <2>1. Stages'
    BY <1>4, StartStages DEF Stage
  <2>2. ~Misled' => Agreement'
    BY <1>4, Unmisled, StartAgrees DEF Stage, Next
  <2> QED
    BY <2>1, <2>2 DEF Stage
<1>5. CASE Transfer
  <2>1. Stages' /\ (Agreement => Agreement')
    BY <1>5, TransferStages DEF Stage
  <2>2. ~Misled' => ~Misled
    BY <1>5, Unmisled DEF Next
  <2> QED
    BY <2>1, <2>2 DEF Stage
<1> QED
  BY <1>1, <1>2, <1>3, <1>4, <1>5 DEF Next

\* Whatever goes wrong on the way: a driver that has cleared STA_NOINIT has a
\* card that is ready, and unless an answer was damaged unnoticed or the card
\* outlasted a wait the two agree on addresses (sd_card.c:583-690, 787-833).
THEOREM DriverAgrees == Spec => []DriverKnowsCard
<1>1. Init => TypeInv /\ Stage
  BY InitTypes, InitStages
<1>2. TypeInv /\ Stage /\ [Next]_vars => (TypeInv /\ Stage)'
  BY NextTypes, NextStages
<1>3. Stage => DriverKnowsCard
  BY DEF Stage, Stages, Agreement, SameAddresses, DriverKnowsCard
<1> QED
  BY <1>1, <1>2, <1>3, PTL DEF Spec
-----------------------------------------------------------------------------
\* Final, of any queue and any medium.
FinalOf(p, s, b) ==
    LET of == {i \in 1..Len(p) : p[i].block = b}
    IN IF of = {} THEN s[b]
       ELSE p[CHOOSE i \in of : \A j \in of : j <= i].value

\* No block is in the queue twice.
Apart(p) == \A i, j \in 1..Len(p) : p[i].block = p[j].block => i = j

\* Block b is the i-th of the queue; and nowhere in it.
Place(p, i, b) == i \in 1..Len(p) /\ p[i].block = b
Absent(p, b) == \A i \in 1..Len(p) : p[i].block # b

\* Block c joins the queue with contents v; the first one leaves for the medium.
Queue == Seq([block : Block, value : Content])
Joins(p, q, c, v) == q = Append(p, [block |-> c, value |-> v])
Joined(p, q, s, c, v) ==
    /\ Apart(q) /\ FinalOf(q, s, c) = v
    /\ \A b : b # c => FinalOf(q, s, b) = FinalOf(p, s, b)
Leaves(p, s, q, t) ==
    p # <<>> /\ q = Tail(p) /\ t = [s EXCEPT ![Head(p).block] = Head(p).value]

\* The card checks what it is sent once the conversation is past CMD59.
Checking ==
    /\ pc \in {"cmd58", "acmd41", "ccs", "cmd9", "cmd16"} => card.crc
    /\ ~noinit => card.crc

\* A write on its way: none of its blocks is promised, the ones it has sent
\* and no others are in the queue or on the medium.
Underway ==
    /\ \A b \in Target : known[b] = Unknown
    /\ \A i \in 1..Len(pending) : pending[i].block \in op.first..(op.first + (op.n - op.todo) - 1)
    /\ \A i \in 1..(op.n - op.todo) : FinalOf(pending, store, op.first + i - 1) = op.data[i]

Writing ==
    /\ noinit => op.kind \in {"none", "sync"}
    /\ pc \in {"readCmd", "writeCmd"} => op.todo = op.n
    /\ pc = "cmd12" => op.kind = "read"
    /\ pc = "writeBlock" => card.at = op.first + (op.n - op.todo)
    /\ pc \in {"writeBlock", "settle"} => Underway
    /\ pc = "settle" => op.n = 1 /\ op.todo = 0
    /\ op.kind = "write" /\ op.n = 1 /\ op.ok /\ pc = "idle" =>
         pending = <<>> /\ store[op.first] = op.data[1]

Kept == \A b \in Block : known[b] \in {Unknown, FinalOf(pending, store, b)}

\* What the card has not programmed is not promised, or exposed.
Secured == \A i \in 1..Len(pending) :
    pending[i].block \in exposed \/ known[pending[i].block] = Unknown

WriteInv == Checking /\ Writing /\ Apart(pending) /\ Kept /\ Secured

\* A read on its way: the card stands at the block that is due.
Reading ==
    /\ ~noinit /\ pc \in {"idle", "readCmd", "writeCmd", "settle"} => card.job = "none"
    /\ pc \in {"cmd8", "cmd59", "cmd58", "acmd41", "ccs", "cmd9", "cmd16"} => card.job = "none"
    /\ pc = "readBlock" =>
         /\ card.job = (IF op.n = 1 THEN "one" ELSE "many") /\ pending = <<>>
         /\ card.at = op.first + (op.n - op.todo)
    /\ op.kind = "read" =>
         /\ \A i \in 1..Len(op.data) : known[op.first + i - 1] \in {Unknown, op.data[i]}
         /\ op.ok => op.todo = 0
-----------------------------------------------------------------------------
(* What a block will hold, while blocks join and leave the queue.            *)

LEMMA At ==
    ASSUME NEW S, NEW p, p \in Seq(S), NEW i, i \in 1..Len(p)
    PROVE  p[i] \in S
OBVIOUS

LEMMA FinalNone == \A p, s, b : Absent(p, b) => FinalOf(p, s, b) = s[b]
<1> SUFFICES ASSUME NEW p, NEW s, NEW b, Absent(p, b) PROVE FinalOf(p, s, b) = s[b]
  OBVIOUS
<1>1. {i \in 1..Len(p) : p[i].block = b} = {}
  BY DEF Absent
<1> QED
  BY <1>1 DEF FinalOf

LEMMA FinalAt ==
    \A p, s, b, i : Apart(p) /\ Place(p, i, b) => FinalOf(p, s, b) = p[i].value
<1> SUFFICES ASSUME NEW p, NEW s, NEW b, NEW i, Apart(p), Place(p, i, b)
             PROVE  FinalOf(p, s, b) = p[i].value
  OBVIOUS
<1> DEFINE of == {j \in 1..Len(p) : p[j].block = b}
<1>1. of = {i}
  BY DEF Apart, Place
<1>2. (CHOOSE j \in of : \A k \in of : k <= j) = i
  <2>1. i <= i
    BY DEF Place
  <2>2. \A j \in of : (\A k \in of : k <= j) <=> j = i
    BY <1>1, <2>1
  <2>3. \E j \in of : \A k \in of : k <= j
    BY <1>1, <2>1
  <2> QED
    BY <2>2, <2>3
<1> QED
  BY <1>1, <1>2 DEF FinalOf

\* A block that joins: nothing changes for the others.
LEMMA FinalAppend ==
    \A p, q, s, c, v : p \in Queue /\ Apart(p) /\ Absent(p, c) /\ Joins(p, q, c, v)
                            => Joined(p, q, s, c, v)
<1> SUFFICES ASSUME NEW p, NEW q, NEW s, NEW c, NEW v, p \in Queue, Apart(p),
                    Absent(p, c), Joins(p, q, c, v)
             PROVE  Joined(p, q, s, c, v)
  OBVIOUS
<1> DEFINE n == Len(p)
<1>1. /\ n \in Nat /\ Len(q) = n + 1 /\ q[n + 1] = [block |-> c, value |-> v]
      /\ \A i \in 1..n : q[i] = p[i]
  BY DEF Joins, Queue
<1>2. \A i \in 1..n : p[i].block # c
  BY DEF Absent
<1>3. \A i, j \in 1..n : p[i].block = p[j].block => i = j
  BY DEF Apart
<1>4. \A b, i : Place(p, i, b) <=> i \in 1..n /\ p[i].block = b
  BY DEF Place
<1>5. \A b : Absent(p, b) <=> \A i \in 1..n : p[i].block # b
  BY DEF Absent
<1> HIDE DEF n
<1>6. \A i : i \in 1..Len(q) <=> i \in 1..n \/ i = n + 1
  BY <1>1
<1>7. Place(q, n + 1, c) /\ q[n + 1].value = v
  BY <1>1, <1>6 DEF Place
<1>8. Apart(q)
  BY <1>1, <1>2, <1>3, <1>6 DEF Apart
<1>9. FinalOf(q, s, c) = v
  BY ONLY <1>7, <1>8, FinalAt
<1>10. ASSUME NEW b, b # c PROVE FinalOf(q, s, b) = FinalOf(p, s, b)
  <2>1. CASE \E i \in 1..n : p[i].block = b
    <3>1. PICK i : i \in 1..n /\ p[i].block = b
      BY <2>1
    <3>2. Place(q, i, b) /\ Place(p, i, b) /\ q[i].value = p[i].value
      BY <3>1, <1>1, <1>4, <1>6 DEF Place
    <3> QED
      BY ONLY <3>2, <1>8, Apart(p), FinalAt
  <2>2. CASE ~ \E i \in 1..n : p[i].block = b
    <3>1. Absent(p, b)
      BY <2>2, <1>5
    <3>2. Absent(q, b)
      BY <2>2, <1>1, <1>6, <1>10 DEF Absent
    <3> QED
      BY ONLY <3>1, <3>2, FinalNone
  <2> QED
    BY <2>1, <2>2
<1> QED
  BY <1>8, <1>9, <1>10 DEF Joined

\* The oldest block goes to the medium: nothing changes for any.
LEMMA FinalTail ==
    \A p, q, s, t : p \in Queue /\ s \in [Block -> Content] /\ Apart(p) /\ Leaves(p, s, q, t) =>
        Apart(q) /\ \A b \in Block : FinalOf(q, t, b) = FinalOf(p, s, b)
<1> SUFFICES ASSUME NEW p, NEW q, NEW s, NEW t, p \in Queue, s \in [Block -> Content],
                    Apart(p), Leaves(p, s, q, t)
             PROVE  Apart(q) /\ \A b \in Block : FinalOf(q, t, b) = FinalOf(p, s, b)
  OBVIOUS
<1> DEFINE n == Len(q)
<1>1. /\ n \in Nat /\ Len(p) = n + 1 /\ Head(p) = p[1]
      /\ \A i \in 1..n : q[i] = p[i + 1]
  BY DEF Leaves, Queue
<1>2. p[1] \in [block : Block, value : Content]
  <2>1. 1 \in 1..Len(p)
    BY <1>1
  <2> QED
    BY ONLY <2>1, p \in Queue, At DEF Queue
<1>3. p[1].block \in Block
  BY ONLY <1>2
<1>4. t[p[1].block] = p[1].value /\ \A b \in Block : b # p[1].block => t[b] = s[b]
  BY ONLY <1>1, <1>3, s \in [Block -> Content], Leaves(p, s, q, t) DEF Leaves
<1>5. \A b, i : Place(q, i, b) <=> i \in 1..n /\ q[i].block = b
  BY DEF Place
<1>6. \A b : Absent(q, b) <=> \A i \in 1..n : q[i].block # b
  BY DEF Absent
<1> HIDE DEF n
<1>7. \A i \in 1..n : i + 1 \in 1..Len(p)
  BY <1>1
<1>8. \A i \in 1..Len(p) : i = 1 \/ (i - 1 \in 1..n /\ i = (i - 1) + 1)
  BY <1>1
<1>9. Apart(q)
  <2> SUFFICES ASSUME NEW i \in 1..n, NEW j \in 1..n, q[i].block = q[j].block
               PROVE  i = j
    BY DEF Apart, n
  <2>1. i + 1 = j + 1
    BY <1>1, <1>7 DEF Apart
  <2> QED
    BY <2>1
<1>10. ASSUME NEW b, b \in Block PROVE FinalOf(q, t, b) = FinalOf(p, s, b)
  <2>1. CASE \E i \in 1..n : q[i].block = b
    <3>1. PICK i : i \in 1..n /\ q[i].block = b
      BY <2>1
    <3>2. Place(q, i, b) /\ Place(p, i + 1, b) /\ q[i].value = p[i + 1].value
      BY <3>1, <1>1, <1>5, <1>7 DEF Place
    <3> QED
      BY ONLY <3>2, <1>9, Apart(p), FinalAt
  <2>2. CASE ~ \E i \in 1..n : q[i].block = b
    <3>1. FinalOf(q, t, b) = t[b]
      <4>1. Absent(q, b)
        BY <2>2, <1>6
      <4> QED
        BY ONLY <4>1, FinalNone
    <3>2. CASE b = p[1].block
      <4>1. Place(p, 1, b)
        BY <3>2, <1>1 DEF Place
      <4>2. FinalOf(p, s, b) = p[1].value
        BY ONLY <4>1, Apart(p), FinalAt
      <4> QED
        BY ONLY <3>1, <3>2, <4>2, <1>4
    <3>3. CASE b # p[1].block
      <4>1. Absent(p, b)
        BY <1>8, <1>1, <2>2, <3>3 DEF Absent
      <4>2. FinalOf(p, s, b) = s[b]
        BY ONLY <4>1, FinalNone
      <4> QED
        BY ONLY <3>1, <3>3, <4>2, <1>4, <1>10
    <3> QED
      BY <3>2, <3>3
  <2> QED
    BY <2>1, <2>2
<1> QED
  BY <1>9, <1>10
-----------------------------------------------------------------------------
(* Acknowledged blocks.                                                      *)

LEMMA InitWrites == Init => WriteInv
<1> SUFFICES ASSUME Init PROVE WriteInv
  OBVIOUS
<1>1. op = NoOp /\ pc = "idle" /\ noinit /\ pending = <<>>
  BY DEF Init
<1>2. Checking /\ Writing
  BY <1>1 DEF Checking, Writing, NoOp
<1>3. Apart(pending) /\ Secured
  BY <1>1 DEF Apart, Secured
<1>4. Kept
  BY DEF Init, Kept
<1> QED
  BY <1>2, <1>3, <1>4 DEF WriteInv

\* The start-up conversation touches no data; past CMD59 the card checks.
LEMMA StartWrites ==
    ASSUME TypeInv, Stages, WriteInv, Start, ~Upset("unchecked")
    PROVE  WriteInv'
<1>1. UNCHANGED <<op, store, pending, known>> /\ (exposed' = exposed \/ pending = <<>>)
  BY DEF Start, InitCall, Cmd0, Cmd8, Cmd59, Cmd58, Acmd41, Ccs, Cmd9, Cmd16, StayPut, CardReady,
         medium, history
<1>2. noinit /\ pc' \in {"idle"} \cup Starting
  BY DEF Start, InitCall, Cmd0, Cmd8, Cmd59, Cmd58, Acmd41, Up, Ccs, Cmd9, Cmd16, GoOn, GiveUp,
     Stages, Starting
<1>3. op.kind \in {"none", "sync"}
  BY <1>2 DEF WriteInv, Writing
<1>4. Writing'
  BY <1>1, <1>2, <1>3 DEF WriteInv, Writing, Starting
<1>5. Checking'
  <2> USE DEF Checking
  <2>0. noinit
    BY <1>2
  <2>1. CASE InitCall
    BY <2>0, <2>1 DEF InitCall
  <2>2. CASE Cmd0 \/ Cmd8
    BY <2>0, <2>2 DEF Cmd0, Cmd8, GoOn, GiveUp
  <2>3. CASE Cmd59
    <3>1. card' = [card EXCEPT !.crc = TRUE]
      BY <2>3 DEF Cmd59
    <3>2. card'.crc
      BY <3>1 DEF TypeInv, TypeOK, CardOK
    <3> QED
      BY <3>2
  <2>4. CASE Cmd58 \/ Cmd9 \/ Cmd16
    <3>1. pc \in {"cmd58", "cmd9", "cmd16"} /\ card' = card
      BY <2>4 DEF Cmd58, Cmd9, Cmd16
    <3> QED
      BY <3>1 DEF WriteInv
  <2>5. CASE Acmd41 \/ Ccs
    <3>1. pc \in {"acmd41", "ccs"} /\ card' \in {card, Ready}
      BY <2>5 DEF Acmd41, Ccs, MayComeUp
    <3>2. card'.crc = card.crc
      BY <3>1 DEF Ready, TypeInv, TypeOK, CardOK
    <3> QED
      BY <3>1, <3>2 DEF WriteInv
  <2> QED
    BY <2>1, <2>2, <2>3, <2>4, <2>5 DEF Start
<1>6. Secured'
  <2>1. CASE exposed' = exposed
    BY <1>1, <2>1 DEF WriteInv, Secured
  <2>2. CASE pending = <<>>
    BY <1>1, <2>2 DEF Secured
  <2> QED
    BY <1>1, <2>1, <2>2
<1> QED
  BY <1>1, <1>4, <1>5, <1>6 DEF WriteInv, Kept

LEMMA UserWrites ==
    ASSUME TypeInv, WriteInv, User PROVE WriteInv'
<1>1. PICK b \in Block, n \in 1..MaxCount : Read(b, n) \/ Write(b, n)
  BY DEF User
<1>2. PICK kind, data : Call(kind, b, n, data)
  BY <1>1 DEF Read, Write
<1>3. /\ ~noinit /\ UNCHANGED <<noinit, card, store, pending, exposed, known>>
      /\ pc' \in {"readCmd", "writeCmd"}
      /\ op' = [kind |-> kind, first |-> b, n |-> n, todo |-> n, data |-> data, ok |-> FALSE]
  BY <1>2 DEF Call, Keep, medium, history
<1>4. op'.first = b /\ op'.n = n /\ op'.todo = n
  BY <1>3
<1>5. Writing'
  BY <1>3, <1>4 DEF Writing
<1>6. Checking'
  BY <1>3 DEF WriteInv, Checking
<1> QED
  BY <1>3, <1>5, <1>6 DEF WriteInv, Kept, Secured

LEMMA SyncWrites ==
    ASSUME TypeInv, WriteInv, Sync PROVE WriteInv'
<1>1. /\ UNCHANGED <<pc, noinit, card, store, pending, exposed, known>> /\ pc = "idle"
      /\ op' = [NoOp EXCEPT !.kind = "sync", !.ok = TRUE]
  BY DEF Sync, Keep, medium, history
<1>2. op'.kind = "sync"
  BY <1>1 DEF NoOp
<1>3. Writing'
  BY <1>1, <1>2 DEF Writing
<1> QED
  BY <1>1, <1>3 DEF WriteInv, Checking, Kept, Secured

\* Reads touch no data.
LEMMA ReadWrites ==
    ASSUME TypeInv, Stages, WriteInv, ReadCmd \/ ReadBlock \/ Cmd12 PROVE WriteInv'
<1>1. /\ UNCHANGED <<noinit, store, pending, known>>
      /\ exposed' = exposed \/ pending = <<>>
  BY DEF ReadCmd, Fails, Secure, CardReady, ReadBlock, Cmd12, Keep, medium, history
<1>2. /\ op.kind = "read" /\ pc \in Transferring
      /\ pc' \in {"idle", "readBlock", "cmd12"}
  BY DEF ReadCmd, ReadBlock, AfterRead, Cmd12, Ended, TypeInv, OpMatches, WriteInv, Writing,
     Transferring
<1>3. op'.kind = op.kind /\ op'.first = op.first /\ op'.n = op.n
  BY DEF ReadCmd, ReadBlock, Cmd12, Ended, Got, TypeInv, TypeOK, HostOK
<1>4. card'.crc = card.crc
  BY DEF ReadCmd, Fails, Starts, ReadBlock, AfterRead, Cmd12, TypeInv, TypeOK, CardOK
<1>5. ~noinit
  BY <1>2 DEF Stages
<1>6. Checking'
  BY <1>1, <1>4, <1>5 DEF WriteInv, Checking
<1>7. Writing'
  BY <1>1, <1>2, <1>3, <1>5 DEF WriteInv, Writing
<1>8. Secured'
  <2>1. CASE exposed' = exposed
    BY <1>1, <2>1 DEF WriteInv, Secured
  <2>2. CASE pending = <<>>
    BY <1>1, <2>2 DEF Secured
  <2> QED
    BY <1>1, <2>1, <2>2
<1> QED
  BY <1>1, <1>6, <1>7, <1>8 DEF WriteInv, Kept

\* The block a command addresses is the one the driver means.
LEMMA AddressAgrees ==
    ASSUME NEW b \in Nat, BlockSize \in Nat, BlockSize > 0, SameAddresses, b = op.first
    PROVE  CardBlock(Address(op.first)) = b
<1>1. CASE type = "V2HC"
  BY <1>1 DEF SameAddresses, CardBlock, Address
<1>2. CASE type # "V2HC"
  <2>1. (b * BlockSize) \div BlockSize = b
    OBVIOUS
  <2> QED
    BY <1>2, <2>1 DEF SameAddresses, CardBlock, Address
<1> QED
  BY <1>1, <1>2

LEMMA WriteCmdWrites ==
    ASSUME TypeInv, Stages, Agreement, WriteInv, WriteCmd PROVE WriteInv'
<1>1. /\ pc = "writeCmd" /\ UNCHANGED <<noinit, store, pending>>
      /\ op.todo = op.n /\ op.kind = "write"
  BY DEF WriteCmd, Keep, medium, WriteInv, Writing, TypeInv, OpMatches
<1>2. op.first \in Nat /\ op.n \in Nat
  BY ConstantsTyped DEF TypeInv, TypeOK, HostOK, Block
<1>3. SameAddresses /\ ~noinit
  BY <1>1 DEF Stages, Agreement, Transferring
<1>4. card'.crc = card.crc
  BY DEF WriteCmd, Fails, Starts, TypeInv, TypeOK, CardOK
<1>5. Checking'
  BY <1>1, <1>3, <1>4 DEF WriteInv, Checking
<1>6. CASE pc' = "writeBlock"
  <2>1. /\ pending = <<>> /\ op' = op /\ Agrees
        /\ card' = [card EXCEPT !.job = "receiving", !.at = CardBlock(Address(op.first))]
        /\ known' = [b \in Block |-> IF b \in Target THEN Unknown ELSE known[b]]
    BY <1>6 DEF WriteCmd, CardReady, Starts, Ended
  <2>2. card'.at = op.first
    <3>1. CardBlock(Address(op.first)) = op.first
      BY <1>2, <1>3, <2>1, ConstantsTyped, AddressAgrees
    <3> QED
      BY <2>1, <3>1 DEF TypeInv, TypeOK, CardOK
  <2>3. \A b \in Block : known'[b] = IF b \in Target THEN Unknown ELSE known[b]
    BY <2>1
  <2>4. \A b \in Target : b \in Block
    <3>1. op.first + op.n =< Sectors
      BY DEF TypeInv, OpMatches
    <3> QED
      BY <1>2, <3>1, ConstantsTyped DEF Target, Block
  <2>5. Target' = Target
    BY <2>1 DEF Target
  <2>6. Underway'
    <3>1. \A b \in Target' : known'[b] = Unknown
      BY <2>3, <2>4, <2>5
    <3>2. \A i \in 1..Len(pending') : FALSE
      BY <1>1, <2>1
    <3>3. \A i \in 1..(op'.n - op'.todo) : FALSE
      BY <1>1, <1>2, <2>1
    <3> QED
      BY <3>1, <3>2, <3>3 DEF Underway
  <2>7. Writing'
    <3>1. card'.at = op.first + (op.n - op.todo)
      BY <1>1, <1>2, <2>2
    <3> QED
      BY <1>1, <1>3, <1>6, <2>1, <2>6, <3>1 DEF WriteInv, Writing
  <2>8. Kept' /\ Secured'
    BY <1>1, <2>1, <2>3 DEF WriteInv, Kept, Secured
  <2> QED
    BY <1>1, <1>5, <2>7, <2>8 DEF WriteInv
<1>7. CASE pc' # "writeBlock"
  <2>1. pc' = "idle" /\ op' = [op EXCEPT !.ok = FALSE] /\ known' = known /\ exposed' = exposed
    BY <1>7 DEF WriteCmd, Ended, history
  <2>2. op'.first = op.first /\ op'.n = op.n /\ op'.ok = FALSE
    BY <2>1 DEF TypeInv, TypeOK, HostOK
  <2>3. Writing'
    BY <1>1, <1>3, <2>1, <2>2 DEF WriteInv, Writing
  <2> QED
    BY <1>1, <1>5, <2>1, <2>3 DEF WriteInv, Kept, Secured
<1> QED
  BY <1>6, <1>7

\* A single block that is waited for is on the medium.
LEMMA SettleWrites ==
    ASSUME TypeInv, Stages, WriteInv, Settle, ~Upset("slow") PROVE WriteInv'
<1>1. /\ pc = "settle" /\ pc' = "idle" /\ pending = <<>> /\ op' = [op EXCEPT !.ok = TRUE]
      /\ known' = [b \in Block |-> IF b \in Target THEN op.data[b - op.first + 1] ELSE known[b]]
      /\ UNCHANGED <<noinit, card, store, pending>>
  BY DEF Settle, CardReady, Outlasts, Ended, Succeeds, Keep, medium
<1>2. /\ op'.first = op.first /\ op'.n = op.n /\ op'.kind = op.kind /\ op'.data = op.data
      /\ op.first \in Nat
  BY <1>1, ConstantsTyped DEF TypeInv, TypeOK, HostOK, Block
<1>3. op.n = 1 /\ op.todo = 0 /\ Underway /\ ~noinit
  BY <1>1 DEF WriteInv, Writing, Stages, Transferring
<1>4. FinalOf(pending, store, op.first) = op.data[1]
  <2>1. 1 \in 1..(op.n - op.todo) /\ op.first + 1 - 1 = op.first
    BY <1>2, <1>3
  <2> QED
    BY <1>3, <2>1 DEF Underway
<1>5. \A b : FinalOf(pending, store, b) = store[b]
  <2>1. \A b : Absent(pending, b)
    BY <1>1 DEF Absent
  <2> QED
    BY ONLY <2>1, FinalNone
<1>6. store[op.first] = op.data[1]
  BY <1>4, <1>5
<1>7. \A b \in Target : b = op.first /\ b - op.first + 1 = 1
  BY <1>2, <1>3 DEF Target
<1>8. Kept'
  <2> SUFFICES ASSUME NEW b \in Block
               PROVE  known'[b] \in {Unknown, FinalOf(pending, store, b)}
    BY <1>1 DEF Kept
  <2>1. CASE b \in Target
    BY <1>1, <1>4, <1>7, <2>1
  <2>2. CASE b \notin Target
    BY <1>1, <2>2 DEF WriteInv, Kept
  <2> QED
    BY <2>1, <2>2
<1>9. Writing'
  BY <1>1, <1>2, <1>3, <1>6 DEF WriteInv, Writing
<1>10. Checking'
  BY <1>1, <1>3 DEF WriteInv, Checking
<1>11. Secured'
  BY <1>1 DEF Secured
<1> QED
  BY <1>1, <1>8, <1>9, <1>10, <1>11 DEF WriteInv

\* What the card takes joins the queue behind the blocks already sent, and
\* holds what the caller gave.
LEMMA AcceptedWrites ==
    ASSUME TypeInv, WriteInv, pc = "writeBlock", card.at < Sectors,
           Accepted(op.data[op.n - op.todo + 1])
    PROVE  /\ Apart(pending')
           /\ \A b \in Block : known[b] \in {Unknown, FinalOf(pending', store, b)}
           /\ \A i \in 1..Len(pending') :
                pending'[i].block \in exposed \/ known[pending'[i].block] = Unknown
           /\ \A i \in 1..Len(pending') :
                pending'[i].block \in op.first..(op.first + (op.n - op.todo + 1) - 1)
           /\ \A i \in 1..(op.n - op.todo + 1) :
                FinalOf(pending', store, op.first + i - 1) = op.data[i]
<1> DEFINE k == op.n - op.todo
           c == card.at
           v == op.data[k + 1]
<1>1. /\ op.kind = "write" /\ op.todo > 0 /\ op.todo =< op.n /\ op.n \in Nat /\ op.todo \in Nat
      /\ op.first \in Nat /\ op.first + op.n =< Sectors /\ Sectors \in Nat
      /\ c = op.first + k
  BY ConstantsTyped DEF TypeInv, TypeOK, HostOK, OpMatches, WriteInv, Writing, Block
<1>2. Underway /\ Apart(pending) /\ Kept /\ Secured
  BY DEF WriteInv, Writing
<1>3. pending \in Queue
  BY DEF TypeInv, TypeOK, MediumOK, Queue
<1>4. pending' = Append(pending, [block |-> c, value |-> v])
  BY DEF Accepted
<1>5. k \in Nat /\ k < op.n /\ c \in Target
  BY <1>1 DEF Target
<1>6. \A i \in 1..Len(pending) : pending[i].block \in op.first..(op.first + k - 1)
  BY <1>2 DEF Underway
<1>7. \A i \in 1..k : FinalOf(pending, store, op.first + i - 1) = op.data[i]
  BY <1>2 DEF Underway
<1>8. known[c] = Unknown
  BY <1>2, <1>5 DEF Underway
<1> HIDE DEF k, c, v
<1>9. \A m \in op.first..(op.first + k - 1) : m # c
  BY <1>1, <1>5
<1>10. Absent(pending, c)
  BY <1>6, <1>9 DEF Absent
<1>11. /\ Apart(pending') /\ FinalOf(pending', store, c) = v
       /\ \A b : b # c => FinalOf(pending', store, b) = FinalOf(pending, store, b)
  <2>1. Joins(pending, pending', c, v)
    BY <1>4 DEF Joins
  <2> QED
    <3>1. Joined(pending, pending', store, c, v)
      BY ONLY <1>2, <1>3, <1>10, <2>1, FinalAppend
    <3> QED
      BY ONLY <3>1 DEF Joined
<1>12. \A b \in Block : known[b] \in {Unknown, FinalOf(pending', store, b)}
  BY <1>2, <1>8, <1>11 DEF Kept
<1>13. /\ Len(pending') = Len(pending) + 1 /\ Len(pending) \in Nat
       /\ pending'[Len(pending) + 1] = [block |-> c, value |-> v]
       /\ \A i \in 1..Len(pending) : pending'[i] = pending[i]
  BY ONLY <1>3, <1>4 DEF Queue
<1>14. \A m \in op.first..(op.first + k - 1) : m \in op.first..(op.first + (k + 1) - 1)
  BY <1>1, <1>5
<1>15. c \in op.first..(op.first + (k + 1) - 1)
  BY <1>1, <1>5
<1>16. \A i \in 1..Len(pending') : i \in 1..Len(pending) \/ i = Len(pending) + 1
  BY <1>13
<1>17. \A i \in 1..Len(pending') : pending'[i].block \in op.first..(op.first + (k + 1) - 1)
  BY <1>6, <1>13, <1>14, <1>15, <1>16
<1>18. \A i \in 1..(k + 1) : FinalOf(pending', store, op.first + i - 1) = op.data[i]
  <2> SUFFICES ASSUME NEW i \in 1..(k + 1)
               PROVE  FinalOf(pending', store, op.first + i - 1) = op.data[i]
    OBVIOUS
  <2>1. CASE i = k + 1
    <3>1. op.first + i - 1 = c
      BY <1>1, <1>5, <2>1
    <3> QED
      BY <1>11, <2>1, <3>1 DEF v
  <2>2. CASE i # k + 1
    <3>1. i \in 1..k /\ op.first + i - 1 # c
      BY <1>1, <1>5, <2>2
    <3> QED
      BY <1>7, <1>11, <3>1
  <2> QED
    BY <2>1, <2>2
<1>19. \A i \in 1..Len(pending') :
          pending'[i].block \in exposed \/ known[pending'[i].block] = Unknown
  BY <1>2, <1>8, <1>13, <1>16 DEF Secured
<1> QED
  BY <1>11, <1>12, <1>17, <1>18, <1>19 DEF k

LEMMA WriteBlockWrites ==
    ASSUME TypeInv, Stages, WriteInv, WriteBlock PROVE WriteInv'
<1> DEFINE v == op.data[op.n - op.todo + 1]
<1>1. pc = "writeBlock" /\ UNCHANGED <<noinit, store>>
  BY DEF WriteBlock, Keep
<1>2. ~noinit /\ card.crc
  BY <1>1 DEF Stages, Transferring, WriteInv, Checking
<1>3. card'.crc = card.crc
  BY DEF WriteBlock, Taken, TypeInv, TypeOK, CardOK
<1>4. Checking'
  BY <1>1, <1>2, <1>3 DEF Checking
<1>5. /\ op.kind = "write" /\ op.todo > 0 /\ op.todo =< op.n /\ op.n \in Nat /\ op.todo \in Nat
      /\ op.first \in Nat /\ op.first + op.n =< Sectors
      /\ card.at = op.first + (op.n - op.todo)
  BY <1>1, ConstantsTyped DEF TypeInv, TypeOK, HostOK, OpMatches, WriteInv, Writing, Block
<1>6. Underway
  BY <1>1 DEF WriteInv, Writing
<1>7. CASE card.at < Sectors /\ Accepted(v) /\ Taken
  <2>1. /\ Apart(pending')
        /\ \A b \in Block : known[b] \in {Unknown, FinalOf(pending', store, b)}
        /\ \A i \in 1..Len(pending') :
             pending'[i].block \in exposed \/ known[pending'[i].block] = Unknown
        /\ \A i \in 1..Len(pending') :
             pending'[i].block \in op.first..(op.first + (op.n - op.todo + 1) - 1)
        /\ \A i \in 1..(op.n - op.todo + 1) :
             FinalOf(pending', store, op.first + i - 1) = op.data[i]
    BY <1>1, <1>7, AcceptedWrites
  <2>2. /\ op'.todo = op.todo - 1 /\ op'.ok = (op.todo = 1 /\ op.n > 1)
        /\ op'.first = op.first /\ op'.n = op.n /\ op'.kind = op.kind /\ op'.data = op.data
    BY <1>7 DEF Taken, TypeInv, TypeOK, HostOK
  <2>3. op'.n - op'.todo = op.n - op.todo + 1
    BY <1>5, <2>2
  <2>4. known' = known => Underway'
    <3> HAVE known' = known
    <3>1. Target' = Target
      BY <2>2 DEF Target
    <3>2. \A b \in Target' : known'[b] = Unknown
      BY <1>6, <3>1 DEF Underway
    <3>3. \A i \in 1..Len(pending') :
             pending'[i].block \in op'.first..(op'.first + (op'.n - op'.todo) - 1)
      BY <2>1, <2>2, <2>3
    <3>4. \A i \in 1..(op'.n - op'.todo) :
             FinalOf(pending', store', op'.first + i - 1) = op'.data[i]
      BY <1>1, <2>1, <2>2, <2>3
    <3> QED
      BY <3>2, <3>3, <3>4 DEF Underway
  <2>5. UNCHANGED history => Kept' /\ Secured'
    BY <1>1, <2>1 DEF history, Kept, Secured
  <2>6. CASE op.todo > 1
    <3>1. /\ pc' = "writeBlock" /\ UNCHANGED history /\ known' = known
          /\ card'.at = card.at + 1
      BY <1>1, <1>7, <2>6 DEF Taken, history, TypeInv, TypeOK, CardOK
    <3>2. card'.at = op'.first + (op'.n - op'.todo)
      BY <1>5, <2>2, <3>1
    <3>3. Writing'
      BY <1>1, <1>2, <1>5, <2>2, <2>4, <3>1, <3>2 DEF Writing
    <3> QED
      BY <1>4, <2>1, <2>5, <3>1, <3>3 DEF WriteInv
  <2>7. CASE op.todo = 1 /\ op.n = 1
    <3>1. pc' = "settle" /\ UNCHANGED history /\ known' = known
      BY <1>7, <2>7 DEF Taken, history
    <3>2. op'.todo = 0
      BY <2>2, <2>7
    <3>3. Writing'
      BY <1>1, <1>2, <1>5, <2>2, <2>4, <2>7, <3>1, <3>2 DEF Writing
    <3> QED
      BY <1>4, <2>1, <2>5, <3>1, <3>3 DEF WriteInv
  <2>8. CASE op.todo = 1 /\ op.n # 1
    <3>1. op.n > 1
      BY <1>5, <2>8
    <3>2. /\ pc' = "idle"
          /\ known' = [b \in Block |->
                 IF b \in Target THEN op.data[b - op.first + 1] ELSE known[b]]
          /\ exposed' = Target
      BY <1>7, <2>8, <3>1 DEF Taken, Succeeds
    <3>3. Writing'
      BY <1>1, <1>2, <1>5, <2>2, <2>8, <3>2 DEF Writing
    <3>4. \A b \in Target : b - op.first + 1 \in 1..(op.n - op.todo + 1)
                            /\ op.first + (b - op.first + 1) - 1 = b
      BY <1>5, <2>8 DEF Target
    <3>5. \A b \in Target : FinalOf(pending', store, b) = op.data[b - op.first + 1]
      <4> SUFFICES ASSUME NEW b \in Target
                   PROVE  FinalOf(pending', store, b) = op.data[b - op.first + 1]
        OBVIOUS
      <4> DEFINE i == b - op.first + 1
      <4>1. i \in 1..(op.n - op.todo + 1) /\ op.first + i - 1 = b
        BY <3>4
      <4> HIDE DEF i
      <4>2. FinalOf(pending', store, op.first + i - 1) = op.data[i]
        BY <2>1, <4>1
      <4>3. FinalOf(pending', store, b) = op.data[i]
        BY <4>1, <4>2
      <4> QED
        BY <4>3 DEF i
    <3>6. Kept'
      <4> SUFFICES ASSUME NEW b \in Block
                   PROVE  known'[b] \in {Unknown, FinalOf(pending', store, b)}
        BY <1>1 DEF Kept
      <4>1. CASE b \in Target
        BY <3>2, <3>5, <4>1
      <4>2. CASE b \notin Target
        BY <2>1, <3>2, <4>2
      <4> QED
        BY <4>1, <4>2
    <3>7. Secured'
      <4>1. op.first..(op.first + (op.n - op.todo + 1) - 1) = Target
        BY <1>5, <2>8 DEF Target
      <4> QED
        BY <2>1, <3>2, <4>1 DEF Secured
    <3> QED
      BY <1>4, <2>1, <3>3, <3>6, <3>7 DEF WriteInv
  <2>9. op.todo > 1 \/ op.todo = 1
    BY <1>5
  <2> QED
    BY <2>6, <2>7, <2>8, <2>9
<1>8. CASE /\ pending' = pending \/ (card.at < Sectors /\ Accepted(v))
           /\ Ended(FALSE) /\ UNCHANGED history
  <2>1. pc' = "idle" /\ op'.ok = FALSE /\ op'.first = op.first /\ op'.n = op.n
    BY <1>8 DEF Ended, TypeInv, TypeOK, HostOK
  <2>2. Writing'
    BY <1>1, <1>2, <1>5, <2>1 DEF Writing
  <2>3. Apart(pending') /\ Kept' /\ Secured'
    <3>0. known' = known /\ exposed' = exposed
      BY <1>8 DEF history
    <3>1. CASE pending' = pending
      BY <1>1, <3>0, <3>1 DEF WriteInv, Kept, Secured
    <3>2. CASE card.at < Sectors /\ Accepted(v)
      <4>1. /\ Apart(pending')
            /\ \A b \in Block : known[b] \in {Unknown, FinalOf(pending', store, b)}
            /\ \A i \in 1..Len(pending') :
                 pending'[i].block \in exposed \/ known[pending'[i].block] = Unknown
        BY <1>1, <3>2, AcceptedWrites
      <4> QED
        BY <1>1, <3>0, <4>1 DEF Kept, Secured
    <3> QED
      BY <1>8, <3>1, <3>2
  <2> QED
    BY <1>4, <2>2, <2>3 DEF WriteInv
<1> QED
  BY <1>2, <1>7, <1>8 DEF WriteBlock

\* The card at work keeps its promises.
LEMMA ProgramWrites ==
    ASSUME TypeInv, WriteInv, Program PROVE WriteInv'
<1>1. /\ UNCHANGED <<pc, noinit, op, card, exposed, known>>
      /\ Leaves(pending, store, pending', store')
  BY DEF Program, host, history, Leaves
<1>2. pending \in Queue /\ store \in [Block -> Content] /\ Apart(pending) /\ Kept
  BY DEF TypeInv, TypeOK, MediumOK, Queue, WriteInv
<1>3. /\ Apart(pending')
      /\ \A b \in Block : FinalOf(pending', store', b) = FinalOf(pending, store, b)
  BY ONLY <1>1, <1>2, FinalTail
<1>4. Kept'
  BY <1>1, <1>2, <1>3 DEF Kept
<1>5. Checking'
  BY <1>1 DEF WriteInv, Checking
<1>6. pc \in {"writeBlock", "settle"} => Underway'
  <2> SUFFICES ASSUME pc \in {"writeBlock", "settle"} PROVE Underway'
    OBVIOUS
  <2> DEFINE k == op.n - op.todo
  <2>1. Underway /\ op.first + op.n =< Sectors /\ op.first \in Nat /\ op.n \in Nat
        /\ op.todo \in Nat /\ op.todo =< op.n /\ Sectors \in Nat
    BY ConstantsTyped DEF WriteInv, Writing, TypeInv, TypeOK, OpMatches, HostOK, Block
  <2>2. \A i \in 1..k : op.first + i - 1 \in Block
    BY <2>1 DEF Block
  <2>3. \A i \in 1..k : FinalOf(pending', store', op.first + i - 1) = op.data[i]
    BY <1>3, <2>1, <2>2 DEF Underway
  <2>4. \A i \in 1..Len(pending') : pending'[i].block \in op.first..(op.first + k - 1)
    <3>1. /\ \A i \in 1..Len(pending') : i + 1 \in 1..Len(pending)
          /\ \A i \in 1..Len(pending') : pending'[i] = pending[i + 1]
      BY ONLY <1>1, <1>2 DEF Leaves, Queue
    <3>2. \A i \in 1..Len(pending) : pending[i].block \in op.first..(op.first + k - 1)
      BY <2>1 DEF Underway
    <3> HIDE DEF k
    <3> QED
      BY <3>1, <3>2
  <2>5. \A b \in Target' : known'[b] = Unknown
    BY <1>1, <2>1 DEF Underway, Target
  <2> QED
    BY <1>1, <2>3, <2>4, <2>5 DEF Underway
<1>7. op.kind = "write" /\ op.n = 1 /\ op.ok /\ pc = "idle" => FALSE
  <2>1. pending # <<>>
    BY <1>1 DEF Leaves
  <2> QED
    BY <2>1 DEF WriteInv, Writing
<1>8. Writing'
  BY <1>1, <1>6, <1>7 DEF WriteInv, Writing
<1>9. Secured'
  <2>1. /\ \A i \in 1..Len(pending') : i + 1 \in 1..Len(pending)
        /\ \A i \in 1..Len(pending') : pending'[i] = pending[i + 1]
    BY ONLY <1>1, <1>2 DEF Leaves, Queue
  <2> QED
    BY <1>1, <2>1 DEF WriteInv, Secured
<1> QED
  BY <1>3, <1>4, <1>5, <1>8, <1>9 DEF WriteInv

\* The host forgets its call; a loss of power costs what was on its way: of
\* that nothing is promised but what is exposed.
LEMMA ResetWrites ==
    ASSUME TypeInv, WriteInv, Restart \/ PowerCycle PROVE WriteInv'
<1>1. pc' = "idle" /\ noinit' /\ op' = NoOp
  BY DEF Restart, PowerCycle, Reset
<1>3. Writing'
  BY <1>1 DEF Writing, NoOp
<1>4. Checking'
  BY <1>1 DEF Checking
<1>5. CASE Restart
  BY <1>3, <1>4, <1>5 DEF Restart, medium, history, WriteInv, Kept, Secured
<1>6. CASE PowerCycle
  <2>1. /\ pending' = <<>>
        /\ \/ store' = store
           \/ pending # <<>> /\ store' = [store EXCEPT ![Head(pending).block] = Garbage]
        /\ known' = [b \in Block |-> IF b \in exposed THEN Unknown ELSE known[b]]
    BY <1>6 DEF PowerCycle
  <2>2. pending \in Queue /\ store \in [Block -> Content] /\ Kept
    BY DEF TypeInv, TypeOK, MediumOK, Queue, WriteInv
  <2>3. Apart(pending') /\ \A b : Absent(pending', b)
    BY <2>1 DEF Apart, Absent
  <2>4. \A b : FinalOf(pending', store', b) = store'[b]
    BY ONLY <2>3, FinalNone
  <2>5. Kept'
    <3> SUFFICES ASSUME NEW b \in Block
                 PROVE  known'[b] \in {Unknown, FinalOf(pending', store', b)}
      BY DEF Kept
    <3>1. CASE Absent(pending, b)
      <4>1. known'[b] \in {Unknown, known[b]}
        BY <2>1
      <4>2. FinalOf(pending, store, b) = store[b]
        BY ONLY <3>1, FinalNone
      <4>3. store'[b] = store[b]
        <5>1. CASE pending # <<>>
          <6>1. 1 \in 1..Len(pending) /\ Head(pending) = pending[1]
            BY ONLY <2>2, <5>1 DEF Queue
          <6>2. Head(pending).block # b
            BY <3>1, <6>1 DEF Absent
          <6> HIDE DEF Queue
          <6> QED
            BY ONLY <2>1, <2>2, <6>2
        <5>2. CASE pending = <<>>
          BY ONLY <2>1, <5>2
        <5> QED
          BY <5>1, <5>2
      <4> QED
        BY <2>2, <2>4, <4>1, <4>2, <4>3 DEF Kept
    <3>2. CASE ~Absent(pending, b)
      <4>1. b \in exposed \/ known[b] = Unknown
        BY <3>2 DEF Absent, WriteInv, Secured
      <4> QED
        BY <2>1, <4>1
    <3> QED
      BY <3>1, <3>2
  <2> QED
    BY <1>3, <1>4, <2>1, <2>3, <2>5 DEF WriteInv, Secured
<1> QED
  BY <1>5, <1>6

\* As long as the driver is not misled and its blocks go checked.
Written == Checked => WriteInv

LEMMA NextWrites ==
    ASSUME TypeInv, Stage, Written, [Next]_vars
    PROVE  Written'
<1> SUFFICES ASSUME Checked' PROVE WriteInv'
  BY DEF Written
<1>1. CASE UNCHANGED vars
  <2>1. Checked
    BY <1>1 DEF vars, Checked, Misled
  <2> QED
    BY <1>1, <2>1 DEF Written, vars, host, medium, history, WriteInv, Checking, Writing, Underway, Target,
           Kept, Secured
<1>2. CASE Next
  <2>1. ~Misled' /\ "unchecked" \notin upset'
    BY DEF Checked
  <2>2. ~Misled /\ ~Upset("slow")
    BY <1>2, <2>1, Unmisled
  <2>3. "unchecked" \notin upset /\ ~Upset("unchecked")
    BY <1>2, <2>1, WireSteps, WireTyped DEF Upset
  <2>4. Stages /\ Agreement /\ WriteInv
    BY <2>2, <2>3 DEF Stage, Written, Checked
  <2>5. CASE Transfer
    BY <2>2, <2>4, <2>5, ReadWrites, WriteCmdWrites, WriteBlockWrites, SettleWrites DEF Transfer
  <2> QED
    BY <1>2, <2>3, <2>4, <2>5, StartWrites, UserWrites, SyncWrites, ProgramWrites, ResetWrites
       DEF Next
<1> QED
  BY <1>1, <1>2

LEMMA WritesInvariant == Spec => [](TypeInv /\ Stage /\ Written)
<1>1. Init => TypeInv /\ Stage /\ Written
  BY InitTypes, InitStages, InitWrites DEF Written
<1>2. TypeInv /\ Stage /\ Written /\ [Next]_vars => (TypeInv /\ Stage /\ Written)'
  BY NextTypes, NextStages, NextWrites
<1> QED
  BY <1>1, <1>2, PTL DEF Spec

\* What a successful write left stays until the block is written again, through
\* exchanges that are damaged, refused or unanswered, calls that fail and
\* restarts; of a write of several blocks that returned, a loss of power before
\* the card answers another command may take what it still holds
\* (sd_card.c:975-1083).
THEOREM WritesAreKept == Spec => []AckIsKept
<1>1. Written => AckIsKept
  <2>1. \A b : FinalOf(pending, store, b) = Final(b)
    BY DEF FinalOf, Final
  <2> QED
    BY <2>1 DEF Written, WriteInv, Kept, AckIsKept
<1> QED
  BY <1>1, WritesInvariant, PTL

\* A write of one block returns when the block is on the medium (sd_card.c:1044-1059).
THEOREM SingleBlocksAreStored == Spec => []SingleIsStored
<1>1. Written => SingleIsStored
  BY DEF Written, WriteInv, Writing, SingleIsStored
<1> QED
  BY <1>1, WritesInvariant, PTL
-----------------------------------------------------------------------------
(* Reads.                                                                    *)

LEMMA InitReads == Init => Reading
  BY DEF Init, Reading, NoOp

LEMMA StartReads ==
    ASSUME TypeInv, Stages, Reading, Start PROVE Reading'
<1>1. UNCHANGED <<op, known>>
  BY DEF Start, InitCall, Cmd0, Cmd8, Cmd59, Cmd58, Acmd41, Ccs, Cmd9, Cmd16, StayPut,
     history
<1>2. noinit /\ pc' \in {"idle"} \cup Starting
  BY DEF Start, InitCall, Cmd0, Cmd8, Cmd59, Cmd58, Acmd41, Ccs, Cmd9, Cmd16, GoOn, GiveUp,
     Up, Stages, Starting
<1>3. CASE InitCall
  BY <1>1, <1>3 DEF InitCall, Reading
<1>4. CASE Cmd0
  <2>1. pc' \in {"idle", "cmd0"} \/ (pc' = "cmd8" /\ card' = Reset0)
    BY <1>4 DEF Cmd0, GoOn
  <2>2. Reset0.job = "none"
    BY DEF Reset0, Fresh
  <2>3. noinit'
    BY <1>2, <1>4 DEF Cmd0, GoOn
  <2> HIDE DEF Reset0
  <2> QED
    BY <1>1, <2>1, <2>2, <2>3 DEF Reading
<1>5. CASE Cmd8 \/ Cmd59 \/ Cmd58 \/ Acmd41 \/ Ccs \/ Cmd9 \/ Cmd16
  <2>1. pc \in {"cmd8", "cmd59", "cmd58", "acmd41", "ccs", "cmd9", "cmd16"}
    BY <1>5 DEF Cmd8, Cmd59, Cmd58, Acmd41, Ccs, Cmd9, Cmd16
  <2>2. card'.job = card.job
    BY <1>5 DEF Cmd8, Cmd59, Cmd58, Acmd41, MayComeUp, Ready, Ccs, Cmd9, Cmd16, TypeInv, TypeOK, CardOK
  <2>3. card'.job = "none"
    BY <2>1, <2>2 DEF Reading
  <2> QED
    BY <1>1, <1>2, <2>3 DEF Reading, Starting
<1> QED
  BY <1>3, <1>4, <1>5 DEF Start

LEMMA UserReads ==
    ASSUME Reading, User PROVE Reading'
<1>1. PICK b \in Block, n \in 1..MaxCount : Read(b, n) \/ Write(b, n)
  BY DEF User
<1>2. /\ pc = "idle" /\ ~noinit /\ UNCHANGED <<noinit, card, known>>
      /\ pc' \in {"readCmd", "writeCmd"}
  BY <1>1 DEF Read, Write, Call, Keep, history
<1>3. op'.kind = "read" => op'.data = <<>> /\ ~op'.ok
  BY <1>1 DEF Read, Write, Call
<1> QED
  BY <1>2, <1>3 DEF Reading

LEMMA SyncReads ==
    ASSUME Reading, Sync PROVE Reading'
<1>1. pc = "idle" /\ UNCHANGED <<pc, noinit, card, known>> /\ op'.kind = "sync"
  BY DEF Sync, Keep, history, NoOp
<1> QED
  BY <1>1 DEF Reading

\* A read starts at the first block it was asked for.
LEMMA ReadCmdReads ==
    ASSUME TypeInv, Stages, Agreement, Reading, WriteInv, ReadCmd, ~Upset("slow"), ~Upset("unstopped")
    PROVE  Reading'
<1>1. /\ pc = "readCmd" /\ UNCHANGED <<noinit, known, pending>>
      /\ op.todo = op.n /\ op.kind = "read"
  BY DEF ReadCmd, Keep, medium, WriteInv, Writing, TypeInv, OpMatches
<1>2. op.first \in Nat /\ op.n \in Nat /\ SameAddresses /\ ~noinit /\ card.job = "none"
  BY <1>1, ConstantsTyped DEF TypeInv, TypeOK, HostOK, Block, Stages, Agreement, Transferring, Reading
<1>3. CASE pc' = "readBlock"
  <2>1. /\ pending = <<>> /\ op' = op
        /\ card' = [card EXCEPT !.job = IF op.n = 1 THEN "one" ELSE "many",
                                !.at = CardBlock(Address(op.first))]
    BY <1>2, <1>3 DEF ReadCmd, CardReady, Starts, Ended
  <2>2. CardBlock(Address(op.first)) = op.first
    BY <1>2, ConstantsTyped, AddressAgrees
  <2>3. card'.job = (IF op.n = 1 THEN "one" ELSE "many") /\ card'.at = op.first
    BY <2>1, <2>2 DEF TypeInv, TypeOK, CardOK
  <2>4. card'.at = op.first + (op.n - op.todo)
    BY <1>1, <1>2, <2>3
  <2> QED
    BY <1>1, <1>3, <2>1, <2>3, <2>4 DEF Reading
<1>4. CASE pc' # "readBlock"
  <2>1. pc' = "idle" /\ op' = [op EXCEPT !.ok = FALSE] /\ card' = card
    BY <1>4 DEF ReadCmd, Fails, Outlasts, Ended
  <2>2. /\ op'.kind = op.kind /\ op'.first = op.first /\ op'.data = op.data /\ op'.ok = FALSE
    BY <2>1 DEF TypeInv, TypeOK, HostOK
  <2> QED
    BY <1>1, <1>2, <2>1, <2>2 DEF Reading
<1> QED
  BY <1>3, <1>4

\* Each block is the one that is due, and what it holds is what was promised.
LEMMA ReadBlockReads ==
    ASSUME TypeInv, Stages, Reading, WriteInv, ReadBlock PROVE Reading'
<1>1. /\ pc = "readBlock" /\ UNCHANGED <<noinit, known, pending, store>>
      /\ op.kind = "read" /\ pending = <<>>
  BY DEF ReadBlock, Keep, medium, history, TypeInv, OpMatches, Reading
<1>2. /\ op.first \in Nat /\ op.n \in Nat /\ op.todo \in Nat /\ op.todo > 0 /\ op.todo =< op.n
      /\ op.first + op.n =< Sectors /\ Sectors \in Nat
      /\ op.data \in Seq(Content) /\ Len(op.data) = op.n - op.todo
  BY <1>1, ConstantsTyped DEF TypeInv, TypeOK, HostOK, OpMatches, Block, WriteInv, Writing
<1>3. /\ card.job = (IF op.n = 1 THEN "one" ELSE "many")
      /\ card.at = op.first + (op.n - op.todo)
      /\ \A i \in 1..Len(op.data) : known[op.first + i - 1] \in {Unknown, op.data[i]}
      /\ op.ok => op.todo = 0
  BY <1>1 DEF Reading
<1>4. card.at < Sectors /\ card.at \in Block
  BY <1>2, <1>3 DEF Block
<1>5. Sending
  BY <1>3, <1>4 DEF Sending
<1>6. CASE Got(store[card.at]) /\ AfterRead(op.todo = 1)
  <2> DEFINE v == store[card.at]
             k == Len(op.data)
  <2>1. v \in Content
    BY <1>4 DEF TypeInv, TypeOK, MediumOK
  <2>2. known[card.at] \in {Unknown, v}
    <3>1. Absent(pending, card.at)
      BY <1>1 DEF Absent
    <3>2. FinalOf(pending, store, card.at) = v
      BY ONLY <3>1, FinalNone
    <3> QED
      BY <1>4, <3>2 DEF WriteInv, Kept
  <2>3. /\ op'.kind = op.kind /\ op'.first = op.first /\ op'.n = op.n
        /\ op'.todo = op.todo - 1 /\ op'.ok = (op.todo = 1)
        /\ op'.data = Append(op.data, v)
    BY <1>6 DEF Got, TypeInv, TypeOK, HostOK
  <2>4. /\ card'.at = card.at + 1
        /\ card'.job = IF card.job = "one" THEN "none" ELSE card.job
    BY <1>4, <1>6 DEF AfterRead, TypeInv, TypeOK, CardOK
  <2>5. /\ Len(op'.data) = k + 1 /\ k \in Nat /\ op'.data[k + 1] = v
        /\ \A i \in 1..k : op'.data[i] = op.data[i]
    BY ONLY <1>2, <2>1, <2>3
  <2>6. op.first + (k + 1) - 1 = card.at
    BY <1>2, <1>3
  <2>7. \A i \in 1..Len(op'.data) : known[op'.first + i - 1] \in {Unknown, op'.data[i]}
    <3> HIDE DEF k, v
    <3> SUFFICES ASSUME NEW i \in 1..(k + 1)
                 PROVE  known[op.first + i - 1] \in {Unknown, op'.data[i]}
      BY <2>3, <2>5
    <3>1. CASE i = k + 1
      BY <2>2, <2>5, <2>6, <3>1
    <3>2. CASE i # k + 1
      <4>1. i \in 1..k
        BY <2>5, <3>2
      <4> QED
        BY <1>3, <2>5, <4>1 DEF k
    <3> QED
      BY <3>1, <3>2
  <2>8. op'.ok => op'.todo = 0
    <3>1. op.todo = 1 => op'.todo = 0
      BY ONLY <1>2, <2>3
    <3>2. op'.ok => op.todo = 1
      BY ONLY <2>3, Zenon
    <3> QED
      BY ONLY <3>1, <3>2
  <2>9. CASE op.todo = 1
    <3>1. pc' = IF op.n = 1 THEN "idle" ELSE "cmd12"
      BY <1>6, <2>9 DEF AfterRead
    <3>2. op.n = 1 => card'.job = "none"
      BY <1>3, <2>4
    <3> QED
      BY <1>1, <2>7, <2>8, <3>1, <3>2 DEF Reading
  <2>10. CASE op.todo # 1
    <3>1. pc' = "readBlock"
      BY <1>6, <2>10 DEF AfterRead
    <3>2. op.n # 1
      BY <1>2, <2>10
    <3>3. card'.job = "many"
      BY <1>3, <2>4, <3>2
    <3>4. card'.at = op'.first + (op'.n - op'.todo)
      BY <1>2, <1>3, <2>3, <2>4
    <3> QED
      BY <1>1, <2>3, <2>7, <2>8, <3>1, <3>2, <3>3, <3>4 DEF Reading
  <2> QED
    BY <2>9, <2>10
<1>7. CASE op' = op /\ AfterRead(TRUE)
  <2>1. card'.job = IF card.job = "one" THEN "none" ELSE card.job
    BY <1>7 DEF AfterRead, TypeInv, TypeOK, CardOK
  <2>2. pc' = IF op.n = 1 THEN "idle" ELSE "cmd12"
    BY <1>7 DEF AfterRead
  <2>3. pc' = "idle" => card'.job = "none"
    BY <1>3, <2>1, <2>2
  <2> QED
    BY <1>1, <1>3, <1>7, <2>2, <2>3 DEF Reading
<1> QED
  BY <1>5, <1>6, <1>7 DEF ReadBlock

\* The other exchanges leave the card without a transfer, or with the write.
LEMMA OtherReads ==
    ASSUME TypeInv, Stages, Reading, WriteInv, ~Upset("slow"), ~Upset("unstopped"),
           Cmd12 \/ WriteCmd \/ WriteBlock \/ Settle
    PROVE  Reading'
<1>1. CASE Cmd12
  <2>1. /\ pc = "cmd12" /\ pc' = "idle" /\ op' = op /\ known' = known
        /\ card' = [card EXCEPT !.job = "none"]
    BY <1>1 DEF Cmd12, history
  <2>2. card'.job = "none"
    BY <2>1 DEF TypeInv, TypeOK, CardOK
  <2> QED
    BY <2>1, <2>2 DEF Reading
<1>2. CASE WriteCmd \/ WriteBlock \/ Settle
  <2>1. pc \in {"writeCmd", "writeBlock", "settle"} /\ op.kind = "write"
    BY <1>2 DEF WriteCmd, WriteBlock, Settle, TypeInv, OpMatches
  <2>2. op'.kind = "write"
    BY <1>2, <2>1 DEF WriteCmd, WriteBlock, Taken, Settle, Ended, TypeInv, TypeOK, HostOK
  <2>3. CASE pc' = "writeBlock"
    BY <2>2, <2>3 DEF Reading
  <2>4. CASE pc' # "writeBlock"
    <3>1. pc' \in {"idle", "settle"}
      BY <1>2, <2>4 DEF WriteCmd, WriteBlock, Taken, Settle, Ended
    <3>2. CASE WriteBlock
      <4>1. card' = [card EXCEPT !.job = "none"]
        BY <2>4, <3>2 DEF WriteBlock, Taken
      <4>2. card'.job = "none"
        BY <4>1 DEF TypeInv, TypeOK, CardOK
      <4> QED
        BY <2>2, <3>1, <4>2 DEF Reading
    <3>3. CASE WriteCmd \/ Settle
      <4>1. card' = card
        BY <2>4, <3>3 DEF WriteCmd, Fails, Outlasts, Settle
      <4>2. card.job = "none"
        BY <3>3 DEF WriteCmd, Settle, Reading, Stages, Transferring
      <4> QED
        BY <2>2, <3>1, <4>1, <4>2 DEF Reading
    <3> QED
      BY <1>2, <3>2, <3>3
  <2> QED
    BY <2>3, <2>4
<1> QED
  BY <1>1, <1>2

\* As long as nothing went wrong that the driver does not notice.
Faithful == upset = {} => Reading

LEMMA NextReads ==
    ASSUME TypeInv, Stage, Written, Faithful, [Next]_vars
    PROVE  Faithful'
<1> SUFFICES ASSUME upset' = {} PROVE Reading'
  BY DEF Faithful
<1>1. CASE UNCHANGED vars
  <2>1. Reading
    BY <1>1 DEF vars, Faithful
  <2> QED
    BY <1>1, <2>1 DEF vars, host, medium, history, Reading
<1>2. CASE Next
  <2>1. upset = {}
    BY <1>2, WireSteps, WireTyped
  <2>2. \A what : ~Upset(what)
    BY DEF Upset
  <2>3. Stages /\ Agreement /\ WriteInv /\ Reading
    BY <2>1 DEF Stage, Written, Checked, Misled, Faithful
  <2>4. CASE Transfer
    BY <2>2, <2>3, <2>4, ReadCmdReads, ReadBlockReads, OtherReads DEF Transfer
  <2>5. CASE Program
    <3>1. UNCHANGED <<pc, noinit, op, card, known>> /\ pending # <<>>
      BY <2>5 DEF Program, host, history
    <3> QED
      BY <2>3, <3>1 DEF Reading
  <2>6. CASE Restart \/ PowerCycle
    <3>1. pc' = "idle" /\ noinit' /\ op'.kind = "none"
      BY <2>6 DEF Restart, PowerCycle, Reset, NoOp
    <3> QED
      BY <3>1 DEF Reading
  <2> QED
    BY <1>2, <2>3, <2>4, <2>5, <2>6, StartReads, UserReads, SyncReads DEF Next
<1> QED
  BY <1>1, <1>2

\* A read that succeeds returns what the successful writes left, through damaged
\* exchanges that are found out, failing calls and restarts: the card stands
\* where the driver thinks it does, and nothing is on its way (sd_card.c:886-963).
THEOREM ReadsAreStored == Spec => []ReadIsStored
<1>1. Init => TypeInv /\ Stage /\ Written /\ Faithful
  BY InitTypes, InitStages, InitWrites, InitReads DEF Written, Faithful
<1>2. /\ TypeInv /\ Stage /\ Written /\ Faithful /\ [Next]_vars
      => (TypeInv /\ Stage /\ Written /\ Faithful)'
  BY NextTypes, NextStages, NextWrites, NextReads
<1>3. TypeInv /\ Faithful => ReadIsStored
  <2> SUFFICES ASSUME TypeInv, Reading, op.kind = "read", op.ok
               PROVE  \A i \in 1..op.n : known[op.first + i - 1] \in {Unknown, op.data[i]}
    BY DEF ReadIsStored, Faithful
  <2>1. Len(op.data) = op.n - op.todo /\ op.n \in Nat /\ op.todo = 0
    BY ConstantsTyped DEF TypeInv, TypeOK, HostOK, Reading
  <2>2. Len(op.data) = op.n
    BY <2>1
  <2> QED
    BY <2>2 DEF Reading
<1> QED
  BY <1>1, <1>2, <1>3, PTL DEF Spec
-----------------------------------------------------------------------------
(* Starting up on a sound wire.                                              *)

\* Every CMD0 but the last finds a card that is still deaf; the conversation
\* knows what a high capacity card has to be told.
Sound ==
    noise = MaxNoise =>
        /\ upset = {}
        /\ pc = "idle" /\ noinit => type = "none" /\ tries = 0
        /\ pc = "cmd0" => tries + card.deaf =< Deaf
        /\ pc \in {"cmd59", "cmd58", "acmd41"} => Willing
        /\ pc = "cmd9" => card.state = "ready"

LEMMA StartSound ==
    ASSUME TypeInv, Stage, Sound, Start, Deaf =< 9
    PROVE  Sound'
<1> SUFFICES ASSUME noise' = MaxNoise
             PROVE  /\ upset' = {}
                    /\ pc' = "idle" /\ noinit' => type' = "none" /\ tries' = 0
                    /\ pc' = "cmd0" => tries' + card'.deaf =< Deaf
                    /\ pc' \in {"cmd59", "cmd58", "acmd41"} => Willing'
                    /\ pc' = "cmd9" => card'.state = "ready"
  BY DEF Sound
<1>1. noise \in 0..MaxNoise /\ MaxNoise \in Nat
  BY ConstantsTyped DEF TypeInv, TypeOK
<1>2. ~Noise /\ \A what : ~Upset(what)
  BY <1>1 DEF Noise, Upset
<1>3. noise = MaxNoise /\ upset = {} /\ upset' = {}
  <2>1. noise = MaxNoise
    BY <1>1, WireSteps, WireTyped DEF Next
  <2> QED
    BY <2>1, WireSteps, WireTyped DEF Next, Sound
<1>4. /\ pc = "cmd0" => tries + card.deaf =< Deaf
      /\ pc \in {"cmd59", "cmd58", "acmd41"} => Willing
      /\ pc = "cmd9" => card.state = "ready"
  BY <1>3 DEF Sound
<1>5. Deaf \in Nat /\ card.deaf \in 0..Deaf /\ tries \in 0..10
  BY ConstantsTyped DEF TypeInv, TypeOK, CardOK, HostOK
<1>6. CASE InitCall
  <2>1. pc' = "cmd0" /\ tries' = 0 /\ card' = card
    BY <1>6 DEF InitCall
  <2> QED
    BY <1>3, <1>5, <2>1
<1>7. CASE Cmd0
  <2>1. pc' = "cmd8" \/ Unheard
    BY <1>7 DEF Cmd0, GoOn
  <2>2. CASE pc' = "cmd8"
    BY <1>3, <2>2
  <2>3. CASE pc' # "cmd8"
    <3>1. /\ card.deaf > 0 /\ card' = [card EXCEPT !.deaf = @ - 1] /\ tries' = tries + 1
          /\ pc' = IF tries' = 10 THEN "idle" ELSE "cmd0"
      BY <1>2, <1>7, <2>3 DEF Cmd0, GoOn, Unheard, Outlasts
    <3>2. card'.deaf = card.deaf - 1
      BY <3>1 DEF TypeInv, TypeOK, CardOK
    <3>3. pc = "cmd0"
      BY <1>7 DEF Cmd0
    <3>4. tries' + card'.deaf =< Deaf /\ tries' # 10
      BY <1>4, <1>5, <3>1, <3>2, <3>3
    <3> QED
      BY <1>3, <3>1, <3>4
  <2> QED
    BY <2>2, <2>3
<1>8. CASE Cmd8
  <2>1. /\ pc' = "cmd59" /\ card' = card
        /\ card.kind # "V1" => type' = "V2"
    BY <1>2, <1>8 DEF Cmd8, GoOn
  <2>2. Willing'
    BY <2>1 DEF Willing
  <2> QED
    BY <1>3, <2>1, <2>2
<1>9. CASE Cmd59
  <2>1. pc = "cmd59" /\ pc' = "cmd58" /\ type' = type /\ card'.kind = card.kind
    BY <1>9 DEF Cmd59, GoOn, TypeInv, TypeOK, CardOK
  <2> QED
    BY <1>3, <1>4, <2>1 DEF Willing
<1>10. CASE Cmd58
  <2>1. pc = "cmd58" /\ pc' = "acmd41" /\ type' = type /\ card' = card
    BY <1>2, <1>10 DEF Cmd58, GoOn
  <2> QED
    BY <1>3, <1>4, <2>1 DEF Willing
<1>11. CASE Acmd41
  <2>1. Willing
    BY <1>4, <1>11 DEF Acmd41
  <2>2. card' = Ready /\ pc' \in {"ccs", "cmd9"}
    BY <1>2, <1>11, <2>1 DEF Acmd41, Up, GoOn
  <2>3. card'.state = "ready"
    BY <2>2 DEF Ready, TypeInv, TypeOK, CardOK
  <2> QED
    BY <1>3, <2>2, <2>3
<1>12. CASE Ccs
  <2>1. pc = "ccs" /\ pc' = "cmd9" /\ card' \in {card, Ready}
    BY <1>2, <1>12 DEF Ccs, MayComeUp, GoOn
  <2>2. card.state = "ready"
    BY <1>3, <2>1 DEF Stage, Misled, Agreement
  <2>3. card'.state = "ready"
    BY <2>1, <2>2 DEF Ready, TypeInv, TypeOK, CardOK
  <2> QED
    BY <1>3, <2>1, <2>3
<1>13. CASE Cmd9
  <2>1. pc' = "cmd16"
    BY <1>2, <1>4, <1>13 DEF Cmd9, GoOn
  <2> QED
    BY <1>3, <2>1
<1>14. CASE Cmd16
  <2>1. pc' = "idle" /\ ~noinit'
    BY <1>2, <1>14 DEF Cmd16
  <2> QED
    BY <1>3, <2>1
<1> QED
  BY <1>6, <1>7, <1>8, <1>9, <1>10, <1>11, <1>12, <1>13, <1>14 DEF Start

LEMMA NextSound ==
    ASSUME TypeInv, Stage, Sound, [Next]_vars, Deaf =< 9
    PROVE  Sound'
<1>1. CASE UNCHANGED vars
  BY <1>1 DEF vars, host, Sound, Willing
<1>2. CASE Next
  <2>1. noise' = MaxNoise => upset' = {}
    <3>1. noise \in 0..MaxNoise /\ MaxNoise \in Nat
      BY ConstantsTyped DEF TypeInv, TypeOK
    <3>2. noise' = MaxNoise => noise = MaxNoise /\ upset' = upset
      BY <1>2, <3>1, WireSteps, WireTyped
    <3> QED
      BY <3>2 DEF Sound
  <2>2. CASE Transfer \/ User
    <3>1. ~noinit'
      BY <2>2, TransferKeeps
         DEF Transfer, ReadCmd, ReadBlock, Cmd12, WriteCmd, WriteBlock, Settle, Stage, Stages,
             Transferring, User, Read, Write, Call, Keep
    <3>2. pc' \in {"idle"} \cup Transferring
      BY <2>2 DEF Transfer, ReadCmd, ReadBlock, AfterRead, Cmd12, WriteCmd, WriteBlock, Taken,
         Settle, Ended, Transferring, User, Read, Write, Call
    <3> QED
      BY <2>1, <3>1, <3>2 DEF Sound, Transferring
  <2>3. CASE Program
    BY <2>3 DEF Program, host, Sound, Willing
  <2>4. CASE Sync
    BY <2>4 DEF Sync, Keep, Sound, Willing
  <2>5. CASE Restart \/ PowerCycle
    <3>1. pc' = "idle" /\ type' = "none" /\ tries' = 0
      BY <2>5 DEF Restart, PowerCycle, Reset
    <3> QED
      BY <2>1, <3>1 DEF Sound
  <2> QED
    BY <1>2, <2>2, <2>3, <2>4, <2>5, StartSound DEF Next
<1> QED
  BY <1>1, <1>2

\* As long as no exchange went wrong one call of sd_init_card brings up any card,
\* also one that a restart caught in a transfer, if it takes the tenth CMD0
\* (sd_card.c:562-583).
THEOREM OneStartIsEnough ==
    ASSUME Deaf =< 9
    PROVE  Spec => []InitNeedsNoRetry
<1>1. Init => TypeInv /\ Stage /\ Sound
  <2>1. Init => Sound
    BY DEF Init, Sound
  <2> QED
    BY <2>1, InitTypes, InitStages
<1>2. TypeInv /\ Stage /\ Sound /\ [Next]_vars => (TypeInv /\ Stage /\ Sound)'
  BY NextTypes, NextStages, NextSound
<1>3. Sound => InitNeedsNoRetry
  BY DEF Sound, InitNeedsNoRetry
<1> QED
  BY <1>1, <1>2, <1>3, PTL DEF Spec
-----------------------------------------------------------------------------
(* Calls end.                                                                *)

\* The most exchanges the call at hand can still take on a sound wire.
Ahead ==
    CASE pc = "idle" -> 0
      [] pc = "cmd0" -> 19 - tries
      [] pc = "cmd8" -> 7
      [] pc = "cmd59" -> 6
      [] pc = "cmd58" -> 5
      [] pc = "acmd41" -> 4
      [] pc = "ccs" -> 3
      [] pc = "cmd9" -> 2
      [] pc \in {"cmd16", "cmd12", "settle"} -> 1
      [] pc \in {"readCmd", "writeCmd"} -> op.todo + 2
      [] pc \in {"readBlock", "writeBlock"} -> op.todo + 1
ToDo == 2 * Ahead + noise + Len(pending)

LEMMA AheadIs ==
    /\ pc = "idle" => Ahead = 0
    /\ pc = "cmd0" => Ahead = 19 - tries
    /\ pc = "cmd8" => Ahead = 7
    /\ pc = "cmd59" => Ahead = 6
    /\ pc = "cmd58" => Ahead = 5
    /\ pc = "acmd41" => Ahead = 4
    /\ pc = "ccs" => Ahead = 3
    /\ pc = "cmd9" => Ahead = 2
    /\ pc \in {"cmd16", "cmd12", "settle"} => Ahead = 1
    /\ pc \in {"readCmd", "writeCmd"} => Ahead = op.todo + 2
    /\ pc \in {"readBlock", "writeBlock"} => Ahead = op.todo + 1
BY DEF Ahead

LEMMA AheadNext ==
    /\ pc' = "idle" => Ahead' = 0
    /\ pc' = "cmd0" => Ahead' = 19 - tries'
    /\ pc' = "cmd8" => Ahead' = 7
    /\ pc' = "cmd59" => Ahead' = 6
    /\ pc' = "cmd58" => Ahead' = 5
    /\ pc' = "acmd41" => Ahead' = 4
    /\ pc' = "ccs" => Ahead' = 3
    /\ pc' = "cmd9" => Ahead' = 2
    /\ pc' \in {"cmd16", "cmd12", "settle"} => Ahead' = 1
    /\ pc' \in {"readCmd", "writeCmd"} => Ahead' = op'.todo + 2
    /\ pc' \in {"readBlock", "writeBlock"} => Ahead' = op'.todo + 1
BY DEF Ahead

LEMMA AheadType ==
    ASSUME TypeInv
    PROVE  /\ Ahead \in 0..(MaxCount + 20) /\ (pc # "idle" => Ahead > 0)
           /\ noise \in 0..MaxNoise /\ Len(pending) \in 0..MaxCount
<1>1. /\ pc \in {"idle"} \cup Starting \cup Transferring
      /\ tries \in 0..10 /\ (pc = "cmd0" => tries < 10)
      /\ op.todo \in 0..MaxCount /\ MaxCount \in Nat
      /\ noise \in 0..MaxNoise /\ Len(pending) \in 0..MaxCount
  BY ConstantsTyped DEF TypeInv, TypeOK, HostOK, MediumOK, OpMatches
<1>2. PICK k : k = op.todo
  OBVIOUS
<1>3. k \in 0..MaxCount
  BY <1>1, <1>2
<1>4. \/ Ahead = 0 /\ pc = "idle"
      \/ Ahead = 19 - tries /\ tries < 10
      \/ Ahead \in 1..7
      \/ Ahead = k + 2
      \/ Ahead = k + 1
  BY <1>1, <1>2, AheadIs DEF Starting, Transferring
<1>5. Ahead \in 0..(MaxCount + 20) /\ (pc # "idle" => Ahead > 0)
  BY <1>1, <1>3, <1>4
<1> QED
  BY <1>1, <1>5

\* A step of sd_init_card takes the conversation further, unless the wire
\* damages an answer to ACMD41.
LEMMA StartAhead ==
    ASSUME TypeInv, TypeInv', Start, pc # "idle"
    PROVE  /\ pending' = pending
           /\ \/ Ahead' < Ahead /\ noise' =< noise
              \/ Ahead' = Ahead /\ noise' < noise
<1>1. /\ Ahead > 0 /\ Ahead \in Nat /\ noise \in Nat /\ noise' \in Nat
      /\ tries \in 0..10
  BY AheadType, ConstantsTyped DEF TypeInv, TypeOK, HostOK
<1>2. pending' = pending
  BY DEF Start, InitCall, Cmd0, Cmd8, Cmd59, Cmd58, Acmd41, Ccs, Cmd9, Cmd16, StayPut, medium
<1>3. noise' = noise \/ noise' < noise
  BY <1>1, WireSteps, WireTyped DEF Next
<1>4. CASE pc' = "idle"
  BY <1>1, <1>2, <1>3, <1>4, AheadNext
<1>5. CASE Cmd0 /\ pc' # "idle"
  <2>1. \/ pc' = "cmd8"
        \/ pc' = "cmd0" /\ tries' = tries + 1
    BY <1>5 DEF Cmd0, GoOn
  <2>2. pc = "cmd0" /\ (pc' = "cmd0" => tries' < 10 /\ tries < 10)
    BY <1>5, <2>1 DEF Cmd0, TypeInv, OpMatches
  <2>3. tries < 10
    BY <2>2 DEF TypeInv, OpMatches
  <2> QED
    BY <1>1, <1>2, <1>3, <2>1, <2>2, <2>3, AheadIs, AheadNext
<1>6. CASE Acmd41 /\ pc' # "idle"
  <2>1. pc = "acmd41" /\ (pc' \in {"ccs", "cmd9"} \/ (pc' = "acmd41" /\ Noise))
    BY <1>6 DEF Acmd41, Up, GoOn, GiveUp
  <2> QED
    BY <1>1, <1>2, <1>3, <2>1, AheadIs, AheadNext DEF Noise
<1>7. CASE (Cmd8 \/ Cmd59 \/ Cmd58 \/ Ccs \/ Cmd9 \/ Cmd16) /\ pc' # "idle"
  <2>1. \/ pc = "cmd8" /\ pc' = "cmd59"
        \/ pc = "cmd59" /\ pc' = "cmd58"
        \/ pc = "cmd58" /\ pc' = "acmd41"
        \/ pc = "ccs" /\ pc' = "cmd9"
        \/ pc = "cmd9" /\ pc' = "cmd16"
    BY <1>7 DEF Cmd8, Cmd59, Cmd58, Ccs, Cmd9, Cmd16, GoOn, GiveUp
  <2> QED
    BY <1>1, <1>2, <1>3, <2>1, AheadIs, AheadNext
<1>8. ~InitCall
  BY DEF InitCall
<1> QED
  BY <1>4, <1>5, <1>6, <1>7, <1>8 DEF Start

LEMMA TransferAhead ==
    ASSUME TypeInv, TypeInv', Transfer
    PROVE  Ahead' < Ahead /\ noise' =< noise /\ Len(pending') =< Len(pending) + 1
<1>0. pc # "idle"
  BY DEF Transfer, ReadCmd, ReadBlock, Cmd12, WriteCmd, WriteBlock, Settle
<1>1. /\ Ahead > 0 /\ Ahead \in Nat /\ noise \in Nat /\ noise' \in Nat
      /\ Len(pending) \in Nat
  BY <1>0, AheadType, ConstantsTyped DEF TypeInv, TypeOK
<1>2. noise' =< noise
  BY <1>1, WireSteps, WireTyped DEF Next
<1>3. Len(pending') =< Len(pending) + 1
  <2>1. pending \in Seq([block : Block, value : Content])
    BY DEF TypeInv, TypeOK, MediumOK
  <2>2. pending' = pending \/ \E v : Accepted(v)
    BY DEF Transfer, ReadCmd, ReadBlock, Cmd12, WriteCmd, WriteBlock, Settle, medium
  <2>3. ASSUME NEW v, Accepted(v) PROVE Len(pending') = Len(pending) + 1
    BY <2>1, <2>3 DEF Accepted
  <2> QED
    BY <1>1, <2>2, <2>3
<1>4. CASE pc' = "idle"
  BY <1>1, <1>2, <1>3, <1>4, AheadNext
<1>5. op.todo \in 0..MaxCount /\ MaxCount \in Nat /\ op'.todo \in Int
  BY ConstantsTyped DEF TypeInv, TypeOK, HostOK
<1>6. CASE ReadCmd /\ pc' # "idle"
  <2>1. pc = "readCmd" /\ pc' = "readBlock" /\ op' = op
    BY <1>6 DEF ReadCmd, Ended
  <2> QED
    BY <1>1, <1>2, <1>3, <1>5, <2>1, AheadIs, AheadNext
<1>7. CASE ReadBlock /\ pc' # "idle"
  <2>1. pc = "readBlock" /\ op.todo > 0
    BY <1>7 DEF ReadBlock, TypeInv, OpMatches
  <2>2. CASE pc' = "cmd12"
    BY <1>1, <1>2, <1>3, <1>5, <2>1, <2>2, AheadIs, AheadNext
  <2>3. CASE pc' # "cmd12"
    <3>1. pc' = "readBlock" /\ \E v : Got(v)
      BY <1>7, <2>3 DEF ReadBlock, AfterRead
    <3>2. op'.todo = op.todo - 1
      BY <3>1 DEF Got, TypeInv, TypeOK, HostOK
    <3> QED
      BY <1>1, <1>2, <1>3, <1>5, <2>1, <3>1, <3>2, AheadIs, AheadNext
  <2> QED
    BY <2>2, <2>3
<1>8. CASE WriteCmd /\ pc' # "idle"
  <2>1. pc = "writeCmd" /\ pc' = "writeBlock" /\ op' = op
    BY <1>8 DEF WriteCmd, Ended
  <2> QED
    BY <1>1, <1>2, <1>3, <1>5, <2>1, AheadIs, AheadNext
<1>9. CASE WriteBlock /\ pc' # "idle"
  <2>1. pc = "writeBlock" /\ op.todo > 0 /\ Taken
    BY <1>9 DEF WriteBlock, Ended, TypeInv, OpMatches
  <2>2. op'.todo = op.todo - 1
    BY <2>1 DEF Taken, TypeInv, TypeOK, HostOK
  <2>3. pc' = "settle" \/ pc' = "writeBlock"
    BY <1>9, <2>1 DEF Taken
  <2> QED
    BY <1>1, <1>2, <1>3, <1>5, <2>1, <2>2, <2>3, AheadIs, AheadNext
<1>10. (Cmd12 \/ Settle) => pc' = "idle"
  BY DEF Cmd12, Settle, Ended
<1> QED
  BY <1>4, <1>6, <1>7, <1>8, <1>9, <1>10 DEF Transfer

LEMMA NextToDo ==
    ASSUME TypeInv, TypeInv', Next, pc # "idle"
    PROVE  ToDo' < ToDo
<1>1. /\ Ahead \in Nat /\ Ahead' \in Nat /\ noise \in Nat /\ noise' \in Nat
      /\ Len(pending) \in Nat /\ Len(pending') \in Nat /\ Ahead > 0
  <2>1. /\ Ahead \in Nat /\ noise \in Nat /\ Len(pending) \in Nat /\ Ahead > 0
    BY AheadType, ConstantsTyped
  <2>2. /\ pc' \in {"idle"} \cup Starting \cup Transferring /\ tries' \in 0..10
        /\ pc' = "cmd0" => tries' < 10
        /\ op'.todo \in Nat /\ noise' \in Nat /\ Len(pending') \in Nat
    BY ConstantsTyped DEF TypeInv, TypeOK, HostOK, MediumOK, OpMatches
  <2>3. Ahead' \in Nat
    BY <2>2, AheadNext DEF Starting, Transferring
  <2> QED
    BY <2>1, <2>2, <2>3
<1> DEFINE Less ==
      \/ Ahead' < Ahead /\ noise' =< noise /\ Len(pending') =< Len(pending) + 1
      \/ Ahead' = Ahead /\ noise' < noise /\ Len(pending') = Len(pending)
      \/ Ahead' = Ahead /\ noise' = noise /\ Len(pending') < Len(pending)
<1>2. Less
  <2>1. CASE Start
    BY <1>1, <2>1, StartAhead
  <2>2. CASE Transfer
    BY <2>2, TransferAhead
  <2>3. CASE Program
    <3>1. pending # <<>> /\ pending' = Tail(pending) /\ UNCHANGED <<pc, tries, op, noise>>
      BY <2>3 DEF Program, host
    <3>2. Ahead' = Ahead
      BY <3>1 DEF Ahead
    <3>3. pending \in Seq([block : Block, value : Content])
      BY DEF TypeInv, TypeOK, MediumOK
    <3>4. Len(pending') < Len(pending)
      BY <3>1, <3>3
    <3> QED
      BY <3>1, <3>2, <3>4
  <2>4. CASE Restart \/ PowerCycle
    <3>1. pc' = "idle" /\ noise' = noise
      BY <2>4 DEF Restart, PowerCycle, Reset
    <3>2. pending' = pending \/ pending' = <<>>
      BY <2>4 DEF Restart, PowerCycle, medium
    <3>3. Len(pending') =< Len(pending) + 1
      BY <1>1, <3>2
    <3> QED
      BY <1>1, <3>1, <3>3, AheadNext
  <2>5. ~User /\ ~Sync
    BY DEF User, Read, Write, Call, Sync
  <2> QED
    BY <2>1, <2>2, <2>3, <2>4, <2>5 DEF Next
<1>3. \A a, b, n, m, p, q \in Nat :
         \/ b < a /\ m =< n /\ q =< p + 1
         \/ b = a /\ m < n /\ q = p
         \/ b = a /\ m = n /\ q < p
         => 2 * b + m + q < 2 * a + n + p
  OBVIOUS
<1>4. 2 * Ahead' + noise' + Len(pending') < 2 * Ahead + noise + Len(pending)
  BY <1>1, <1>2, <1>3
<1> QED
  BY <1>4 DEF ToDo

\* Every step that is taken during a call of the driver, whatever may go wrong,
\* brings its end nearer: ten CMD0s at most (sd_card.c:570-579), an ACMD41 loop
\* that ends by an answer or its timeout unless the answer is damaged (661-665),
\* and transfers that count their blocks down or fail (950-957, 1066-1075).
THEOREM CallsEnd ==
    Spec => /\ [](ToDo \in 0..(2 * (MaxCount + 20) + MaxNoise + MaxCount))
            /\ [][pc # "idle" => ToDo' < ToDo]_vars
<1>1. TypeInv => ToDo \in 0..(2 * (MaxCount + 20) + MaxNoise + MaxCount)
  <2> SUFFICES ASSUME TypeInv
               PROVE  ToDo \in 0..(2 * (MaxCount + 20) + MaxNoise + MaxCount)
    OBVIOUS
  <2>1. /\ Ahead \in 0..(MaxCount + 20) /\ noise \in 0..MaxNoise
        /\ Len(pending) \in 0..MaxCount /\ MaxCount \in Nat /\ MaxNoise \in Nat
    BY AheadType, ConstantsTyped
  <2> QED
    BY <2>1 DEF ToDo
<1>2. TypeInv /\ TypeInv' /\ [Next]_vars => [pc # "idle" => ToDo' < ToDo]_vars
  BY NextToDo
<1> QED
  BY <1>1, <1>2, InitTypes, NextTypes, PTL DEF Spec
=============================================================================
