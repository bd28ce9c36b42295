------------------------------- MODULE SdCard -------------------------------
(* The SD card driver (sd_card.c) and the card it talks to over SPI: the     *)
(* start-up conversation, reading and writing blocks, and what the wire, the *)
(* card and a restart of the microcontroller can do in between.  One action  *)
(* is one command with its answer, or one data block.                        *)
EXTENDS Integers, Sequences

CONSTANTS
    Kinds,       \* what the card may be: "V1", "V2" (both byte addressed), "V2HC"
    Sectors,     \* its size in blocks
    BlockSize,   \* _block_size
    Values,      \* contents of a block
    Garbage,     \* contents no call wrote: before the first one, or damaged
    Unknown,     \* "may hold anything", see known
    MaxCount,    \* blocks of one call
    MaxNoise,    \* bound: exchanges that go wrong
    MaxRestarts, \* bound: restarts
    Deaf         \* CMD0s a card that is caught in a transfer may not take

ASSUME SdAssumption ==
    /\ Sectors \in Nat \ {0} /\ BlockSize \in Nat \ {0} /\ MaxCount \in Nat \ {0}
    /\ MaxNoise \in Nat /\ MaxRestarts \in Nat /\ Deaf \in Nat
    /\ Garbage \notin Values /\ Unknown \notin Values \cup {Garbage}

ASSUME KindsAssumption == Kinds \subseteq {"V1", "V2", "V2HC"}

VARIABLES
    pc,      \* the next exchange, "idle" outside a call
    noinit,  \* STA_NOINIT in m_Status
    type,    \* card_type
    tries,   \* CMD0s sent
    op,      \* the call: [kind, first, todo, n, data, ok], todo blocks are left
    card,    \* [kind, state, crc, job, at, deaf]: job is what it is in the middle
             \* of, at the block it stands at
    store,   \* its contents
    pending, \* blocks it has accepted and not yet programmed
    noise,   \* exchanges that may still go wrong
    restarts,
    upset,   \* history: what went wrong that the driver does not notice
    exposed, \* history: the blocks of a write of several, from its success to
             \* the next command the card answers
    known    \* history: what a block holds according to the calls' results

host == <<pc, noinit, type, tries, op>>
medium == <<store, pending>>
history == <<exposed, known>>
vars == <<host, card, medium, noise, restarts, upset, history>>

Block == 0..Sectors-1
Content == Values \cup {Garbage}
\* misheard: an answer without a checksum was damaged and taken as it came;
\* slow: a busy card outlasted a wait; unchecked: CMD59 was lost;
\* unstopped: the card is in a transfer the driver does not know of.
Upsets == {"misheard", "slow", "unchecked", "unstopped"}
NoOp == [kind |-> "none", first |-> 0, n |-> 0, todo |-> 0, data |-> <<>>, ok |-> FALSE]

Starting == {"cmd0", "cmd8", "cmd59", "cmd58", "acmd41", "ccs", "cmd9", "cmd16"}
Transferring == {"readCmd", "readBlock", "cmd12", "writeCmd", "writeBlock", "settle"}

HostOK ==
    /\ pc \in {"idle"} \cup Starting \cup Transferring
    /\ noinit \in BOOLEAN /\ tries \in 0..10
    /\ type \in {"none", "unknown", "V1", "V2", "V2HC"}
    /\ op \in [kind : {"none", "read", "write", "sync"}, first : Block, n : 0..MaxCount,
              todo : 0..MaxCount, data : Seq(Content), ok : BOOLEAN]
    /\ op.todo <= op.n
    /\ Len(op.data) = IF op.kind = "read" THEN op.n - op.todo ELSE op.n

CardOK ==
    card \in [kind : Kinds, state : {"native", "idle", "ready"}, crc : BOOLEAN,
             job : {"none", "one", "many", "receiving"}, at : 0..Sectors, deaf : 0..Deaf]

MediumOK ==
    /\ store \in [Block -> Content]
    /\ pending \in Seq([block : Block, value : Content]) /\ Len(pending) <= MaxCount
    /\ known \in [Block -> Values \cup {Unknown}] /\ exposed \subseteq Block

TypeOK ==
    /\ HostOK /\ CardOK /\ MediumOK
    /\ noise \in 0..MaxNoise /\ restarts \in 0..MaxRestarts /\ upset \subseteq Upsets

Fresh(kind, state) == [kind |-> kind, state |-> state, crc |-> FALSE, job |-> "none", at |-> 0, deaf |-> 0]

Init ==
    /\ pc = "idle" /\ noinit = TRUE /\ type = "none" /\ tries = 0 /\ op = NoOp
    /\ \E kind \in Kinds : card = Fresh(kind, "native")
    /\ pending = <<>>
    /\ store = [b \in Block |-> Garbage]
    /\ noise = MaxNoise /\ restarts = MaxRestarts
    /\ upset = {} /\ exposed = {} /\ known = [b \in Block |-> Unknown]

(***************************************************************************)
(* The card at work.                                                       *)
(***************************************************************************)
\* The oldest accepted block goes to the medium.
Program ==
    /\ pending # <<>>
    /\ pending' = Tail(pending)
    /\ store' = [store EXCEPT ![Head(pending).block] = Head(pending).value]
    /\ UNCHANGED <<host, card, noise, restarts, upset, history>>

\* An exchange goes as it should; goes wrong and is found out; goes wrong and
\* is not.
Quiet == UNCHANGED <<noise, upset>>
Noise == noise > 0 /\ noise' = noise - 1 /\ UNCHANGED upset
Upset(what) == noise > 0 /\ noise' = noise - 1 /\ upset' = upset \cup {what}

\* sd_wait_ready before a command: the card is not programming.  A slow card
\* can outlast the wait, and does not answer then.
CardReady == pending = <<>>
Outlasts == ~CardReady /\ Upset("slow")

(***************************************************************************)
(* sd_init_card.                                                           *)
(***************************************************************************)
StayPut == UNCHANGED <<medium, restarts, known, op>>
Secure == exposed' = {}
GiveUp == pc' = "idle" /\ UNCHANGED <<noinit, tries>>
GoOn(next) == pc' = next /\ UNCHANGED <<noinit, tries>>

InitCall ==
    /\ pc = "idle" /\ noinit
    /\ type' = "none" /\ tries' = 0 /\ pc' = "cmd0"
    /\ UNCHANGED <<noinit, op, card, medium, noise, restarts, upset, history>>

Reset0 == Fresh(card.kind, "idle")

\* An answer that is not R1_IDLE_STATE, or none.
Unheard ==
    \/ card.deaf = 0 /\ CardReady /\ Noise /\ card' \in {card, Reset0}
    \/ card.deaf = 0 /\ Outlasts /\ UNCHANGED card
    \/ card.deaf > 0 /\ Quiet /\ card' = [card EXCEPT !.deaf = @ - 1]

\* Mutant: one CMD0 has to be enough.
Cmd0Once ==
    /\ pc = "cmd0"
    /\ \/ CardReady /\ card.deaf = 0 /\ Quiet /\ card' = Reset0 /\ GoOn("cmd8") /\ Secure
       \/ Unheard /\ UNCHANGED exposed /\ tries' = tries + 1 /\ UNCHANGED noinit /\ pc' = "idle"
    /\ UNCHANGED type /\ StayPut

\* sd_go_idle_state: CMD0 is repeated up to ten times.
Cmd0 ==
    /\ pc = "cmd0"
    /\ \/ CardReady /\ card.deaf = 0 /\ Quiet /\ card' = Reset0 /\ GoOn("cmd8") /\ Secure
       \/ /\ Unheard /\ UNCHANGED exposed
          /\ tries' = tries + 1 /\ UNCHANGED noinit
          /\ pc' = IF tries' = 10 THEN "idle" ELSE "cmd0"
    /\ UNCHANGED type /\ StayPut

\* Mutant: a card that does not know CMD8 is given up.
Cmd8Strict ==
    /\ pc = "cmd8"
    /\ \/ Quiet /\ card.kind # "V1" /\ type' = "V2" /\ GoOn("cmd59")
       \/ Quiet /\ card.kind = "V1" /\ type' = "unknown" /\ GiveUp
       \/ Noise /\ type' \in {type, "unknown"} /\ GiveUp
    /\ UNCHANGED <<card, exposed>> /\ StayPut

\* CMD8 tells version 2 from the rest; an illegal command is no failure.
Cmd8 ==
    /\ pc = "cmd8"
    /\ \/ Quiet /\ card.kind # "V1" /\ type' = "V2" /\ GoOn("cmd59")
       \/ Quiet /\ card.kind = "V1" /\ type' = "unknown" /\ GoOn("cmd59")
       \/ Noise /\ type' = "unknown" /\ GoOn("cmd59")      \* taken for illegal
       \/ Noise /\ type' \in {type, "unknown"} /\ GiveUp   \* no or a wrong answer
    /\ UNCHANGED <<card, exposed>> /\ StayPut

\* CMD59 turns the card's checking on; its status is overwritten unread.
Cmd59 ==
    /\ pc = "cmd59"
    /\ \/ Quiet /\ card' = [card EXCEPT !.crc = TRUE]
       \/ Upset("unchecked") /\ UNCHANGED card
    /\ GoOn("cmd58") /\ UNCHANGED <<type, exposed>> /\ StayPut

Cmd58 ==
    /\ pc = "cmd58"
    /\ \/ Quiet /\ GoOn("acmd41") /\ UNCHANGED type
       \/ Noise /\ GiveUp /\ type' \in {type, "unknown"}
    /\ UNCHANGED <<card, exposed>> /\ StayPut

\* Mutant: version 2 cards are not asked for their capacity.
SkipCcs ==
    /\ pc = "acmd41" /\ Quiet
    /\ card' = [card EXCEPT !.state = "ready"] /\ GoOn("cmd9")
    /\ UNCHANGED <<type, exposed>> /\ StayPut

\* A high capacity card only comes up for a host that says it supports it.
Willing == card.kind = "V2HC" => type = "V2"
Ready == [card EXCEPT !.state = "ready"]
MayComeUp == card' \in {card} \cup (IF Willing THEN {Ready} ELSE {})

\* A version 2 card is asked for its capacity, the others are known.
Up == IF type = "V2" THEN UNCHANGED type /\ GoOn("ccs")
                     ELSE type' = "V1" /\ GoOn("cmd9")

\* Mutant: the loop has no timeout.
Patient ==
    /\ pc = "acmd41"
    /\ \/ Willing /\ Quiet /\ card' = Ready /\ Up
       \/ ~Willing /\ Quiet /\ GoOn("acmd41") /\ UNCHANGED <<card, type>>
    /\ UNCHANGED exposed /\ StayPut

\* ACMD41 until the card leaves the idle state; else the loop ends by its
\* timeout with the status of the last answer, or by an answer with an error.
\* An answer has no checksum: it may be taken for "ready", or for one without
\* an error.  A slow card can come up after the loop.
Acmd41 ==
    /\ pc = "acmd41"
    /\ \/ Willing /\ Quiet /\ card' = Ready /\ Up
       \/ Upset("misheard") /\ MayComeUp /\ Up
       \/ /\ (~Willing /\ Quiet) \/ Upset("slow") \/ Upset("misheard")
          /\ type' = "unknown" /\ MayComeUp /\ GoOn("cmd9")
       \/ Noise /\ type' = "unknown" /\ MayComeUp /\ GiveUp
       \/ Noise /\ GoOn("acmd41") /\ UNCHANGED <<card, type>>
    /\ UNCHANGED exposed /\ StayPut

\* CMD58 again: the capacity bit, which a card shows once it is up.  The four
\* bytes have no checksum either: a damaged bit passes for the capacity.
Ccs ==
    /\ pc = "ccs" /\ MayComeUp
    /\ \/ /\ Quiet /\ GoOn("cmd9")
          /\ type' = IF card.kind = "V2HC" /\ card.state = "ready" THEN "V2HC" ELSE type
       \/ Upset("misheard") /\ GoOn("cmd9") /\ type' \in {"V2", "V2HC"}
       \/ Noise /\ UNCHANGED type /\ GiveUp
    /\ UNCHANGED exposed /\ StayPut

\* sd_sectors: an idle card refuses CMD9.
Cmd9 ==
    /\ pc = "cmd9"
    /\ \/ card.state = "ready" /\ Quiet /\ GoOn("cmd16")
       \/ card.state # "ready" /\ Quiet /\ GiveUp
       \/ Noise /\ GiveUp
    /\ UNCHANGED <<card, type, exposed>> /\ StayPut

Cmd16 ==
    /\ pc = "cmd16"
    /\ \/ Quiet /\ noinit' = FALSE
       \/ Noise /\ UNCHANGED noinit
    /\ pc' = "idle" /\ UNCHANGED <<tries, card, type, exposed>> /\ StayPut

Start == InitCall \/ Cmd0 \/ Cmd8 \/ Cmd59 \/ Cmd58 \/ Acmd41 \/ Ccs \/ Cmd9 \/ Cmd16

(***************************************************************************)
(* sd_read_blocks and sd_write_blocks.                                     *)
(***************************************************************************)
Ended(ok) == pc' = "idle" /\ op' = [op EXCEPT !.ok = ok]
Keep == UNCHANGED <<noinit, type, tries, restarts>>

\* Byte cards get a byte address, high capacity cards a block address.
Address(b) == IF type = "V2HC" THEN b ELSE b * BlockSize

\* Where the card starts, at a block it has.
Aligned(a) == card.kind = "V2HC" \/ a % BlockSize = 0
CardBlock(a) == IF card.kind = "V2HC" THEN a ELSE a \div BlockSize
Agrees ==
    /\ card.job = "none" /\ card.state = "ready"
    /\ Aligned(Address(op.first)) /\ CardBlock(Address(op.first)) < Sectors
Starts(job) == card' = [card EXCEPT !.job = job, !.at = CardBlock(Address(op.first))]
Target == op.first..(op.first + op.n - 1)

\* The range check and the status check.
Call(kind, b, n, data) ==
    /\ pc = "idle" /\ ~noinit /\ b + n <= Sectors
    /\ op' = [kind |-> kind, first |-> b, n |-> n, todo |-> n, data |-> data, ok |-> FALSE]
    /\ pc' = IF kind = "read" THEN "readCmd" ELSE "writeCmd"
    /\ UNCHANGED <<card, medium, noise, upset, history>> /\ Keep
Read(b, n) == Call("read", b, n, <<>>)
Write(b, n) == \E data \in [1..n -> Values] : Call("write", b, n, data)

\* disk_ioctl(CTRL_SYNC), with which FatFs ends a sync: RES_OK, nothing done.
Sync ==
    /\ pc = "idle"
    /\ op' = [NoOp EXCEPT !.kind = "sync", !.ok = TRUE]
    /\ UNCHANGED <<pc, card, medium, noise, upset, history>> /\ Keep

\* What a command that starts a transfer comes to when it fails: it is
\* refused, damaged, unanswered by a busy card, or taken although the answer
\* says otherwise.
Fails(job) ==
    \/ Quiet /\ CardReady /\ ~Agrees /\ UNCHANGED card
    \/ Outlasts /\ UNCHANGED card
    \/ Noise /\ UNCHANGED card
    \/ Upset("unstopped") /\ CardReady /\ Agrees /\ Starts(job)

\* CMD17 or CMD18.  A card that is still sending answers with its data.
ReadCmd ==
    /\ pc = "readCmd"
    /\ LET job == IF op.n = 1 THEN "one" ELSE "many" IN
       \/ Quiet /\ CardReady /\ Agrees /\ Starts(job) /\ Secure /\ pc' = "readBlock" /\ UNCHANGED op
       \/ Quiet /\ card.job = "many" /\ pc' = "readBlock" /\ UNCHANGED <<op, card, exposed>>
       \/ Fails(job) /\ Ended(FALSE) /\ UNCHANGED exposed
    /\ UNCHANGED <<medium, known>> /\ Keep

Sending == card.job \in {"one", "many"} /\ card.at < Sectors

\* The card goes on to the next block, or is done with the only one; the
\* driver ends a read of several.
AfterRead(done) ==
    /\ card' = [card EXCEPT !.at = IF @ < Sectors THEN @ + 1 ELSE @,
                            !.job = IF @ = "one" THEN "none" ELSE @]
    /\ pc' = IF ~done THEN "readBlock" ELSE IF op.n = 1 THEN "idle" ELSE "cmd12"

\* Mutant: the count of blocks to come is not taken down.
GotUncounted(v) == op' = [op EXCEPT !.data = Append(@, v), !.ok = (op.todo = 1)]

Got(v) == op' = [op EXCEPT !.data = Append(@, v), !.todo = @ - 1, !.ok = (op.todo = 1)]

\* Mutant: the check sequence of a block is not looked at.
ReadUnchecked ==
    /\ pc = "readBlock" /\ Sending
    /\ \/ Quiet /\ Got(store[card.at])
       \/ Noise /\ Got(Garbage)
    /\ AfterRead(op.todo = 1)
    /\ UNCHANGED <<medium, history>> /\ Keep

\* sd_read_block: a damaged block, or one whose token does not come, is found.
ReadBlock ==
    /\ pc = "readBlock"
    /\ \/ Sending /\ Quiet /\ Got(store[card.at]) /\ AfterRead(op.todo = 1)
       \/ ~Sending /\ Quiet /\ UNCHANGED op /\ AfterRead(TRUE)
       \/ Noise /\ UNCHANGED op /\ AfterRead(TRUE)
    /\ UNCHANGED <<medium, history>> /\ Keep

\* CMD12 ends a read of several blocks.
Cmd12 ==
    /\ pc = "cmd12"
    /\ \/ Quiet /\ card' = [card EXCEPT !.job = "none"] /\ UNCHANGED op
       \/ Upset("unstopped") /\ UNCHANGED card /\ op' = [op EXCEPT !.ok = FALSE]
    /\ pc' = "idle"
    /\ UNCHANGED <<medium, history>> /\ Keep

\* CMD24, or ACMD23 (whose answer nobody reads) and CMD25.  From here until
\* the call succeeds the blocks may hold anything.
WriteCmd ==
    /\ pc = "writeCmd"
    /\ \/ /\ Quiet /\ CardReady /\ Agrees /\ Starts("receiving")
          /\ known' = [b \in Block |-> IF b \in Target THEN Unknown ELSE known[b]]
          /\ Secure /\ pc' = "writeBlock" /\ UNCHANGED op
       \/ Fails("receiving") /\ Ended(FALSE) /\ UNCHANGED history
    /\ UNCHANGED medium /\ Keep

Accepted(v) == pending' = Append(pending, [block |-> card.at, value |-> v])
Succeeds ==
    /\ exposed' = IF op.n > 1 THEN Target ELSE {}
    /\ known' = [b \in Block |-> IF b \in Target THEN op.data[b - op.first + 1] ELSE known[b]]

\* A block the card took, as far as the host can tell.  After the last one of
\* several the stop token is sent and the call returns while the card still
\* programs; a single block is waited for.
Taken ==
    /\ op' = [op EXCEPT !.todo = @ - 1, !.ok = (op.todo = 1 /\ op.n > 1)]
    /\ IF op.todo > 1
       THEN /\ card' = [card EXCEPT !.at = @ + 1]
            /\ UNCHANGED <<pc, history>>
       ELSE /\ card' = [card EXCEPT !.job = "none"]
            /\ IF op.n > 1 THEN pc' = "idle" /\ Succeeds
                           ELSE pc' = "settle" /\ UNCHANGED history

\* Mutant: an answer other than "accepted" passes.
WriteUnchecked ==
    /\ pc = "writeBlock"
    /\ LET v == op.data[op.n - op.todo + 1] IN
       \/ Quiet /\ Accepted(v) /\ Taken
       \/ Noise /\ UNCHANGED pending /\ Taken
    /\ UNCHANGED store /\ Keep

\* sd_write_block: the card refuses damaged data if its checking is on, and
\* its answer may be damaged itself.
WriteBlock ==
    /\ pc = "writeBlock"
    /\ LET v == op.data[op.n - op.todo + 1] IN
       \/ card.at < Sectors /\ Quiet /\ Accepted(v) /\ Taken
       \/ card.at < Sectors /\ ~card.crc /\ Noise /\ Accepted(Garbage) /\ Taken
       \/ /\ \/ card.at = Sectors /\ Quiet /\ UNCHANGED pending
             \/ Noise /\ UNCHANGED pending
             \/ card.at < Sectors /\ Noise /\ Accepted(v)
          /\ Ended(FALSE) /\ card' = [card EXCEPT !.job = "none"] /\ UNCHANGED history
    /\ UNCHANGED store /\ Keep

\* Mutant: a single block is not waited for.
SettleAtOnce ==
    /\ pc = "settle"
    /\ Ended(TRUE) /\ Succeeds
    /\ UNCHANGED <<card, medium, noise, upset>> /\ Keep

\* sd_wait_ready behind a single block.
Settle ==
    /\ pc = "settle" /\ ((CardReady /\ Quiet) \/ Outlasts)
    /\ Ended(TRUE) /\ Succeeds
    /\ UNCHANGED <<card, medium>> /\ Keep

(***************************************************************************)
(* Restarts: of the microcontroller alone, or with the card's supply.      *)
(***************************************************************************)
Reset ==
    /\ restarts > 0 /\ restarts' = restarts - 1
    /\ pc' = "idle" /\ noinit' = TRUE /\ type' = "none" /\ tries' = 0 /\ op' = NoOp
    /\ UNCHANGED <<noise, upset>>

\* The card goes on with what it was in the middle of.
Restart ==
    /\ Reset
    /\ \E d \in 0..Deaf :
        /\ card.job = "none" => d = 0
        /\ card' = [card EXCEPT !.deaf = d]
    /\ UNCHANGED <<medium, history>>

\* What the card had not programmed is lost, and the block it was at damaged.
\* Of what the calls reported only the blocks of a write of several that no
\* answered command has followed are given up, whatever the card still held.
PowerCycle ==
    /\ Reset
    /\ card' = Fresh(card.kind, "native") /\ pending' = <<>>
    /\ \/ UNCHANGED store
       \/ pending # <<>> /\ store' = [store EXCEPT ![Head(pending).block] = Garbage]
    /\ exposed' = {}
    /\ known' = [b \in Block |-> IF b \in exposed THEN Unknown ELSE known[b]]

Transfer == ReadCmd \/ ReadBlock \/ Cmd12 \/ WriteCmd \/ WriteBlock \/ Settle
User == \E b \in Block, n \in 1..MaxCount : Read(b, n) \/ Write(b, n)
Next == Start \/ Transfer \/ User \/ Sync \/ Program \/ Restart \/ PowerCycle

Spec == Init /\ [][Next]_vars
\* Calls run to their end, cards program what they took, and the file system
\* initialises a drive that is not ready whenever it is used.
FairSpec == Spec /\ WF_vars(Start) /\ WF_vars(Transfer) /\ WF_vars(Program)

(***************************************************************************)
(* Properties.                                                             *)
(***************************************************************************)
\* An answer misread, or a card that comes up behind the timeout, can leave
\* driver and card with different addresses; nothing else can.
Misled == upset \cap {"misheard", "slow"} # {}

\* Once the driver says so the card is ready, whatever happened before; and
\* they agree on what an address means unless the driver was misled: damaged
\* exchanges that are found out, lost commands and restarts in the middle of
\* anything do not undo that.
DriverKnowsCard ==
    ~noinit => /\ card.state = "ready"
               /\ Misled \/ (type = "V2HC" <=> card.kind = "V2HC")

\* A version 2 card gets block addresses if it is a high capacity card and byte
\* addresses if not (sd_card.c:932-933), whatever the wire did.
AddressesFit == ~noinit /\ type \in {"V2", "V2HC"} => type = card.kind

\* A read that succeeds returns what the successful writes left.
ReadIsStored ==
    upset = {} /\ op.kind = "read" /\ op.ok /\ pc = "idle" =>
        \A i \in 1..op.n : known[op.first + i - 1] \in {Unknown, op.data[i]}

\* What a block will hold when the card has programmed all it accepted.
Final(b) ==
    LET of == {i \in 1..Len(pending) : pending[i].block = b}
    IN IF of = {} THEN store[b]
       ELSE pending[CHOOSE i \in of : \A j \in of : j <= i].value

\* Blocks go unchecked to the card when CMD59 was lost, or to other blocks.
Checked == ~Misled /\ "unchecked" \notin upset

\* What a write that succeeded left stays until the block is written again,
\* whatever later calls and damaged exchanges do, and restarts; a loss of
\* power can take no more than the last write of several blocks, and that
\* only until the card has answered another command.
AckIsKept == Checked => \A b \in Block : known[b] \in {Unknown, Final(b)}

\* A write of one block returns when the block is on the medium: nothing the
\* file system writes one by one is lost with the power.
SingleIsStored ==
    Checked /\ op.kind = "write" /\ op.n = 1 /\ op.ok /\ pc = "idle" =>
        store[op.first] = op.data[1]

\* CTRL_SYNC completes the pending write process (diskio.h:46).
SyncCompletes == op.kind = "sync" /\ op.ok /\ pc = "idle" => pending = <<>>

\* As long as the wire is sound one call of sd_init_card brings the card up,
\* also a card that a restart caught in the middle of a transfer.
InitNeedsNoRetry ==
    noise = MaxNoise /\ pc = "idle" /\ noinit => type = "none" /\ tries = 0

\* Every call comes to its end.
CallReturns == (pc # "idle") ~> (pc = "idle")

\* When restarts have ended the driver gets the card going, and for good.
CardComesUp == <>[](~noinit)
=============================================================================
