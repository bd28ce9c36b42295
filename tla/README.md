# Models of the Pico W network monitor

TLA+ models of the firmware in `src/Attempted_Final_Integration`: a Raspberry
Pico W that watches an Ethernet segment, counts TCP SYNs, keeps its log and
alerts on an SD card and shows them on a small web server. The modules are
checked by TLC on small instances and, for the modules with a `...Proofs`
companion, proved by TLAPS for every value of the constants.

Paths below are relative to `src/Attempted_Final_Integration`; `sd_driver/` is
`no-OS-FatFS-SD-SPI-RPi-Pico-master/FatFs_SPI/sd_driver/`, and `ff.c` is in
`FatFs_SPI/ff14a/source/` beside it.

## 1. The system

Three flows of control meet in it:

- **lwIP's callbacks.** With `pico_cyw43_arch_lwip_threadsafe_background` the
  stack runs from an interrupt. The web server lives there: it reads the card,
  allocates, formats and queues a page inside one callback.
- **The receive loop** of the RMII driver, meant for core 1
  (`netif_rmii_ethernet_loop`), with the falling-edge interrupt of CRS_DV, two
  PIO state machines and two DMA channels beside it. It parses every frame it
  recognises and runs the flood detection on it.
- **Interrupts of the peripherals**: the completion of a DMA block on the SD
  card's SPI, and the timer that advances the clock string every second.

They share the lwIP heap and pools, the card, the clock string `epoch_time`,
and one global server record. `main` starts them and then spins; in the final
integration its call of the Ethernet driver is commented out, and the parts run
in the partial integrations. The models take each part as it is written,
whichever `main` starts it.

| component | state it keeps | operations | meets |
|---|---|---|---|
| SPI block transfer (`sd_driver/spi.c`) | a semaphore, two DMA channels, the interrupt bit | `spi_transfer`, `spi_irq_handler` | called by the SD driver for each block |
| SD driver (`sd_driver/sd_card.c`) | `m_Status`, `card_type`, `sectors` | `sd_init_card`, `sd_read_blocks`, `sd_write_blocks` | the card, over a wire; FatFs above |
| block device glue (`glue.c`) | none | `disk_initialize`, `disk_read`, `disk_write`, `disk_ioctl` | FatFs and the driver |
| FatFs (`ff.c`) | the sector window, the file object, free counts, locks | `f_mount`, `f_open`, `f_write`, `f_close` | block device below; `sd.c` and the logger above |
| SD file helper (`sd.c`) | FatFs' mount pointer | `read_sd_card`, `write_sd_card` | called by the web server |
| receive side (`src/rmii_ethernet.c`) | `rx_frame`, DMA, state machine, interrupt | `netif_rmii_ethernet_poll`, `..._rx_dv_falling_callback` | lwIP, packet analysis |
| transmit side (same file) | `tx_frame_bits`, DMA | `netif_rmii_ethernet_output` | lwIP |
| packet analysis (`src/packet_handler.c`) | `sync_counter`, `first_time`, `first_dest_ip` | `parse_packet`, `detect_syn_flood` | receive loop, clock |
| NTP client (same file) | `epoch_time`, its state record | `get_epoch`, `ntp_recv`, `increment_epoch` | lwIP, timer |
| web server (`webserver.c`) | `client_pcb`, `recv_path`, `send_data` | accept, recv and sent callbacks | lwIP, page rendering |
| page rendering (same file) | the heap | `access_page`, `get_data_sd`, `get_alert_data_sd` | SD file helper |

What makes it hard: steps of the thread, an interrupt and a DMA engine in any
order, timeouts that leave hardware running, a card that outlives a restart of
its host, damaged exchanges, one record shared by all connections, segments
that TCP offers again, and memory that nobody gives back. The hazards, each at
its line and with the properties that watch it, are in `PROJECT.json`.

What makes each part correct:

- *SPI*: a call that returns true has moved its block, and no completion is
  ever taken for that of another call.
- *SD driver*: driver and card agree on what an address means; acknowledged
  blocks stay; what is read is what was written; every call ends. Where the
  protocol has no checksum or the driver does not look, this cannot hold; the
  properties say how far it does.
- *FatFs*: what a close acknowledged survives errors and losses of power, no two
  files share a cluster, and free space is neither lost nor invented.
- *Receive side*: the buffer is never read while the DMA writes it, no frame is
  delivered twice, and one that comes while the receiver waits is delivered.
- *Transmit side*: what is on the wire is one frame, whole, although the next is
  being prepared.
- *Packet analysis*: the counter counts the SYNs of one address in one second.
- *Web server*: a client gets the pages it asked for, in order, and nothing else.
- *Page rendering*: a page shows its lines, an existing page is served, and the
  loss of memory per view is bounded.

## 2. The modules and the code

Every module has one action per statement group, command or callback; names
are the code's where it has one. `PROJECT.json` gives the lines of each
definition. Definitions introduced by "Mutant:" are altered copies of an
action. They are in no next-state relation: putting one in place of the action
shows that a property notices the change.

**SpiTransfer**: `spi_transfer` statement by statement (`Call`, `Configure`,
`Start`, `Acquire`/`Timeout`, `FinishTx`, `FinishRx`), the interrupt (`Isr`),
and the hardware (`TxMove`, `RxMove`, `Overrun`). `got` counts what was written
at and behind the present buffer, `stale` marks bytes that answer an earlier
call. After a timeout the channels keep running, as in the code. One core:
while the interrupt is pending the thread does not step.

**SdCard**: driver, card, wire and restarts. `pc` is the next exchange; one
action is a command with its answer, or one data block. The card is a record
with its kind (version 1, version 2, high capacity), its state, what transfer
it is in the middle of, and how many CMD0s it will miss; `pending` are blocks
it accepted and has not programmed. `noise` is how many exchanges may still
go wrong. One that the driver finds out is `Noise`; one that it does not is
`Upset`, which leaves a trace in the history variable `upset`: an answer without
a checksum taken as it came ("misheard": the answers of ACMD41, and the OCR with
the capacity bit, sd_card.c:501-504, 679), a busy card that outlasts a wait
("slow"), a CMD59 whose failure is overwritten ("unchecked", 633), a transfer the
driver does not know of ("unstopped", 945, 958). `known` is history too: what each
block must hold according to the results the caller saw. `Restart` restarts the
host alone, `PowerCycle` both; what the card has accepted and not programmed is
lost then. `exposed` is history: the blocks of a write of several, which returns
behind the stop token (1080-1082), until the card answers another command; only
what the calls said of these is given up by `PowerCycle`. `Sync` is CTRL_SYNC of
`disk_ioctl` in `glue.c`.

**FatVolume**: `ff.c` as `sd.c` and the logger use it: `f_mount` (`Mount`),
`f_open` to create (`Clear`, `Free`, `Reopen`) or to append (`Find`, `Seek`),
`f_write` of one unit (`WriteCall`, `Grow`, `Link`, `Spill`), `f_close`
(`CloseCall`, `Data`, `Entry`, `Dir`, `Info`). `disk` is the card, `view` the FAT
and the directory as seen through the window, `win` the sector in the window and
whether it is dirty, `fs` and `fil` the objects of FatFs. A step writes the card
at most once: when it needs another sector than the dirty one in the window,
`Flush` comes first, so that `PowerLoss` falls between any two writes. `Fail` is
an access that the card refuses, with what each call does about it; `Forget` is a
caller that returns without a close. A cluster is one sector and the loop of
`create_chain` is one step, as it writes only at its end. `clean` and `acked` are
history: nothing has failed so far, and what each file holds according to its
latest close.

**FileStore**: the promise, without clusters and a window: whenever the power
fails, a file holds its old text, none if its creation has begun, or what its
writer had written at the close, and no other file changes. `FatVolume` states
the mapping (`Store == INSTANCE FileStore WITH ...`): `durable` is what the chains
on the card spell, `asked` what they spell through the window.

**RmiiRx**: the polling loop (`Poll` .. `Timeouts`), the falling-edge interrupt
(`Isr`), the state machine, its FIFO and the DMA (`FramePiece`, `IdlePiece`),
and the frames on the wire. A frame is counted in pieces of 500 bytes, so the
1500 bytes of the DMA are three. `junk` says that `rx_frame` begins with
leftovers of the FIFO; `owed` is a history variable for the last frame that
began while the receiver was armed.

**RmiiTx**: `netif_rmii_ethernet_output` statement by statement: `Output` copies
and pads the frame in `tx_frame`, `Crc` sums it up, `Wait` waits for the DMA,
`Encode` writes one piece of `tx_frame_bits`, `Start` starts the DMA, and `Send`
is the DMA. A frame is counted in pieces; `due` is a history variable, the frame
the DMA was started for.

**PacketHandler**: `Receive`, `Parse`, `DetectSyn`/`DetectOther`, with the
clock's `Tick` and `SetClock` between any two. A frame is the sequence of
places in it that match the scan of `parse_packet`, and the index of its real
header. `second` and `tally` are history: the SYN records of each address
since the second of the latest one began. The `sscanf` into two uninitialised
integers is a choice over `PortWrites`: harmless, or the end of the core.

**WebServer**: clients (`Ask`, `Close`, `Reset`), the callbacks (`Accept`,
`Recv` by `Deliver`, or by `Redeliver` for a segment refused before, `RecvFin`)
and the network (`Receive`). The three fields of `HTTP_SERVER_T` are variables
of the same names. What lwIP does around a callback (the pcb's states, refused
data, the receive window, the pool of pcbs, the room for what is sent) is modelled
as far as the server sees it. `Copies` says whether `tcp_write` copies: with the
`lwipopts.h` of both server builds it does, with that of the Ethernet driver it
would not. A page is `Segments[page]` segments, and lwIP can hold `Room` of them
over all connections, because it copies into whole segments from one heap
(`MEM_SIZE` 4000, `LWIP_NETIF_TX_SINGLE_PBUF`: two). `TcpWrite` queues a page or,
without room, nothing; nobody looks at its result. A page in `sndq` takes its room
for certain, one that was received for as long as its acknowledgement may be on
the way (`Late`), so that between `MayFit` and `MustFit` either may happen.
`dropped` is history: the connections that lost a page this way.

**HttpService**: the promise, without pcbs and shared buffers: every
connection is a queue of questions answered one by one, and who waits is
answered, unless the question was given up (`Lose`), which the service may do
only with a page that is more than fits, or when another client's pages may take
the room. `WebServer` states the mapping (`Service == INSTANCE HttpService WITH
Page <- Wanted, Fits <- Holdable, lost <- dropped`); connections, questions and
answers map to themselves.

**PageRender**: `access_page`, `get_data_sd` and `get_alert_data_sd`, one
action per allocation or turn of a loop. A read may fail at any time and so may
an allocation, as blocks differ in size and the heap may be in pieces.
A row is its number and, for each field, the line that was last scanned into
it, because `sscanf`'s result is not looked at. `heap` counts blocks of each
sort. When a pointer is NULL or to no set, the answer is arbitrary ("junk") or
the core stops ("dead").

How they fit: SpiTransfer is below one data block of SdCard; a block read or
written in SdCard is one access of FatVolume, which may fail; FatVolume is below
`read_sd_card`, which is a step of PageRender that may fail; PageRender is inside
the step `SendData` of WebServer; RmiiRx hands frames to PacketHandler; RmiiTx
stands alone. The modules are checked one by one. There are two abstract
specifications: `FatVolume` implements `FileStore`, and `WebServer` implements
`HttpService` in the serial setting.

## 3. What is checked

Runs that pass (distinct states in parentheses, to the nearest hundred or
thousand):

| run | question | what the properties say |
|---|---|---|
| `spi_safety` (2,200) | bytes lost and timeouts anywhere | the driver's assertions never fail; up to the first timeout a true result is a whole block, no permit outlives its call, and every call returns |
| `sd` (1,509,000) | all kinds of card, two exchanges that go wrong with or without the driver's notice, a restart or power loss anywhere, after which the card may miss nine CMD0s | the card is ready when the driver says so, and they agree on addresses unless an answer was misheard or the card outlasted a wait; reads and acknowledged writes; single blocks on the medium when a write returns; one `sd_init_card` is enough on a sound wire, calls end, the card comes up for good |
| `files` (681,000) | two files created, extended and created anew on a small volume, with a failing access and a loss of power anywhere | chains end and stay apart, acknowledged texts stay, free clusters are counted right and none is lost while nothing fails, the refinement of FileStore, every call returns |
| `rx_fitting` (122,000) | frames of at most 1500 bytes at any moment of the loop | the buffer is quiet while it is read, no frame twice, the receiver rearms, a frame that begins with an empty buffer and an armed receiver is delivered |
| `tx` (304) | short and full frames in any order, sent while the DMA still sends the one before | every frame goes over the wire whole, with its own padding and check sequence |
| `pkt_count` (74,000) | ticks and clock settings between any steps | the counter is the tally of its second when one address gets the SYNs, and never more than the counted address got |
| `page` (292,000) | every log, page, and failure | pages show their lines, existing pages are served, the loss per view is bounded |
| `web_serial` (1,300) | one connection at a time, patient clients, pages of one and two segments and alerts of three | no answers mixed up, the refinement of HttpService with its liveness |
| `web_busy` (728,000) | two impatient clients, resets, cut and foreign requests | no second answer to a request, no page nobody asked for, the newest connection is served as long as there is room for its pages |

Runs that find a violation, each of one statement the repository makes of the
program:

| run | what happens |
|---|---|
| `rx_full` | A frame of more than 1500 bytes, check sequence included, never fits the count of the receive DMA and is never recognised (rmii_ethernet.c:427). |
| `web_two` | Two clients are connected; the answer to one goes to the other, because it is written to the connection accepted last (webserver.c:329, 343). |
| `web_leak` | A client's FIN is answered with `ERR_VAL` and no close; once every pcb is in CLOSE_WAIT the port takes no connection (webserver.c:296). |

Configurations that are kept beside the runs. Each refutes the property it names:
something the code does not do, or does not do under a premise that a run leaves out:

| configuration | property | shows |
|---|---|---|
| `MC_spi_hang` | `EveryCallReturns` | a call times out and leaves the channels running; they finish later and release a permit; the next call takes it, passes its one-second wait at once and stands in `dma_channel_wait_for_finish_blocking` for a block of which a byte was lost (spi.c:78-85) |
| `MC_sd_ocr` | `AddressesFit` | one damaged answer: a version 2 card gets addresses in the other unit, against the comment at sd_card.c:932-933, because the bytes of the OCR have no checksum (501-504, 679) |
| `MC_sd_sync` | `SyncCompletes` | CTRL_SYNC succeeds while the card still programs the last write of several blocks (glue.c:144), although diskio.h:46 says that it completes pending writes |
| `MC_files_retry` | `AckedIsDurable` | `f_sync` clears `FA_MODIFIED` although `sync_fs` failed (ff.c:4190): a second `f_close` writes nothing and returns `FR_OK` |
| `MC_rx_stale` | `ArmedFrameDelivered` | bytes already in the buffer when a frame begins cost that frame |
| `MC_rx_pool` | `NoNullInput` | an empty pbuf pool passes NULL to `netif_input` |
| `MC_tx_two` | `WireIsFrame` | two callers, as from two cores, share `tx_frame` without a lock |
| `MC_pkt_own` | `RecordIsOwnHeader` | other bytes of the frame are taken for the TCP header |
| `MC_pkt_fault` | `FramesAreHandled` | the stray writes of `sscanf`, when they are not harmless, stop the analysis |
| `MC_pkt_dest` | `NewDestStartsAnew` | a SYN to another address within a second does not start the count anew, against the comment above the condition (packet_handler.c:278-279) |
| `MC_web_icon` | `NoUndefinedPage` | a path no branch renders uses an unassigned pointer |
| `MC_web_full` | `FullIsRetried` | the page of one client takes the room of lwIP's heap; that of another gets `ERR_MEM`, which nobody looks at (webserver.c:286), and is never sent, although its client waits and the room comes back; tcp_out.c:377-379 asks the application to try again |
| `MC_web_window` | `WindowReopens` | `tcp_recved` is never called: the window stays shut |
| `MC_web_nocopy` | `WrittenIsSent` | without a copy, a retransmission sends the next page's bytes |
| `MC_page_short` | `RowIsItsLine` | a cut line shows fields of the line before |
| `MC_page_alerts` | `LengthMatches` | a page longer than `send_data` is cut behind a larger Content-Length |
| `MC_page_heap` | `NothingLeaks` | no view gives back all it took |

### Bounds

- *SPI*: blocks of 3 and FIFOs of 2: the block is longer than the FIFO, so
  that overruns happen, and has a first, a middle and a last element. Calls are
  not bounded; completions of several calls meet.
- *SD*: two sectors, calls of one and two blocks, `BlockSize` 2 (byte and block
  addresses differ). One value: blocks that no write has reached hold `Garbage`,
  from which it is told. Two exchanges that go wrong allow a failure and a failed
  repair, and one restart, with or without the card's supply, comes at any point.
  `Deaf` is 9: one CMD0 fewer than the ten tries, the most a start can survive.
- *Receive*: three frames: one that is delivered, one that is cut or missed,
  and one that shows whether the receiver recovered. `Lengths` is one piece and
  the whole buffer (in `rx_full` one piece more than fits).
- *Files*: two files, three clusters in two sectors of the FAT, two units per
  sector, three openings, one error and one loss of power: a file of two
  clusters whose links lie in different sectors, a full volume, a chain that is
  freed and used again, and a failure in the middle of each. Four openings (7.0
  million states) show no more; that is too long for a run.
- *Transmit*: a frame to be padded and one that fills the buffer, four calls:
  every order of the two, each over what the other left in the buffers.
- *Packets*: three frames, two addresses, three seconds, and two places per
  frame that look like a header: a counter that reaches 2 and starts anew.
- *Page*: two lines per set and two sets: logs of 0 to 5 lines, that is below,
  at and behind every boundary of a set and of `MAX_SETS`, every line whole or
  cut. Every read and every allocation may fail in each of two views, and the
  heap of 8 blocks holds one view (seven blocks at most, of which five may be
  lost) but not always a second. Alerts reach one
  line more than the buffer holds, and the buffer holds one more than
  `send_data`.
- *Web*: two connections with two requests each, over two pcbs: enough for an
  accept between a request and its answer, and for a pool that runs dry. `Room`
  is two segments, as in the builds, which a page of the log fills. The
  `Window` of three requests is not exhausted; `MC_web_window` is about that.

Some branches are off in the passing runs on purpose, by a constant, and taken
in the configurations of the last table: the harmful `PortWrites`, paths that no branch renders, an empty pbuf pool.

Deadlock is checked where there is always a next step (`sd`, `files`, `rx_*`,
`pkt_*`). Elsewhere it is off because the system may really stop: a failed
assertion or a fault of the core, clients that have all gone, a bound on views
or on calls.

### Fairness

- *SPI*: the thread and the interrupt run, the DMA serves its requests, and the
  second of `sem_acquire_timeout_ms` passes. Nobody has to call.
- *SD*: a call that has begun goes on, a card programs what it accepted, and
  `sd_init_card` is called as long as the drive is not ready, as FatFs does at
  each mount and access. Reads and writes need not come.
- *Files*: a call that has begun goes on, to its end or to an error. Nobody has
  to call.
- *Receive*: the loop runs, the interrupt is taken, a frame on the wire ends,
  the state machine samples, lwIP frees pbufs. Frames need not come.
- *Packets*: the loop runs (for `MC_pkt_dest` and `MC_pkt_fault`). Clock and frames
  are free.
- *Transmit* and *Page* state safety only and need none.
- *Web*: lwIP polls its input and its timers, TCP delivers what was queued. No
  client has to connect, ask or leave, and `Accept` is not assumed either. A
  patient client waits for ever.

## 4. What is proved

| module | theorems | argument |
|---|---|---|
| SpiTransferProofs | `TypeCorrect`, `AssertsNeverFail`, `TrueMeansBlock`, `NoStalePermit` | `IInv`: types, a part that always holds (the interrupt bit means an idle receive channel; what it may still write is bounded) and a part, `Clean`, that holds until the first timeout and accounts for every byte of the block |
| SdCardProofs | `SdTypes`, `DriverAgrees`, `WritesAreKept`, `SingleBlocksAreStored`, `ReadsAreStored`, `OneStartIsEnough`, `CallsEnd` | `TypeInv` adds to the types what operation each step belongs to; `Stages` says how far the start-up conversation has brought driver and card at each step. `WriteInv`: what the card checks at each stage of a write (`Checking`, `Writing`), no block is twice in the queue of the unprogrammed (`Apart`), so that the entry of a block in the queue or, without one, its medium is what the results promise (`Kept`). `Reading` ties a card that sends to the block asked for and counts what came. `Sound` follows a start on an undamaged wire. `ToDo`, which every step of a call makes smaller, counts the exchanges ahead, the damaged ones that may still come, and the blocks that wait to be programmed. The only premise is that of the start, at most nine lost CMD0s. What the properties except they name themselves, by the history: agreement on addresses behind a misheard answer or a slow card; writes behind one of these or a lost CMD59, and the last write of several blocks when the power goes before the card answers again; reads behind anything the driver did not notice |
| FatVolumeProofs | `TypesAreKept`, `ChainsStayApart`, `FilesAreStored`, `ClosedIsDurable`, `FreeCountIsRight`, `NothingIsLost`, `CallsEnd` | see below |
| RmiiRxProofs | `RxTypes`, `BufferExclusive`, `NoFrameTwice` | `IInv`: written and still to be written pieces fit the count (`Room`), pieces in the buffer have been on the wire (`Fresh`), delivered frames are over, and outside the turn of a delivery the buffer holds only later frames (`Later`) |
| RmiiTxProofs | `TxTypes`, `WireCorrect`, `FramesWhole` | `TxInv`: with one caller, `tx_frame` holds the frame of the call, what is encoded so far is its coding, and the DMA's part of `tx_frame_bits` is the frame it was started for until `Wait` has seen it end (`Shapes`, `Caller`, `Under`). `MC_tx_two` shows why one caller is a premise |
| PacketHandlerProofs | `PacketTypes`, `CounterCorrect` | `IInv` adds that a record is there when it is used, that no count is ahead of the frames, that a counter of 0 means no SYN so far, and `Tallied`: with other addresses in the same second, too, the counter is the tally of the first one. `CounterIsTally` claims less there, because the comment at 278 says otherwise (`MC_pkt_dest`) |
| PageRenderProofs | `RenderTypes`, `LeakBound`, `PagesAreRight`, `ExistingPagesServed` | `HeapInv`: the least that is allocated at each step, so that each free of a pointer from `malloc` or `read_sd_card` has its block (the free of a pointer to no set is taken to stop the core or to leave the heap alone), and the most, so that the loss is bounded. `PageInv` adds `Content`: the sets are the first lines of the log in order, the buffer the lines behind them; lemmas on division (`Remainder`, `FullSet`) tie the position in the log to the sets. `Complete` adds that a page that is not served has met a failure or the end of the log |
| WebServerProofs | `WebTypes`, `AnswersAreSingle`, `PagesHaveOrigins`, `SerialAnswers`, `SerialImplements` | Each step moves at most one place from the requests to the answers, so that their sum (`Total`) grows only with a request (`AnswersAreSingle`). `Origins`: every page on its way, held by TCP, shown, queued or in the record's path was asked for (with or without copies). Under the premise of one patient client, `SerialInv` says whose turn it is: the record belongs to the one open connection and at most one of request, path and answer exists; a question may also have lost its page for want of room. From it follow the answers, and that initial states and steps map to those of HttpService; `NoRoom` shows that a page that is lost although no other client has received one is larger than the room |

FatVolume has the longest argument. What holds whatever fails is `Inv`:

- `Typed` and `Control`: types, and what the file object and the locals are good
  for at each step of a call;
- `Coherent`: the card differs from what the window shows in the dirty sector of
  the window only, because every move of the window writes it back;
- `Rooted`: in both FATs no two clusters lead to the same one, and each file's
  chain, as the window and as the card have it, begins where none goes on. It is
  what keeps two chains apart for any length; it also speaks of the chain being
  freed and of the cluster that is taken and not linked yet;
- `Lengths`: each chain is long enough for its size, also for the size that the
  card still has, and the card's FAT agrees with the window's as far as that size
  goes, whichever sector was written first;
- `TextInv`: each unit of the open file is on the card or in its buffer, and
  what the card's entry counts of it stays as it is.

`TypesAreKept` and `ChainsStayApart` follow from it, and the refinement
`FilesAreStored`: every action is first shown to have one of eight effects on
what the files hold (`Effects`: `Stays`, `Truncates`, `Opens`, `Puts`, `Closes`,
`Settles`, `Leaves`, `Loses`), and each of these is a step of FileStore or none. `ClosedIsDurable`
adds `AckInv`, what has been acknowledged of the file being closed and of the
others. It assumes `~Retry`: no caller in the repository closes again after a
close that failed, and `MC_files_retry` shows what happens to one that does.
`FreeCountIsRight` and `NothingIsLost` are about the time in which every call
has ended well: `Pending` says that whatever the card lacks then will be written
by the close of the open file, `Counted` that `free_clst` is the number of free
clusters but for the one not linked yet, `Kept` that a used cluster is on the
chain of an entry, of the file object, of the chain being freed, or the one at
hand, and `Owner` that the entry of the open file has its chain or gets it.
`CallsEnd` is the half of the liveness property `CallReturns` that needs no
fairness: within a call every step, also one that fails, makes `ToDo` smaller, in
which `remove_chain` counts the used clusters. That a next step is always
possible, and taken, is what TLC adds.
A chain is a recursive function of its position. As the library's induction
theorems cannot be used, the lemmas about chains go from "every nonempty set of
naturals has a least element" (`Least`, by `WFMin`) to an induction over a set
(`Induct`).

The theorems hold for all values of the constants that the modules' named
assumptions allow (`SizeAssumption`, `OverrunAssumption`, `SdAssumption`, `FatAssumption`,
`KindsAssumption`, `RxAssumption`, `TxAssumption`, `PacketAssumption`,
`WebAssumption`, `RenderAssumption`):
positive sizes, natural bounds, and values that differ from their markers.
`RenderAssumption` says that a full set fits in the row buffer and in
`send_data`. The strengthenings are needed because the properties are not
inductive: that a true result means a whole block, for example, says nothing
of the steps during which the block is moved.

Model-checked only: liveness (`CallReturnsUntilTimeout`, `CallReturns` of SdCard
and of FatVolume, `CardComesUp`, `ReceiverRearms`, `CleanFrameDelivered`,
`LatestIsAnswered`) and the liveness part of `ImplementsService`. Fairness and
`ENABLED` are out of the prover's reach. Every other property of a passing run is
also a theorem, and of the two `CallReturns` the part named above.

## 5. What is not modelled

- Of **FatFs**: reading (it moves the window only), seeking, directories and
  long names, several open files, volumes without FSINFO, FAT12/16 and exFAT,
  `f_unlink`, `f_rename`, `f_mkfs`, and writes of whole sectors around the
  buffer.
- The **SD file helper** beyond a read that may fail: the FATFS object on the
  stack of `read_sd_card` stays registered after the return, and `f_read` is
  given no place for its count; what that overwrites depends on the compiler's
  layout of the stack.
- The **NTP client**: `get_epoch` has no caller. Setting and advancing the clock
  are actions of PacketHandler.
- **Start-up** and **Wi-Fi**: straight lines of vendor calls.
- **lwIP** and the Pico SDK are third party; what the models need of them
  (callers, callbacks, allocation) is in the modules and marked external.
- **CRC**, configuration tables, wrappers, demonstrations, build files: no
  state. A damaged block or frame is taken to be told from a sound one.
- In SdCard: the decoding of the capacity, the card detect pin (the
  configuration has none), the voltage check, a second caller inside a
  transfer. In WebServer: content types, texts, the size of a page but for its
  segments, how much of a page fits in the tail of a segment that waits to be sent
  (either may happen), what a write to a freed pcb does, and the small buffers of
  other protocols that share lwIP's heap.

By lines most of `src/` is vendored: two copies of lwIP, of FatFs with its code
page and Unicode tables, and the tools and examples around them. The models
cover the firmware's own logic, the card driver, and the part of FatFs that the
firmware's data depends on; they do not try to cover that rest.

## 6. Plan

Done: SpiTransfer, SdCard, FatVolume with FileStore, RmiiRx, RmiiTx,
PacketHandler, WebServer with HttpService, PageRender, and the proofs of section
4. What could follow, in this order:

1. **SdFile**: `read_sd_card`, `write_sd_card` and the mount, whose work area
   is on the stack of a function that has returned; callbacks that find the
   card in use. Property: a mount writes no memory that is not its own.
2. **NtpClock**: a retry without a pause, an answer after the state was freed,
   and a second timer. Property: the clock advances once per second.
3. **StartUp**: what is initialised twice, and in which order.
4. **Composition**: PageRender inside WebServer (a failed page on a shared
   record), RmiiRx with PacketHandler.
5. **Abstract specifications**: a register per block for SdCard (a failed write
   leaves either value or neither), a lossy FIFO link for RmiiRx, a counter per
   second for PacketHandler.
6. **Proofs**: the durability of a text when a close is called again, for the
   texts that were written before it failed; the abstract specifications of
   item 5.
