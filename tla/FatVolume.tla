------------------------------ MODULE FatVolume ------------------------------
(* FatFs (ff.c) as sd.c and the logger of the driver use it, on a FAT32      *)
(* volume: mounting, creating or extending a file, writing to it, closing    *)
(* it, through one sector window and the sector buffer of the file.  A step  *)
(* makes at most one write to the card, so that the power may fail between   *)
(* any two.  A cluster is one sector, a sector holds SectorUnits units and   *)
(* is written whole or not at all; one file is open at a time.  Names,       *)
(* dates, the second FAT, directories of several sectors, what lies behind   *)
(* the end of a file, and writes that go around the buffer are left out.     *)
EXTENDS Integers, Sequences, FiniteSets

CONSTANTS
    Files,        \* the names
    Nobody,
    SectorUnits,  \* SS(fs)
    Last,         \* the last cluster; n_fatent - 1
    PerFat,       \* entries in a sector of the FAT
    Retry,        \* a close that failed is called again
    MaxOpens,     \* bound: files opened
    MaxErrors,    \* bound: accesses that the card fails
    MaxLosses     \* bound: power losses

ASSUME FatAssumption ==
    /\ SectorUnits \in Nat \ {0} /\ Last \in Nat \ {0, 1} /\ PerFat \in Nat \ {0}
    /\ MaxOpens \in Nat /\ MaxErrors \in Nat /\ MaxLosses \in Nat
    /\ Retry \in BOOLEAN /\ Nobody \notin Files

VARIABLES
    disk,   \* the card: [fat, dir, data, free, last], the last two in FSINFO
    view,   \* [fat, dir] as seen through the window
    win,    \* [at, dirty]: winsect and wflag
    fs,     \* [mounted, free, last, flag]: free_clst, last_clst, fsi_flag
    fil,    \* the open file
    pc,     \* the next step of the call in progress, "ready" outside
    arg,    \* its locals: file, mode, cluster at hand, first one freed
    locks,  \* the files that Files[] calls open
    opens,  \* files opened; a unit is told from others by the opening that wrote it
    errors, losses,
    clean,  \* history: every call ended well and no mount or loss cut one off
    acked   \* history: what each file holds according to its latest close

spent == <<opens, errors, losses>>
vars == <<disk, view, win, fs, fil, pc, arg, locks, spent, clean, acked>>

Cluster == 2..Last
Clusters == Last - 1
NoCount == Last     \* 0xFFFFFFFF, more than there are clusters
EOC == Last + 1
NoSector == -3
InfoSector == -2
DirSector == -1
FatSector(c) == c \div PerFat

Unknown == 0
Units == 1..MaxOpens
Sector == [1..SectorUnits -> Units \cup {Unknown}]
Blank == [i \in 1..SectorUnits |-> Unknown]
Unsettled == <<Unknown>>
NoEntry == [there |-> FALSE, start |-> 0, size |-> 0]
NoFile == [file |-> Nobody, start |-> 0, size |-> 0, clust |-> 0, sect |-> 0,
           buf |-> Blank, dirty |-> FALSE, modified |-> FALSE, bad |-> "no",
           text |-> <<>>]
NoArg == [file |-> Nobody, mode |-> "append", clu |-> 0, first |-> 0]

\* The n-th cluster of a chain that begins at start.
Walk(fat, start) ==
    LET w[n \in 0..Clusters] ==
            IF n = 0 THEN start
            ELSE IF w[n - 1] \in Cluster THEN fat[w[n - 1]] ELSE w[n - 1]
    IN  w

Text(e, fat, data) ==
    LET w == Walk(fat, e.start)
        at(k) == w[(k - 1) \div SectorUnits]
    IN  [k \in 1..e.size |-> IF at(k) \in Cluster
                             THEN data[at(k)][((k - 1) % SectorUnits) + 1]
                             ELSE Unknown]

OnDisk(f) == Text(disk.dir[f], disk.fat, disk.data)
AsSeen(f) == Text(view.dir[f], view.fat, disk.data)

Init ==
    /\ disk = [fat |-> [c \in Cluster |-> 0], dir |-> [f \in Files |-> NoEntry],
               data |-> [c \in Cluster |-> Blank], free |-> Clusters, last |-> 0]
    /\ view = [fat |-> disk.fat, dir |-> disk.dir]
    /\ win = [at |-> NoSector, dirty |-> FALSE]
    /\ fs = [mounted |-> FALSE, free |-> NoCount, last |-> 0, flag |-> 0]
    /\ fil = NoFile /\ pc = "ready" /\ arg = NoArg /\ locks = {}
    /\ opens = 0 /\ errors = 0 /\ losses = 0 /\ clean = TRUE
    /\ acked = [f \in Files |-> Unsettled]
-----------------------------------------------------------------------------
(* The window. *)

\* move_window has no write to make before the sectors of S are seen.
Reach(S) == win.dirty => S \subseteq {win.at}
Seen(s) == win' = [at |-> s, dirty |-> win.dirty /\ win.at = s]
Changed(s) == win' = [at |-> s, dirty |-> TRUE]

\* What the window holds, on the card.
Written ==
    IF win.at = DirSector THEN [disk EXCEPT !.dir = view.dir]
    ELSE [disk EXCEPT !.fat = [c \in Cluster |->
                IF FatSector(c) = win.at THEN view.fat[c] ELSE @[c]]]

\* The order in which create_chain looks for a free cluster.
Ring(scl) == [i \in 1..Clusters |-> ((scl + i - 2) % Clusters) + 2]
Candidates(clst) ==
    LET scl == IF fs.last \in Cluster THEN fs.last
               ELSE IF clst = 0 THEN 1 ELSE clst
    IN  IF clst = 0 THEN Ring(scl)
        ELSE <<IF clst = Last THEN 2 ELSE clst + 1>> \o Ring(scl)
Tried(clst) == {i \in DOMAIN Candidates(clst) :
                   \A j \in 1..(i - 1) : view.fat[Candidates(clst)[j]] # 0}
\* Mutant: the search takes the first cluster it looks at.
First(clst) == {1}

Hit(clst) == {i \in Tried(clst) : view.fat[Candidates(clst)[i]] = 0}

Rear == IF fil.size = 0 THEN 0 ELSE fil.clust
Followed == Rear # 0 /\ view.fat[Rear] \in Cluster
Looked ==
    (IF Rear = 0 THEN {} ELSE {Rear})
      \cup (IF Followed \/ fs.free = 0 THEN {}
            ELSE {Candidates(Rear)[i] : i \in Tried(Rear)})

\* clst in f_open, after as many links as the size has clusters behind it.
Hops == (view.dir[arg.file].size - 1) \div SectorUnits
Passed == {Walk(view.fat, view.dir[arg.file].start)[n] : n \in 0..(Hops - 1)}

\* The sectors that the step at hand sees through the window.
Wanted ==
    CASE pc \in {"find", "reopen", "entry"} -> {DirSector}
      [] pc = "free" -> {FatSector(arg.clu)}
      [] pc = "seek" -> {FatSector(c) : c \in Passed}
      [] pc = "grow" -> {FatSector(c) : c \in Looked}
      [] pc = "link" -> {FatSector(fil.clust)}
      [] OTHER -> {}

\* Mutant: the window is moved without its write.
Skip ==
    /\ win.dirty /\ ~(Wanted \subseteq {win.at}) /\ win' = [win EXCEPT !.dirty = FALSE]
    /\ UNCHANGED <<disk, view, fs, fil, pc, arg, locks, spent, clean, acked>>

\* sync_window in move_window.
Flush ==
    /\ win.dirty /\ ~(Wanted \subseteq {win.at})
    /\ disk' = Written /\ win' = [win EXCEPT !.dirty = FALSE]
    /\ UNCHANGED <<view, fs, fil, pc, arg, locks, spent, clean, acked>>
-----------------------------------------------------------------------------
(* f_open. *)

OpenCall(f, m) ==
    /\ pc = "ready" /\ fs.mounted /\ fil = NoFile
    /\ opens < MaxOpens /\ opens' = opens + 1
    /\ pc' = "find" /\ arg' = [NoArg EXCEPT !.file = f, !.mode = m]
    /\ UNCHANGED <<disk, view, win, fs, fil, locks, errors, losses, clean, acked>>

Return == pc' = "ready" /\ arg' = NoArg

\* The file object, with its lock.
Opened(e, modified) ==
    /\ fil' = [NoFile EXCEPT !.file = arg.file, !.start = e.start, !.size = e.size,
                             !.modified = modified,
                             !.text = Text(e, view.fat, disk.data)]
    /\ locks' = locks \cup {arg.file}

\* Mutant: f_open waits for a file that is open.
Wait ==
    /\ pc = "find" /\ Reach(Wanted) /\ arg.file \in locks /\ Seen(DirSector)
    /\ UNCHANGED <<disk, view, fs, fil, pc, arg, locks, spent, clean, acked>>

Locked ==
    /\ pc = "find" /\ Reach(Wanted) /\ arg.file \in locks
    /\ Return /\ Seen(DirSector)
    /\ UNCHANGED <<disk, view, fs, fil, locks, spent, clean, acked>>

\* FA_CREATE_ALWAYS, or nothing to append to.
Clear ==
    LET f == arg.file
        cl == view.dir[f].start
        empty == [NoEntry EXCEPT !.there = TRUE]
    IN
    /\ pc = "find" /\ Reach(Wanted) /\ f \notin locks
    /\ arg.mode = "create" \/ ~view.dir[f].there
    /\ view' = [view EXCEPT !.dir[f] = empty] /\ Changed(DirSector)
    /\ acked' = [acked EXCEPT ![f] = Unsettled]
    /\ \/ cl = 0 /\ Opened(empty, TRUE) /\ Return
       \/ /\ cl # 0 /\ pc' = "free" /\ arg' = [arg EXCEPT !.clu = cl, !.first = cl]
          /\ UNCHANGED <<fil, locks>>
    /\ UNCHANGED <<disk, fs, spent, clean>>

\* Mutant: only the first cluster is freed.
FreeHead ==
    /\ pc = "free" /\ Reach(Wanted)
    /\ view' = [view EXCEPT !.fat[arg.clu] = 0] /\ Changed(FatSector(arg.clu))
    /\ fs' = [fs EXCEPT !.free = @ + 1, !.flag = 1] /\ pc' = "reopen"
    /\ UNCHANGED <<disk, fil, arg, locks, spent, clean, acked>>

\* One turn of remove_chain.
Free ==
    LET nxt == view.fat[arg.clu] IN
    /\ pc = "free" /\ Reach(Wanted)
    /\ IF nxt = 0 THEN Seen(FatSector(arg.clu)) /\ UNCHANGED <<view, fs>>
       ELSE /\ view' = [view EXCEPT !.fat[arg.clu] = 0]
            /\ Changed(FatSector(arg.clu))
            /\ fs' = IF fs.free < Clusters
                     THEN [fs EXCEPT !.free = @ + 1, !.flag = 1] ELSE fs
    /\ IF nxt \in Cluster THEN pc' = pc /\ arg' = [arg EXCEPT !.clu = nxt]
       ELSE pc' = "reopen" /\ arg' = arg
    /\ UNCHANGED <<disk, fil, locks, spent, clean, acked>>

Reopen ==
    /\ pc = "reopen" /\ Reach(Wanted) /\ Seen(DirSector)
    /\ fs' = [fs EXCEPT !.last = arg.first - 1]
    /\ Opened(view.dir[arg.file], TRUE) /\ Return
    /\ UNCHANGED <<disk, view, spent, clean, acked>>

\* FA_OPEN_APPEND on a file that is there.
Find ==
    LET e == view.dir[arg.file] IN
    /\ pc = "find" /\ Reach(Wanted) /\ Seen(DirSector)
    /\ arg.file \notin locks /\ arg.mode = "append" /\ e.there
    /\ IF e.size = 0 THEN Opened(e, FALSE) /\ Return
       ELSE /\ pc' = "seek" /\ locks' = locks \cup {arg.file}
            /\ UNCHANGED <<fil, arg>>
    /\ UNCHANGED <<disk, view, fs, spent, clean, acked>>

Seek ==
    LET e == view.dir[arg.file]
        c == Walk(view.fat, e.start)[Hops]
        part == e.size % SectorUnits # 0
    IN
    /\ pc = "seek" /\ Reach(Wanted)
    /\ IF Hops = 0 THEN UNCHANGED win
       ELSE Seen(FatSector(Walk(view.fat, e.start)[Hops - 1]))
    /\ fil' = [NoFile EXCEPT !.file = arg.file, !.start = e.start, !.size = e.size,
                   !.clust = c, !.sect = IF part THEN c ELSE 0,
                   !.buf = IF part THEN disk.data[c] ELSE Blank,
                   !.text = AsSeen(arg.file)]
    /\ Return
    /\ UNCHANGED <<disk, view, fs, locks, spent, clean, acked>>
-----------------------------------------------------------------------------
(* f_write of one unit. *)

\* mem_cpy at fptr; what lies behind is of no interest.
Into(buf, u) ==
    LET k == (fil.size % SectorUnits) + 1 IN
    [i \in 1..SectorUnits |-> IF i < k THEN buf[i] ELSE IF i = k THEN u ELSE Unknown]

WriteCall ==
    /\ pc = "ready" /\ fil # NoFile /\ fil.bad = "no"
    /\ IF fil.size % SectorUnits # 0
       THEN /\ fil' = [fil EXCEPT !.buf = Into(@, opens), !.dirty = TRUE, !.size = @ + 1,
                                  !.modified = TRUE, !.text = Append(@, opens)]
            /\ UNCHANGED <<pc, arg>>
       ELSE /\ IF fil.size = 0 /\ fil.start # 0
               THEN pc' = "spill" /\ arg' = [NoArg EXCEPT !.clu = fil.start]
               ELSE pc' = "grow" /\ UNCHANGED arg
            /\ UNCHANGED fil
    /\ UNCHANGED <<disk, view, win, fs, locks, spent, clean, acked>>

\* Mutant: the count is left as it is.
Unbooked(c) == fs' = [fs EXCEPT !.last = c, !.flag = 1]

\* Mutant: a cluster is counted when it is taken and when it is linked.
BookedTwice(c) == fs' = [fs EXCEPT !.last = c, !.flag = 1, !.free = @ - 2]

\* The count, and where the next search begins.
Booked(c) ==
    fs' = [fs EXCEPT !.last = c, !.flag = 1, !.free = IF @ =< Clusters THEN @ - 1 ELSE @]

\* create_chain: the chain goes on already, or there is no cluster, or one is
\* taken; last_clst is where the search begins, if it is a cluster.
Grow ==
    /\ pc = "grow" /\ Reach(Wanted)
    /\ \/ /\ Followed /\ Seen(FatSector(Rear))
          /\ pc' = "spill" /\ arg' = [arg EXCEPT !.clu = view.fat[Rear]]
          /\ UNCHANGED <<view, fs, fil>>
       \/ /\ ~Followed /\ (fs.free = 0 \/ Hit(Rear) = {})
          /\ IF Looked = {} THEN UNCHANGED win
             ELSE \E c \in Looked : Seen(FatSector(c))
          /\ fil' = [fil EXCEPT !.modified = TRUE, !.bad = "write"] /\ Return
          /\ UNCHANGED <<view, fs>>
       \/ /\ ~Followed /\ fs.free # 0
          /\ \E i \in Hit(Rear) : LET c == Candidates(Rear)[i] IN
                /\ view' = [view EXCEPT !.fat[c] = EOC] /\ Changed(FatSector(c))
                /\ arg' = [arg EXCEPT !.clu = c]
                /\ IF Rear = 0 THEN pc' = "spill" /\ Booked(c)
                   ELSE pc' = "link" /\ UNCHANGED fs
          /\ UNCHANGED fil
    /\ UNCHANGED <<disk, locks, spent, clean, acked>>

Link ==
    /\ pc = "link" /\ Reach(Wanted)
    /\ view' = [view EXCEPT !.fat[fil.clust] = arg.clu]
    /\ Changed(FatSector(fil.clust)) /\ Booked(arg.clu) /\ pc' = "spill"
    /\ UNCHANGED <<disk, fil, arg, locks, spent, clean, acked>>

\* The sector just left is written back, the next one begun.
Flushed == IF fil.dirty THEN [disk EXCEPT !.data[fil.sect] = fil.buf] ELSE disk
InCluster == [fil EXCEPT !.clust = arg.clu,
                         !.start = IF @ = 0 THEN arg.clu ELSE @]

Spill ==
    /\ pc = "spill" /\ disk' = Flushed
    /\ fil' = [InCluster EXCEPT !.sect = arg.clu, !.buf = Into(@, opens),
                   !.dirty = TRUE, !.size = @ + 1, !.modified = TRUE,
                   !.text = Append(@, opens)]
    /\ Return
    /\ UNCHANGED <<view, win, fs, locks, spent, clean, acked>>
-----------------------------------------------------------------------------
(* f_close. *)

\* A close with nothing to write reports nothing, unless it is the second try.
Closed ==
    /\ fil' = NoFile /\ locks' = locks \ {fil.file} /\ Return
    /\ acked' = IF fil.modified \/ fil.bad = "close"
                THEN [acked EXCEPT ![fil.file] = fil.text] ELSE acked

CloseCall ==
    /\ pc = "ready" /\ fil # NoFile /\ (fil.bad = "close" => Retry)
    /\ IF fil.modified
       THEN /\ pc' = "data" /\ acked' = [acked EXCEPT ![fil.file] = Unsettled]
            /\ UNCHANGED <<fil, arg, locks>>
       ELSE Closed
    /\ UNCHANGED <<disk, view, win, fs, spent, clean>>

\* Mutant: the buffer is taken for written.
Unwritten ==
    /\ pc = "data" /\ fil' = [fil EXCEPT !.dirty = FALSE] /\ pc' = "entry"
    /\ UNCHANGED <<disk, view, win, fs, arg, locks, spent, clean, acked>>

Data ==
    /\ pc = "data" /\ disk' = Flushed
    /\ fil' = [fil EXCEPT !.dirty = FALSE] /\ pc' = "entry"
    /\ UNCHANGED <<view, win, fs, arg, locks, spent, clean, acked>>

Entry ==
    /\ pc = "entry" /\ Reach(Wanted)
    /\ view' = [view EXCEPT !.dir[fil.file] =
                   [there |-> TRUE, start |-> fil.start, size |-> fil.size]]
    /\ Changed(DirSector) /\ pc' = "dir"
    /\ UNCHANGED <<disk, fs, fil, arg, locks, spent, clean, acked>>

\* Mutant: the directory stays in the window.
Lazy ==
    /\ pc = "dir" /\ pc' = "info"
    /\ UNCHANGED <<disk, view, win, fs, fil, arg, locks, spent, clean, acked>>

\* sync_window in sync_fs.
Dir ==
    /\ pc = "dir" /\ disk' = Written
    /\ win' = [win EXCEPT !.dirty = FALSE] /\ pc' = "info"
    /\ UNCHANGED <<view, fs, fil, arg, locks, spent, clean, acked>>

\* FSINFO; nobody looks whether it was written.
Info ==
    /\ pc = "info"
    /\ IF fs.flag = 1
       THEN /\ \/ /\ disk' = [disk EXCEPT !.free = fs.free, !.last = fs.last]
                  /\ UNCHANGED <<spent, clean>>
               \/ /\ errors < MaxErrors /\ errors' = errors + 1 /\ clean' = FALSE
                  /\ UNCHANGED <<disk, opens, losses>>
            /\ win' = [at |-> InfoSector, dirty |-> FALSE]
            /\ fs' = [fs EXCEPT !.flag = 0]
       ELSE UNCHANGED <<disk, win, fs, spent, clean>>
    /\ Closed
    /\ UNCHANGED view
-----------------------------------------------------------------------------
(* Failures, and what the callers do about them. *)

\* The access that the step at hand begins with fails.
Fail ==
    /\ errors < MaxErrors /\ errors' = errors + 1 /\ clean' = FALSE
    /\ \/ ~Reach(Wanted) /\ UNCHANGED win
       \/ /\ ~win.dirty /\ ~(Wanted \subseteq {win.at})
          /\ win' = [at |-> NoSector, dirty |-> FALSE]
       \/ pc = "seek" /\ view.dir[arg.file].size % SectorUnits # 0 /\ UNCHANGED win
       \/ pc \in {"spill", "data"} /\ fil.dirty /\ UNCHANGED win
       \/ pc = "dir" /\ UNCHANGED win
    /\ fil' = CASE pc \in {"grow", "link"} -> [fil EXCEPT !.bad = "write"]
                [] pc = "spill" -> [InCluster EXCEPT !.bad = "write"]
                [] pc \in {"data", "entry"} -> [fil EXCEPT !.bad = "close"]
                [] pc = "dir" -> [fil EXCEPT !.bad = "close", !.modified = FALSE]
                [] OTHER -> fil
    /\ fs' = IF pc = "reopen" THEN [fs EXCEPT !.last = arg.first - 1] ELSE fs
    /\ Return
    /\ UNCHANGED <<disk, view, locks, opens, losses, acked>>

\* The caller returns, without the close or after one that failed.
Forget ==
    /\ pc = "ready" /\ fil.bad # "no" /\ fil' = NoFile /\ clean' = FALSE
    /\ UNCHANGED <<disk, view, win, fs, pc, arg, locks, spent, acked>>

Fresh == view' = [fat |-> disk.fat, dir |-> disk.dir] /\ locks' = {} /\ fil' = NoFile

\* f_mount with the same or another FATFS object.
Mount ==
    /\ pc = "ready" /\ Fresh
    /\ fs' = [mounted |-> TRUE, free |-> disk.free, last |-> disk.last, flag |-> 0]
    /\ win' = [at |-> InfoSector, dirty |-> FALSE]
    /\ clean' = (clean /\ fil = NoFile)
    /\ UNCHANGED <<disk, pc, arg, spent, acked>>

PowerLoss ==
    /\ losses < MaxLosses /\ losses' = losses + 1 /\ clean' = FALSE
    /\ Fresh /\ Return /\ fs' = [mounted |-> FALSE, free |-> NoCount, last |-> 0, flag |-> 0]
    /\ win' = [at |-> NoSector, dirty |-> FALSE]
    /\ UNCHANGED <<disk, opens, errors, acked>>
-----------------------------------------------------------------------------
Step ==
    \/ Flush \/ Locked \/ Clear \/ Free \/ Reopen \/ Find \/ Seek
    \/ Grow \/ Link \/ Spill \/ Data \/ Entry \/ Dir \/ Info

Next ==
    \/ Step \/ Fail \/ Forget \/ Mount \/ PowerLoss \/ WriteCall \/ CloseCall
    \/ \E f \in Files, m \in {"create", "append"} : OpenCall(f, m)

\* A call that has begun goes on.
Spec == Init /\ [][Next]_vars /\ WF_vars(Step)
-----------------------------------------------------------------------------
FatOK(t) ==
    /\ t.fat \in [Cluster -> 0..EOC]
    /\ t.dir \in [Files -> [there : BOOLEAN, start : 0..Last,
                            size : 0..(Clusters * SectorUnits)]]

TypeOK ==
    /\ FatOK(disk) /\ FatOK(view) /\ disk.data \in [Cluster -> Sector]
    /\ disk.free \in 0..NoCount /\ disk.last \in 0..Last
    /\ win \in [at : -3..FatSector(Last), dirty : BOOLEAN]
    /\ fs \in [mounted : BOOLEAN, free : 0..NoCount, last : 0..Last, flag : 0..1]
    /\ fil.file \in Files \cup {Nobody} /\ fil.buf \in Sector
    /\ fil.bad \in {"no", "write", "close"} /\ Len(fil.text) = fil.size
    /\ pc \in {"ready", "find", "free", "reopen", "seek", "grow", "link",
               "spill", "data", "entry", "dir", "info"}
    /\ locks \in SUBSET Files /\ clean \in BOOLEAN
    /\ opens \in 0..MaxOpens /\ errors \in 0..MaxErrors /\ losses \in 0..MaxLosses
    /\ DOMAIN acked = Files

\* The clusters of a chain.
Chain(fat, start) ==
    {Walk(fat, start)[n] : n \in 0..Clusters} \cap Cluster

\* On the card and through the window, whatever has failed: the chain of a file
\* ends, is long enough for its size, and shares no cluster with another's.
ChainsApart ==
    \A t \in {disk, view}, f \in Files :
        LET e == t.dir[f]
            own == Chain(t.fat, e.start)
        IN  /\ e.start # 0 => Walk(t.fat, e.start)[Clusters] = EOC
            /\ e.size =< SectorUnits * Cardinality(own)
            /\ \A g \in Files \ {f} : own \cap Chain(t.fat, t.dir[g].start) = {}

\* What a close that returned FR_OK has reported stays on the card, until the
\* file is created anew or its next close begins, through failures and losses
\* of power, and whatever is done to other files ("Flush cached data",
\* "Restore it to the directory").
AckedIsDurable ==
    \A f \in Files : acked[f] # Unsettled => OnDisk(f) = acked[f]

Used(t) == {c \in Cluster : t.fat[c] # 0}
Held(t) == UNION {Chain(t.fat, t.dir[f].start) : f \in Files}

\* As long as nothing has failed or been cut off: free_clst, which f_write
\* trusts to tell a full card, counts the free clusters, and so does FSINFO ...
FreeCountRight ==
    clean /\ pc = "ready" /\ fil = NoFile =>
        /\ fs.mounted => fs.free = Clusters - Cardinality(Used(view))
        /\ disk.free = Clusters - Cardinality(Used(disk))

\* ... and every used cluster belongs to a file.
NothingLost ==
    clean /\ pc = "ready" /\ fil = NoFile => Used(disk) = Held(disk)

\* Every call of FatFs returns: the loops over chains and over the FAT end.
CallReturns == pc # "ready" ~> pc = "ready"

\* FatVolume implements FileStore: whatever the power loss cuts off, a file
\* holds its old text, none, or what its writer had written at the close.
Store == INSTANCE FileStore WITH
    durable <- [f \in Files |-> OnDisk(f)],
    asked <- [f \in Files |-> AsSeen(f)],
    writer <- fil.file,
    text <- fil.text

StoreSpec == Store!Spec
=============================================================================
