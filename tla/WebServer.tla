----------------------------- MODULE WebServer -----------------------------
(* The HTTP server of webserver.c: three lwIP raw-API callbacks (accept,     *)
(* recv, and the sending they end in) over ONE state record that all         *)
(* connections share.  lwIP runs the callbacks one at a time; the clients    *)
(* and the network interleave with them.  Segments are whole requests, pages *)
(* are names; rendering a page is one step.                                  *)
EXTENDS Naturals, Sequences, FiniteSets, SequencesExt

CONSTANTS
    Conns,     \* TCP connections, each opened at most once
    Requests,  \* what clients may send: [verb, path, whole]
    MaxOpen,   \* connections the clients hold open at a time
    Patient,   \* whether clients wait for an answer before asking or closing
    Copies,    \* whether tcp_write copies (LWIP_NETIF_TX_SINGLE_PBUF)
    MaxPcbs,   \* MEMP_NUM_TCP_PCB, the connections lwIP has room for
    Window,    \* requests that fill the receive window (TCP_WND)
    Room,      \* full segments tcp_write can hold until they are acknowledged
    Segments,  \* a page's size in segments
    MaxAsks,   \* bound: requests a client sends on a connection
    NoConn,    \* the value of client_pcb before the first accept
    Junk       \* what an uninitialised pointer renders

Pages == {"page1", "page2"}          \* the sets get_data_sd builds from the log
Known == Pages \cup {"alert", "root"}
Strange == {"page0", "page9", "icon"} \* paths no branch of send_data renders
Paths == Known \cup Strange

Contents == (Known \ {"root"}) \cup {Junk, ""}

ASSUME WebAssumption ==
    /\ IsFiniteSet(Conns) /\ NoConn \notin Conns
    /\ Requests \subseteq [verb : {"GET", "POST"}, path : Paths, whole : BOOLEAN]
    /\ {MaxOpen, MaxPcbs, Window, MaxAsks} \subseteq Nat \ {0}
    /\ Patient \in BOOLEAN /\ Copies \in BOOLEAN
    /\ Room \in Nat /\ Segments \in [Contents -> Nat \ {0}]
    /\ Junk \notin Paths \cup {""}

VARIABLES
    conn,        \* the client's end: "none", "open", "closed" (FIN sent) or "reset"
    asked,       \* requests the client has sent, in order
    got,         \* pages the client has received, in order
    wire,        \* requests on the way to the server
    pcb,         \* lwIP's end: "none", "open", "closeWait" or "free" again
    refused,     \* the segment recv refused, which lwIP keeps to offer again
    credit,      \* room left in the receive window
    sndq,        \* pages queued by tcp_write and not yet received
    dropped,     \* history: connections tcp_write had no room to queue a page for
    client_pcb, recv_path, send_data,   \* HTTP_SERVER_T
    halted       \* the core has faulted

state == <<client_pcb, recv_path, send_data>>
client == <<conn, asked, got>>
vars == <<client, wire, pcb, refused, credit, sndq, dropped, state, halted>>

TypeOK ==
    /\ conn \in [Conns -> {"none", "open", "closed", "reset"}]
    /\ pcb \in [Conns -> {"none", "open", "closeWait", "free"}]
    /\ \A c \in Conns :
        /\ asked[c] \in Seq(Requests) /\ Len(asked[c]) <= MaxAsks
        /\ wire[c] \in Seq(Requests) /\ refused[c] \in Seq(Requests)
        /\ Len(refused[c]) <= 1
        /\ got[c] \in Seq(Contents) /\ sndq[c] \in Seq(Contents)
    /\ credit \in [Conns -> 0..Window] /\ dropped \subseteq Conns
    /\ client_pcb \in Conns \cup {NoConn}
    /\ recv_path \in Paths \cup {""}
    /\ send_data \in Contents
    /\ halted \in BOOLEAN

\* http_server_init: one zeroed record, listening on port 80.
Init ==
    /\ conn = [c \in Conns |-> "none"] /\ pcb = [c \in Conns |-> "none"]
    /\ asked = [c \in Conns |-> <<>>] /\ got = [c \in Conns |-> <<>>]
    /\ wire = [c \in Conns |-> <<>>] /\ refused = [c \in Conns |-> <<>>]
    /\ credit = [c \in Conns |-> Window]
    /\ sndq = [c \in Conns |-> <<>>] /\ dropped = {}
    /\ client_pcb = NoConn /\ recv_path = "" /\ send_data = ""
    /\ halted = FALSE

InUse == {c \in Conns : pcb[c] \in {"open", "closeWait"}}
Answered(c) == Len(got[c]) >= Len(asked[c])

\* How many requests or pages there are over all connections.
Places(f) == UNION {{c} \X DOMAIN f[c] : c \in Conns}
Total(f) == Cardinality(Places(f))

(***************************************************************************)
(* The clients.                                                            *)
(***************************************************************************)
Ask(c, r) ==
    /\ conn[c] = "open"
    /\ Len(asked[c]) < MaxAsks /\ Len(wire[c]) < credit[c]
    /\ Patient => Answered(c)
    /\ asked' = [asked EXCEPT ![c] = Append(@, r)]
    /\ wire' = [wire EXCEPT ![c] = Append(@, r)]
    /\ UNCHANGED <<conn, got, pcb, refused, credit, sndq, dropped, state, halted>>

Close(c) ==
    /\ conn[c] = "open"
    /\ Patient => Answered(c)
    /\ conn' = [conn EXCEPT ![c] = "closed"]
    /\ UNCHANGED <<asked, got, wire, pcb, refused, credit, sndq, dropped, state, halted>>

\* A client goes away with a reset: lwIP frees the pcb and, as no tcp_err
\* callback is registered, the server is not told.
Reset(c) ==
    /\ conn[c] = "open" /\ ~Patient
    /\ conn' = [conn EXCEPT ![c] = "reset"]
    /\ pcb' = [pcb EXCEPT ![c] = "free"]
    /\ wire' = [wire EXCEPT ![c] = <<>>]
    /\ refused' = [refused EXCEPT ![c] = <<>>]
    /\ sndq' = [sndq EXCEPT ![c] = <<>>]
    /\ UNCHANGED <<asked, got, credit, dropped, state, halted>>

(***************************************************************************)
(* The callbacks.                                                          *)
(***************************************************************************)
\* Mutant: the record keeps its first client.
FirstClientOnly(c) ==
    /\ ~halted /\ conn[c] = "none"
    /\ Cardinality({d \in Conns : conn[d] = "open"}) < MaxOpen
    /\ Cardinality(InUse) < MaxPcbs
    /\ conn' = [conn EXCEPT ![c] = "open"]
    /\ pcb' = [pcb EXCEPT ![c] = "open"]
    /\ client_pcb' = IF client_pcb = NoConn THEN c ELSE client_pcb
    /\ UNCHANGED <<asked, got, wire, refused, credit, sndq, dropped, recv_path, send_data, halted>>

\* A handshake completes and http_server_accept runs: the connection becomes
\* the record's client, whatever it was before.
Accept(c) ==
    /\ ~halted /\ conn[c] = "none"
    /\ Cardinality({d \in Conns : conn[d] = "open"}) < MaxOpen
    /\ Cardinality(InUse) < MaxPcbs
    /\ conn' = [conn EXCEPT ![c] = "open"]
    /\ pcb' = [pcb EXCEPT ![c] = "open"]
    /\ client_pcb' = c
    /\ UNCHANGED <<asked, got, wire, refused, credit, sndq, dropped, recv_path, send_data, halted>>

\* What response_data may be for a path.  The branches are the root (page 1),
\* a page number, and the alerts.  A number outside the sets indexes
\* sets_array outside them, any other path leaves response_data unassigned:
\* an arbitrary pointer, which renders junk or faults.
Rendered(path) ==
    CASE path = "root" -> {"page1"}
      [] path \in Pages \cup {"alert"} -> {path}
      [] OTHER -> {Junk, "fault"}

\* How many segments the pages at some places of sndq or got make.
SegmentsAt(f, places) ==
    Cardinality(UNION {{p} \X (1..Segments[f[p[1]][p[2]]]) : p \in places})

\* tcp_write copies into full segments from one heap that all connections
\* share; without the copy each connection's send buffer is the limit.
Sharing == IF Copies THEN InUse ELSE {client_pcb}
Waiting == SegmentsAt(sndq, {p \in Places(sndq) : p[1] \in Sharing})

\* A page that was received keeps its segments until its acknowledgement has
\* come: at the latest with the next thing a client sends that waits for its
\* answers.
Acked(c) ==
    IF ~Patient THEN 0
    ELSE Len(asked[c]) - Len(wire'[c]) - (IF pcb[c] = "closeWait" THEN 0 ELSE 1)
Late == SegmentsAt(got, {p \in Places(got) : p[1] \in Sharing /\ p[2] > Acked(p[1])})

MayFit(page) == Waiting + Segments[page] <= Room
MustFit(page) == Waiting + Late + Segments[page] <= Room

\* A page behind one that may still wait to be sent may find room in its tail.
MayBeSqueezedIn == sndq[client_pcb] # <<>>

\* tcp_write on the record's client: the page is queued whole, or not at all
\* (ERR_MEM; ERR_CONN on a freed pcb).
TcpWrite(page) ==
    \/ client_pcb \notin InUse /\ UNCHANGED <<sndq, dropped>>
    \/ /\ client_pcb \in InUse /\ (MayFit(page) \/ MayBeSqueezedIn)
       /\ sndq' = [sndq EXCEPT ![client_pcb] = Append(@, page)] /\ UNCHANGED dropped
    \/ /\ client_pcb \in InUse /\ ~MustFit(page)
       /\ dropped' = dropped \cup {client_pcb} /\ UNCHANGED sndq

\* http_server_send_data: the page is formatted into the shared send_data and
\* given to tcp_write, whose result nobody looks at.
SendData(path) ==
    \E page \in Rendered(path) :
        IF page = "fault"
        THEN halted' = TRUE /\ UNCHANGED <<sndq, dropped, send_data>>
        ELSE send_data' = page /\ TcpWrite(page) /\ UNCHANGED halted

\* Mutants of recv.  A new path is only stored when none is held:
KeepPath(c, r) ==
    IF r.verb = "GET" /\ ~r.whole
    THEN /\ refused' = [refused EXCEPT ![c] = <<r>>]
         /\ UNCHANGED <<sndq, dropped, recv_path, send_data, halted>>
    ELSE /\ recv_path' = IF recv_path = "" THEN r.path ELSE recv_path
         /\ refused' = [refused EXCEPT ![c] = <<>>]
         /\ SendData(recv_path')

\* a refused segment is kept twice:
KeepTwice(c, r) ==
    IF r.verb = "GET" /\ ~r.whole
    THEN /\ refused' = [refused EXCEPT ![c] = Append(@, r)]
         /\ UNCHANGED <<sndq, dropped, recv_path, send_data, halted>>
    ELSE /\ recv_path' = IF r.verb = "GET" THEN r.path ELSE recv_path
         /\ refused' = [refused EXCEPT ![c] = <<>>]
         /\ SendData(recv_path')

\* an incomplete request is refused and answered all the same:
AnswerRefused(c, r) ==
    /\ recv_path' = IF r.verb = "GET" THEN r.path ELSE recv_path
    /\ refused' = [refused EXCEPT ![c] = IF r.whole THEN <<>> ELSE <<r>>]
    /\ SendData(recv_path')

\* a request without a path is answered with the default page:
DefaultPath(c, r) ==
    /\ recv_path' = IF r.verb = "GET" /\ r.whole THEN r.path ELSE "page2"
    /\ refused' = [refused EXCEPT ![c] = <<>>]
    /\ SendData(recv_path')

\* a GET for the path already held is not answered again:
SkipRepeated(c, r) ==
    IF r.verb = "GET" /\ (~r.whole \/ r.path = recv_path)
    THEN /\ refused' = [refused EXCEPT ![c] = IF r.whole THEN <<>> ELSE <<r>>]
         /\ UNCHANGED <<sndq, dropped, recv_path, send_data, halted>>
    ELSE /\ recv_path' = IF r.verb = "GET" THEN r.path ELSE recv_path
         /\ refused' = [refused EXCEPT ![c] = <<>>]
         /\ SendData(recv_path')

\* http_server_recv with a segment, on connection c.  A GET without the end
\* of its path is refused; every other segment is answered, one that is no
\* GET with the path of the last GET of any connection.
Recv(c, r) ==
    IF r.verb = "GET" /\ ~r.whole
    THEN /\ refused' = [refused EXCEPT ![c] = <<r>>]
         /\ UNCHANGED <<sndq, dropped, recv_path, send_data, halted>>
    ELSE /\ recv_path' = IF r.verb = "GET" THEN r.path ELSE recv_path
         /\ refused' = [refused EXCEPT ![c] = <<>>]
         /\ SendData(recv_path')

\* lwIP takes the room out of the window and calls recv; nothing gives it back.
Deliver(c) ==
    /\ ~halted /\ pcb[c] = "open" /\ wire[c] # <<>> /\ refused[c] = <<>>
    /\ wire' = [wire EXCEPT ![c] = Tail(@)]
    /\ credit' = [credit EXCEPT ![c] = @ - 1]
    /\ Recv(c, Head(wire[c]))
    /\ UNCHANGED <<client, pcb, client_pcb>>

\* tcp_process_refused_data, from the fast timer.
Redeliver(c) ==
    /\ ~halted /\ pcb[c] = "open" /\ refused[c] # <<>>
    /\ UNCHANGED <<client, wire, pcb, credit, client_pcb>>
    /\ Recv(c, Head(refused[c]))

\* The client's FIN arrives and recv is called without a segment: it returns
\* ERR_VAL and closes nothing.
RecvFin(c) ==
    /\ ~halted /\ pcb[c] = "open" /\ conn[c] = "closed"
    /\ wire[c] = <<>> /\ refused[c] = <<>>
    /\ pcb' = [pcb EXCEPT ![c] = "closeWait"]
    /\ UNCHANGED <<client, wire, refused, credit, sndq, dropped, state, halted>>

(***************************************************************************)
(* The network: a queued page reaches its client.  Without a copy, what is   *)
(* sent, or sent again after a loss, is what send_data holds by then.        *)
(***************************************************************************)
Receive(c) ==
    /\ ~halted /\ sndq[c] # <<>>
    /\ sndq' = [sndq EXCEPT ![c] = Tail(@)]
    /\ got' = [got EXCEPT ![c] = Append(@, IF Copies THEN Head(sndq[c]) ELSE send_data)]
    /\ UNCHANGED <<conn, asked, wire, pcb, refused, credit, dropped, state, halted>>

Client == \E c \in Conns : Close(c) \/ Reset(c) \/ \E r \in Requests : Ask(c, r)
Lwip == \E c \in Conns :
    Accept(c) \/ Deliver(c) \/ Redeliver(c) \/ RecvFin(c) \/ Receive(c)
Next == Client \/ Lwip

Spec == Init /\ [][Next]_vars

\* lwIP polls its input and its timers, and TCP delivers.  No client need
\* connect, ask or close.
Fairness == \A c \in Conns :
    /\ WF_vars(Deliver(c)) /\ WF_vars(Redeliver(c)) /\ WF_vars(RecvFin(c))
    /\ WF_vars(Receive(c))

FairSpec == Spec /\ Fairness

(***************************************************************************)
(* Properties.                                                             *)
(***************************************************************************)
\* The page a request asks for.
Wanted(r) == IF r.path = "root" THEN "page1" ELSE r.path

\* A client receives the pages it asked for, in the order it asked, and
\* nothing else: the shared recv_path, send_data and client_pcb never mix two
\* requests up (webserver.c:17-23, 293-330).
AnswersMatch == \A c \in Conns :
    /\ Len(got[c]) <= Len(asked[c])
    /\ \A i \in 1..Len(got[c]) : got[c][i] = Wanted(asked[c][i])

\* The server implements the service: every answer is the next one due on its
\* connection, and a client that stays is answered unless its page is more than
\* tcp_write can hold, or another client's pages may still be in its way.
Holdable(page) == Segments[page] <= Room
Service == INSTANCE HttpService WITH Page <- Wanted, Fits <- Holdable, lost <- dropped
ImplementsService == Service!Spec

\* No request is answered twice, neither one that lwIP offers again after a
\* refusal (318) nor one whose connection is gone.
AtMostOneAnswer ==
    Total(got) + Total(sndq) + Total(wire) + Total(refused) <= Total(asked)

\* Whatever connections and requests interleave, a page that goes out is one
\* that some client asked for.
PagesWereAsked == \A c \in Conns : \A p \in ToSet(got[c]) \ {Junk} :
    \E d \in Conns : \E r \in ToSet(asked[d]) : r.verb = "GET" /\ Wanted(r) = p

\* The connection accepted last is answered as often as it asked, as long as
\* it is the last one and stays, all its requests are whole ones, tcp_write had
\* room for its pages, and nothing has faulted.
LatestIsAnswered == \A c \in Conns : \A n \in 1..MaxAsks :
    (client_pcb = c /\ Len(asked[c]) = n /\ \A r \in ToSet(asked[c]) : r.whole)
        ~> \/ Len(got[c]) >= n
           \/ client_pcb # c \/ conn[c] # "open" \/ halted
           \/ c \in dropped \/ \E r \in ToSet(asked[c]) : ~r.whole

\* What tcp_write had no room for is tried again when some of what is queued
\* has been received (tcp_out.c:377-379): the client gets its page.
FullIsRetried == \A c \in Conns :
    (c \in dropped) ~> (conn[c] # "open" \/ Answered(c))

\* What tcp_write was given reaches the client as it was (286).
WrittenIsSent == [][\A c \in Conns :
    Len(got'[c]) > Len(got[c]) => Last(got'[c]) = Head(sndq[c])]_vars

\* No path a browser can ask for makes the server read an unassigned pointer
\* (the shipped page links favicon.ico, and Previous on page 1 links page_0).
NoUndefinedPage == ~halted /\ send_data # Junk

\* When every client has gone, the server can take a new connection again.
PortReopens ==
    (\A c \in Conns : conn[c] # "open")
        ~> (Cardinality(InUse) < MaxPcbs \/ \E c \in Conns : conn[c] = "open")

\* A connection whose requests have all been answered can carry another one.
WindowReopens == \A c \in Conns :
    (conn[c] = "open" /\ credit[c] = 0) ~> (conn[c] # "open" \/ credit[c] > 0)
=============================================================================
