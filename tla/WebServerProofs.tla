-------------------------- MODULE WebServerProofs --------------------------
(* What WebServer guarantees for any number of connections, requests and     *)
(* pcbs: types; that no page comes from nowhere; that no request is answered *)
(* twice; and that, with one patient client at a time, the server implements *)
(* HttpService.                                                              *)
EXTENDS WebServer, SequenceTheorems, FunctionTheorems, FiniteSetTheorems, TLAPS

\* TypeOK with every sequence where it belongs; what is on the way to the
\* server fits the window.
Types ==
    /\ conn \in [Conns -> {"none", "open", "closed", "reset"}]
    /\ pcb \in [Conns -> {"none", "open", "closeWait", "free"}]
    /\ asked \in [Conns -> Seq(Requests)] /\ wire \in [Conns -> Seq(Requests)]
    /\ refused \in [Conns -> Seq(Requests)]
    /\ got \in [Conns -> Seq(Contents)] /\ sndq \in [Conns -> Seq(Contents)]
    /\ credit \in [Conns -> 0..Window] /\ dropped \subseteq Conns
    /\ client_pcb \in Conns \cup {NoConn}
    /\ recv_path \in Paths \cup {""}
    /\ send_data \in Contents
    /\ halted \in BOOLEAN
    /\ \A c \in Conns : Len(asked[c]) <= MaxAsks /\ Len(refused[c]) <= 1
                        /\ Len(wire[c]) <= credit[c]
-----------------------------------------------------------------------------
LEMMA Assumed ==
    /\ IsFiniteSet(Conns) /\ NoConn \notin Conns /\ Junk \notin Paths \cup {""}
    /\ MaxOpen \in Nat /\ Window \in Nat /\ MaxAsks \in Nat
    /\ Requests \subseteq [verb : {"GET", "POST"}, path : Paths, whole : BOOLEAN]
    BY WebAssumption

LEMMA Path == \A r \in Requests : r.path \in Paths
    BY Assumed

\* Sequences at work.
LEMMA AppendFacts ==
    ASSUME NEW S, NEW s \in Seq(S), NEW e \in S
    PROVE  /\ Append(s, e) \in Seq(S) /\ Len(Append(s, e)) = Len(s) + 1
           /\ \A i \in 1..Len(s) : Append(s, e)[i] = s[i]
           /\ Append(s, e)[Len(s) + 1] = e
    BY AppendProperties, LenProperties

LEMMA TailFacts ==
    ASSUME NEW S, NEW s \in Seq(S), s # <<>>
    PROVE  /\ Head(s) \in S /\ Head(s) = s[1] /\ Tail(s) \in Seq(S)
           /\ Len(s) \in Nat \ {0} /\ Len(Tail(s)) = Len(s) - 1
           /\ \A i \in 1..Len(s) - 1 : Tail(s)[i] = s[i + 1]
    BY HeadTailProperties, EmptySeq, LenProperties

LEMMA OneFacts ==
    ASSUME NEW S, NEW e \in S
    PROVE  <<e>> \in Seq(S) /\ Len(<<e>>) = 1 /\ <<e>>[1] = e
    OBVIOUS

LEMMA Bounds == MaxOpen \in Nat /\ Window \in Nat /\ MaxAsks \in Nat
    BY Assumed

\* The parts of Types at one connection.
LEMMA At ==
    ASSUME Types, NEW c \in Conns
    PROVE  /\ asked[c] \in Seq(Requests) /\ wire[c] \in Seq(Requests)
           /\ refused[c] \in Seq(Requests)
           /\ got[c] \in Seq(Contents) /\ sndq[c] \in Seq(Contents)
           /\ Len(asked[c]) \in Nat /\ Len(wire[c]) \in Nat /\ credit[c] \in Nat
           /\ Len(refused[c]) \in Nat /\ Len(got[c]) \in Nat /\ Len(sndq[c]) \in Nat
<1>1. /\ asked[c] \in Seq(Requests) /\ wire[c] \in Seq(Requests)
      /\ refused[c] \in Seq(Requests)
      /\ got[c] \in Seq(Contents) /\ sndq[c] \in Seq(Contents)
      /\ credit[c] \in 0..Window
    BY DEF Types
<1>2. credit[c] \in Nat
    BY <1>1, Bounds
<1> QED BY <1>1, <1>2, LenProperties

\* What a path renders (188-260).
LEMMA Renders ==
    ASSUME NEW path \in Paths \cup {""}
    PROVE  Rendered(path) \subseteq Contents \cup {"fault"}
    BY DEF Rendered, Contents, Paths, Known, Pages, Strange

\* A page is queued for the record's client, or left out.
LEMMA Written ==
    ASSUME Types, NEW page, TcpWrite(page)
    PROVE  /\ dropped' \subseteq Conns
           /\ \/ sndq' = sndq
              \/ client_pcb \in Conns /\ sndq' = [sndq EXCEPT ![client_pcb] = Append(@, page)]
    BY DEF TcpWrite, InUse, Types

\* What http_server_send_data leaves behind.
LEMMA Sent ==
    ASSUME Types, NEW path \in Paths \cup {""}, SendData(path)
    PROVE  /\ send_data' \in Contents /\ halted' \in BOOLEAN
           /\ sndq' \in [Conns -> Seq(Contents)] /\ dropped' \subseteq Conns
<1>1. PICK page \in Rendered(path) :
        IF page = "fault"
        THEN halted' = TRUE /\ UNCHANGED <<sndq, dropped, send_data>>
        ELSE send_data' = page /\ TcpWrite(page) /\ UNCHANGED halted
    BY DEF SendData
<1>2. page \in Contents \cup {"fault"}
    BY Renders
<1>3. CASE page = "fault"
    BY <1>1, <1>3 DEF Types
<1>4. CASE page # "fault"
    <2>1. page \in Contents
        BY <1>2, <1>4
    <2>2. \A c \in Conns : Append(sndq[c], page) \in Seq(Contents)
        BY <2>1, AppendFacts DEF Types
    <2>3. sndq' \in [Conns -> Seq(Contents)] /\ dropped' \subseteq Conns
        <3>1. CASE sndq' = sndq
            BY <1>1, <1>4, <3>1, Written DEF Types
        <3>2. CASE sndq' # sndq
            <4>1. /\ client_pcb \in Conns /\ sndq' = [sndq EXCEPT ![client_pcb] = Append(@, page)]
                  /\ dropped' \subseteq Conns
                BY <1>1, <1>4, <3>2, Written
            <4> QED BY <2>2, <4>1 DEF Types
        <3> QED BY <3>1, <3>2
    <2> QED BY <1>1, <1>4, <2>1, <2>3 DEF Types
<1> QED BY <1>3, <1>4

\* What http_server_recv leaves behind of segment r.
LEMMA Received ==
    ASSUME Types, NEW c \in Conns, NEW r \in Requests, Recv(c, r)
    PROVE  /\ send_data' \in Contents /\ halted' \in BOOLEAN
           /\ sndq' \in [Conns -> Seq(Contents)] /\ dropped' \subseteq Conns
           /\ recv_path' \in Paths \cup {""}
           /\ refused' \in [Conns -> Seq(Requests)]
           /\ \A d \in Conns : Len(refused'[d]) <= 1
<1>0. <<r>> \in Seq(Requests) /\ Len(<<r>>) = 1
      /\ <<>> \in Seq(Requests) /\ Len(<<>>) = 0
    BY OneFacts, EmptySeq
<1>1. CASE r.verb = "GET" /\ ~r.whole
    <2>1. /\ refused' = [refused EXCEPT ![c] = <<r>>]
          /\ UNCHANGED <<sndq, dropped, recv_path, send_data, halted>>
        BY <1>1 DEF Recv
    <2>2. refused' \in [Conns -> Seq(Requests)]
        BY <2>1, <1>0 DEF Types
    <2>3. \A d \in Conns : refused'[d] = IF d = c THEN <<r>> ELSE refused[d]
        BY <2>1 DEF Types
    <2>4. ASSUME NEW d \in Conns PROVE Len(refused'[d]) <= 1
        <3>1. CASE d = c
            <4>1. refused'[d] = <<r>>
                BY <2>3, <3>1
            <4>2. Len(refused'[d]) = Len(<<r>>)
                BY <4>1
            <4> QED BY <1>0, <4>2
        <3>2. CASE d # c
            <4>1. refused'[d] = refused[d]
                BY <2>3, <3>2
            <4> QED BY <4>1 DEF Types
        <3> QED BY <3>1, <3>2
    <2> QED BY <2>1, <2>2, <2>4 DEF Types
<1>2. CASE ~(r.verb = "GET" /\ ~r.whole)
    <2>1. /\ recv_path' = IF r.verb = "GET" THEN r.path ELSE recv_path
          /\ refused' = [refused EXCEPT ![c] = <<>>]
          /\ SendData(recv_path')
        BY <1>2 DEF Recv
    <2>2. recv_path' \in Paths \cup {""}
        BY <2>1, Path DEF Types
    <2>3. /\ send_data' \in Contents /\ halted' \in BOOLEAN
          /\ sndq' \in [Conns -> Seq(Contents)] /\ dropped' \subseteq Conns
        BY <2>1, <2>2, Sent
    <2>4. refused' \in [Conns -> Seq(Requests)]
        BY <1>0, <2>1 DEF Types
    <2>5. \A d \in Conns : refused'[d] = IF d = c THEN <<>> ELSE refused[d]
        BY <2>1 DEF Types
    <2>6. ASSUME NEW d \in Conns PROVE Len(refused'[d]) <= 1
        <3>1. CASE d = c
            <4>1. refused'[d] = <<>>
                BY <2>5, <3>1
            <4>2. Len(refused'[d]) = Len(<<>>)
                BY <4>1
            <4> QED BY <1>0, <4>2
        <3>2. CASE d # c
            <4>1. refused'[d] = refused[d]
                BY <2>5, <3>2
            <4> QED BY <4>1 DEF Types
        <3> QED BY <3>1, <3>2
    <2> QED BY <2>2, <2>3, <2>4, <2>6
<1> QED BY <1>1, <1>2
-----------------------------------------------------------------------------
LEMMA TypesInit == Init => Types
<1> SUFFICES ASSUME Init PROVE Types
    OBVIOUS
<1>1. <<>> \in Seq(Requests) /\ <<>> \in Seq(Contents) /\ Len(<<>>) = 0
    BY EmptySeq
<1>2. Window \in 0..Window /\ "" \in Contents
    <2>1. Window \in 0..Window
        BY Bounds
    <2> QED BY <2>1 DEF Contents
<1>3. \A c \in Conns : asked[c] = <<>> /\ wire[c] = <<>> /\ refused[c] = <<>> /\ credit[c] = Window
    BY DEF Init
<1>4. \A c \in Conns : Len(asked[c]) = 0 /\ Len(wire[c]) = 0 /\ Len(refused[c]) = 0
    BY <1>1, <1>3
<1>5. \A c \in Conns : Len(asked[c]) <= MaxAsks /\ Len(refused[c]) <= 1 /\ Len(wire[c]) <= credit[c]
    BY <1>3, <1>4, Bounds
<1> QED BY <1>1, <1>2, <1>5 DEF Init, Types

\* One lemma per action.
LEMMA TypesAsk ==
    ASSUME Types, NEW c \in Conns, NEW r \in Requests, Ask(c, r)
    PROVE  Types'
<1>1. /\ Append(asked[c], r) \in Seq(Requests) /\ Len(Append(asked[c], r)) = Len(asked[c]) + 1
      /\ Append(wire[c], r) \in Seq(Requests) /\ Len(Append(wire[c], r)) = Len(wire[c]) + 1
    BY At, AppendFacts
<1>2. Len(asked[c]) \in Nat /\ Len(wire[c]) \in Nat /\ credit[c] \in Nat /\ MaxAsks \in Nat
    BY At, Bounds
<1>3. Len(asked[c]) + 1 <= MaxAsks /\ Len(wire[c]) + 1 <= credit[c]
    BY <1>2 DEF Ask
<1>4. /\ asked' = [asked EXCEPT ![c] = Append(asked[c], r)]
      /\ wire' = [wire EXCEPT ![c] = Append(wire[c], r)]
      /\ UNCHANGED <<conn, got, pcb, refused, credit, sndq, dropped, client_pcb, recv_path, send_data, halted>>
    BY DEF Ask, state
<1>5. asked' \in [Conns -> Seq(Requests)] /\ wire' \in [Conns -> Seq(Requests)]
    BY <1>1, <1>4 DEF Types
<1>6. ASSUME NEW d \in Conns
      PROVE  Len(asked'[d]) <= MaxAsks /\ Len(refused'[d]) <= 1 /\ Len(wire'[d]) <= credit'[d]
    <2>1. CASE d = c
        <3>1. asked'[d] = Append(asked[c], r) /\ wire'[d] = Append(wire[c], r)
            BY <1>4, <2>1 DEF Types
        <3>2. Len(asked'[d]) = Len(asked[c]) + 1 /\ Len(wire'[d]) = Len(wire[c]) + 1
            BY <1>1, <3>1
        <3> QED BY <1>3, <1>4, <2>1, <3>2 DEF Types
    <2>2. CASE d # c
        <3>1. asked'[d] = asked[d] /\ wire'[d] = wire[d]
            BY <1>4, <2>2 DEF Types
        <3> QED BY <1>4, <3>1 DEF Types
    <2> QED BY <2>1, <2>2
<1> QED BY <1>4, <1>5, <1>6 DEF Types

LEMMA TypesLeave ==
    ASSUME Types, NEW c \in Conns, Close(c) \/ Reset(c)
    PROVE  Types'
<1>1. <<>> \in Seq(Requests) /\ <<>> \in Seq(Contents) /\ Len(<<>>) = 0
    BY EmptySeq
<1>2. CASE Close(c)
    BY <1>2 DEF Close, Types, state
<1>3. CASE Reset(c)
    <2>1. /\ conn' = [conn EXCEPT ![c] = "reset"] /\ pcb' = [pcb EXCEPT ![c] = "free"]
          /\ wire' = [wire EXCEPT ![c] = <<>>] /\ refused' = [refused EXCEPT ![c] = <<>>]
          /\ sndq' = [sndq EXCEPT ![c] = <<>>]
          /\ UNCHANGED <<asked, got, credit, dropped, client_pcb, recv_path, send_data, halted>>
        BY <1>3 DEF Reset, state
    <2>2. /\ conn' \in [Conns -> {"none", "open", "closed", "reset"}]
          /\ pcb' \in [Conns -> {"none", "open", "closeWait", "free"}]
          /\ wire' \in [Conns -> Seq(Requests)] /\ refused' \in [Conns -> Seq(Requests)]
          /\ sndq' \in [Conns -> Seq(Contents)]
        BY <1>1, <2>1 DEF Types
    <2>3. ASSUME NEW d \in Conns
          PROVE  Len(refused'[d]) <= 1 /\ Len(wire'[d]) <= credit'[d]
        <3>1. CASE d = c
            <4>1. refused'[d] = <<>> /\ wire'[d] = <<>> /\ credit'[d] = credit[d]
                BY <2>1, <3>1 DEF Types
            <4>2. credit[d] \in Nat
                BY At
            <4> QED BY <1>1, <4>1, <4>2
        <3>2. CASE d # c
            <4>1. refused'[d] = refused[d] /\ wire'[d] = wire[d]
                BY <2>1, <3>2 DEF Types
            <4> QED BY <2>1, <4>1 DEF Types
        <3> QED BY <3>1, <3>2
    <2> QED BY <2>1, <2>2, <2>3 DEF Types
<1> QED BY <1>2, <1>3

LEMMA TypesAccept ==
    ASSUME Types, NEW c \in Conns, Accept(c) \/ RecvFin(c)
    PROVE  Types'
<1>1. CASE Accept(c)
    BY <1>1 DEF Accept, Types
<1>2. CASE RecvFin(c)
    BY <1>2 DEF RecvFin, Types, client, state
<1> QED BY <1>1, <1>2

LEMMA TypesDeliver ==
    ASSUME Types, NEW c \in Conns, Deliver(c)
    PROVE  Types'
<1>1. /\ Head(wire[c]) \in Requests /\ Tail(wire[c]) \in Seq(Requests)
      /\ Len(wire[c]) \in Nat \ {0} /\ Len(Tail(wire[c])) = Len(wire[c]) - 1
    BY TailFacts DEF Deliver, Types
<1>2. /\ wire' = [wire EXCEPT ![c] = Tail(wire[c])]
      /\ credit' = [credit EXCEPT ![c] = credit[c] - 1]
      /\ Recv(c, Head(wire[c]))
      /\ UNCHANGED <<conn, asked, got, pcb, client_pcb>>
    BY DEF Deliver, client
<1>3. credit[c] \in 0..Window /\ Window \in Nat /\ Len(wire[c]) <= credit[c]
    BY Assumed DEF Types
<1>4. credit[c] - 1 \in 0..Window /\ Len(wire[c]) - 1 <= credit[c] - 1
    BY <1>1, <1>3
<1>5. credit' \in [Conns -> 0..Window] /\ wire' \in [Conns -> Seq(Requests)]
    BY <1>1, <1>2, <1>4 DEF Types
<1>6. ASSUME NEW d \in Conns PROVE Len(wire'[d]) <= credit'[d]
    <2>1. CASE d = c
        <3>1. wire'[d] = Tail(wire[c]) /\ credit'[d] = credit[c] - 1
            BY <1>2, <2>1 DEF Types
        <3>2. Len(wire'[d]) = Len(wire[c]) - 1
            BY <1>1, <3>1
        <3> QED BY <1>4, <3>1, <3>2
    <2>2. CASE d # c
        <3>1. wire'[d] = wire[d] /\ credit'[d] = credit[d]
            BY <1>2, <2>2 DEF Types
        <3> QED BY <3>1 DEF Types
    <2> QED BY <2>1, <2>2
<1>7. /\ send_data' \in Contents /\ halted' \in BOOLEAN
      /\ sndq' \in [Conns -> Seq(Contents)] /\ dropped' \subseteq Conns
      /\ recv_path' \in Paths \cup {""}
      /\ refused' \in [Conns -> Seq(Requests)] /\ \A d \in Conns : Len(refused'[d]) <= 1
    BY <1>1, <1>2, Received
<1> QED BY <1>2, <1>5, <1>6, <1>7 DEF Types

LEMMA TypesRedeliver ==
    ASSUME Types, NEW c \in Conns, Redeliver(c)
    PROVE  Types'
<1>1. Head(refused[c]) \in Requests
    BY TailFacts DEF Redeliver, Types
<1>2. Recv(c, Head(refused[c])) /\ UNCHANGED <<conn, asked, got, wire, pcb, credit, client_pcb>>
    BY DEF Redeliver, client
<1>3. /\ send_data' \in Contents /\ halted' \in BOOLEAN
      /\ sndq' \in [Conns -> Seq(Contents)] /\ dropped' \subseteq Conns
      /\ recv_path' \in Paths \cup {""}
      /\ refused' \in [Conns -> Seq(Requests)] /\ \A d \in Conns : Len(refused'[d]) <= 1
    BY <1>1, <1>2, Received
<1> QED BY <1>2, <1>3 DEF Types

LEMMA TypesReceive ==
    ASSUME Types, NEW c \in Conns, Receive(c)
    PROVE  Types'
<1> DEFINE page == IF Copies THEN Head(sndq[c]) ELSE send_data
<1>1. Head(sndq[c]) \in Contents /\ Tail(sndq[c]) \in Seq(Contents)
    BY TailFacts DEF Receive, Types
<1>2. page \in Contents
    BY <1>1 DEF Types
<1>3. Append(got[c], page) \in Seq(Contents)
    BY <1>2, AppendFacts DEF Types
<1>4. /\ sndq' = [sndq EXCEPT ![c] = Tail(sndq[c])]
      /\ got' = [got EXCEPT ![c] = Append(got[c], page)]
      /\ UNCHANGED <<conn, asked, wire, pcb, refused, credit, dropped, client_pcb, recv_path, send_data, halted>>
    BY DEF Receive, state
<1> HIDE DEF page
<1>5. sndq' \in [Conns -> Seq(Contents)] /\ got' \in [Conns -> Seq(Contents)]
    BY <1>1, <1>3, <1>4 DEF Types
<1> QED BY <1>4, <1>5 DEF Types

LEMMA TypesStep == Types /\ [Next]_vars => Types'
<1> SUFFICES ASSUME Types, [Next]_vars PROVE Types'
    OBVIOUS
<1>1. CASE UNCHANGED vars
    BY <1>1 DEF Types, vars, client, state
<1>2. CASE \E c \in Conns : Close(c) \/ Reset(c)
    BY <1>2, TypesLeave
<1>3. CASE \E c \in Conns : \E r \in Requests : Ask(c, r)
    BY <1>3, TypesAsk
<1>4. CASE \E c \in Conns : Accept(c) \/ RecvFin(c)
    BY <1>4, TypesAccept
<1>5. CASE \E c \in Conns : Deliver(c)
    BY <1>5, TypesDeliver
<1>6. CASE \E c \in Conns : Redeliver(c)
    BY <1>6, TypesRedeliver
<1>7. CASE \E c \in Conns : Receive(c)
    BY <1>7, TypesReceive
<1> QED BY <1>1, <1>2, <1>3, <1>4, <1>5, <1>6, <1>7 DEF Next, Client, Lwip

LEMMA TypesAlways == Spec => []Types
    BY TypesInit, TypesStep, PTL DEF Spec

\* Types, and the room in the receive window, which never goes below zero.
THEOREM WebTypes == Spec => []TypeOK
<1>1. Types => TypeOK
    BY DEF Types, TypeOK
<1> QED BY <1>1, TypesAlways, PTL
-----------------------------------------------------------------------------
\* Where pages come from.
PathOf(p) == IF p = "root" THEN "page1" ELSE p
AskedIn(a, p) == \E d \in Conns : \E r \in ToSet(a[d]) : r.verb = "GET" /\ Wanted(r) = p
PathIn(a, p) == \E d \in Conns : \E r \in ToSet(a[d]) : r.verb = "GET" /\ r.path = p

\* What is on its way to the server was asked on its connection, the path the
\* record holds was asked on some connection, and so was every page but Junk.
OnTheWay == \A c \in Conns :
    /\ ToSet(wire[c]) \subseteq ToSet(asked[c])
    /\ ToSet(refused[c]) \subseteq ToSet(asked[c])
Held == recv_path = "" \/ PathIn(asked, recv_path)
Shown ==
    /\ send_data \in {"", Junk} \/ AskedIn(asked, send_data)
    /\ \A c \in Conns : sndq[c] # <<>> => send_data # ""
Queued == \A c \in Conns : \A p \in ToSet(sndq[c]) : p = Junk \/ AskedIn(asked, p)
Taken == \A c \in Conns : \A p \in ToSet(got[c]) : p = Junk \/ AskedIn(asked, p)

Origins == OnTheWay /\ Held /\ Shown /\ Queued /\ Taken

LEMMA AppendSet ==
    ASSUME NEW S, NEW s \in Seq(S), NEW e \in S
    PROVE  ToSet(Append(s, e)) = ToSet(s) \cup {e}
<1> DEFINE t == Append(s, e)
<1>1. /\ t \in Seq(S) /\ Len(t) = Len(s) + 1
      /\ \A i \in 1..Len(s) : t[i] = s[i]
      /\ t[Len(s) + 1] = e
    BY AppendFacts
<1>2. DOMAIN t = 1..Len(t) /\ DOMAIN s = 1..Len(s) /\ Len(s) \in Nat
    BY <1>1, LenProperties
<1> HIDE DEF t
<1>3. ASSUME NEW x \in ToSet(t) PROVE x \in ToSet(s) \cup {e}
    <2>1. PICK i \in 1..(Len(s) + 1) : x = t[i]
        BY <1>1, <1>2 DEF ToSet
    <2>2. i \in 1..Len(s) \/ i = Len(s) + 1
        BY <1>2, <2>1
    <2> QED BY <1>1, <1>2, <2>1, <2>2 DEF ToSet
<1>4. ASSUME NEW x \in ToSet(s) PROVE x \in ToSet(t)
    <2>1. PICK i \in 1..Len(s) : x = s[i]
        BY <1>2 DEF ToSet
    <2>2. i \in 1..Len(t) /\ x = t[i]
        BY <1>1, <1>2, <2>1
    <2> QED BY <1>2, <2>2 DEF ToSet
<1>5. e \in ToSet(t)
    <2>1. Len(t) \in 1..Len(t) /\ e = t[Len(t)]
        BY <1>1, <1>2
    <2> QED BY <1>2, <2>1 DEF ToSet
<1>6. ToSet(t) = ToSet(s) \cup {e}
    BY <1>3, <1>4, <1>5
<1> QED BY <1>6 DEF t

LEMMA SetFacts ==
    ASSUME NEW S, NEW s \in Seq(S), NEW e \in S
    PROVE  /\ ToSet(<<e>>) = {e} /\ ToSet(<<>>) = {}
           /\ s # <<>> => Head(s) \in ToSet(s) /\ ToSet(Tail(s)) \subseteq ToSet(s)
<1>1. ToSet(<<e>>) = {e} /\ ToSet(<<>>) = {}
    BY DEF ToSet
<1>2. ASSUME s # <<>> PROVE Head(s) \in ToSet(s) /\ ToSet(Tail(s)) \subseteq ToSet(s)
    <2>1. /\ Head(s) = s[1] /\ Tail(s) \in Seq(S)
          /\ Len(s) \in Nat \ {0} /\ Len(Tail(s)) = Len(s) - 1
          /\ \A i \in 1..Len(s) - 1 : Tail(s)[i] = s[i + 1]
        BY <1>2, TailFacts
    <2>2. DOMAIN s = 1..Len(s) /\ DOMAIN Tail(s) = 1..Len(s) - 1
        BY <2>1, LenProperties
    <2>3. Head(s) \in ToSet(s)
        BY <2>1, <2>2 DEF ToSet
    <2>4. \A i \in 1..Len(s) - 1 : i + 1 \in 1..Len(s)
        BY <2>1
    <2>5. ASSUME NEW x \in ToSet(Tail(s)) PROVE x \in ToSet(s)
        <3>1. PICK i \in 1..Len(s) - 1 : x = Tail(s)[i]
            BY <2>2 DEF ToSet
        <3>2. x = s[i + 1] /\ i + 1 \in DOMAIN s
            BY <2>1, <2>2, <2>4, <3>1
        <3> QED BY <3>2 DEF ToSet
    <2> QED BY <2>3, <2>5
<1> QED BY <1>1, <1>2

\* A path renders its page, an arbitrary one, or nothing (188-260).
LEMMA RendersOwn ==
    ASSUME NEW path \in Paths \cup {""}, NEW page \in Rendered(path)
    PROVE  page # "" /\ (page \in {Junk, "fault"} \/ (path # "" /\ page = PathOf(path)))
<1>1. Junk # ""
    BY Assumed
<1> QED BY <1>1 DEF Rendered, PathOf, Pages

\* Questions are only added.
LEMMA Later ==
    ASSUME NEW a, NEW b, \A d \in Conns : ToSet(a[d]) \subseteq ToSet(b[d])
    PROVE  /\ \A p : AskedIn(a, p) => AskedIn(b, p)
           /\ \A p : PathIn(a, p) => PathIn(b, p)
    BY DEF AskedIn, PathIn

LEMMA OriginsAsk ==
    ASSUME Types, Origins, NEW c \in Conns, NEW r \in Requests, Ask(c, r)
    PROVE  Origins'
<1>1. /\ asked' = [asked EXCEPT ![c] = Append(asked[c], r)]
      /\ wire' = [wire EXCEPT ![c] = Append(wire[c], r)]
      /\ UNCHANGED <<got, refused, sndq, recv_path, send_data>>
    BY DEF Ask, state
<1>2. ToSet(Append(asked[c], r)) = ToSet(asked[c]) \cup {r}
    BY At, AppendSet
<1>3. ToSet(Append(wire[c], r)) = ToSet(wire[c]) \cup {r}
    BY At, AppendSet
<1>4. \A d \in Conns :
        /\ asked'[d] = IF d = c THEN Append(asked[c], r) ELSE asked[d]
        /\ wire'[d] = IF d = c THEN Append(wire[c], r) ELSE wire[d]
    BY <1>1 DEF Types
<1>5. \A d \in Conns : ToSet(asked[d]) \subseteq ToSet(asked'[d])
    BY <1>2, <1>4
<1>6. /\ \A p : AskedIn(asked, p) => AskedIn(asked', p)
      /\ \A p : PathIn(asked, p) => PathIn(asked', p)
    BY ONLY <1>5, Later
<1>7. OnTheWay'
    <2>1. ASSUME NEW d \in Conns
          PROVE  /\ ToSet(wire'[d]) \subseteq ToSet(asked'[d])
                 /\ ToSet(refused'[d]) \subseteq ToSet(asked'[d])
        <3>1. ToSet(wire[d]) \subseteq ToSet(asked[d]) /\ ToSet(refused[d]) \subseteq ToSet(asked[d])
            BY DEF Origins, OnTheWay
        <3>2. CASE d = c
            BY <1>1, <1>2, <1>3, <1>4, <3>1, <3>2
        <3>3. CASE d # c
            BY <1>1, <1>4, <3>1, <3>3
        <3> QED BY <3>2, <3>3
    <2> QED BY <2>1 DEF OnTheWay
<1>8. Held' /\ Shown' /\ Queued' /\ Taken'
    BY <1>1, <1>6 DEF Origins, Held, Shown, Queued, Taken
<1> QED BY <1>7, <1>8 DEF Origins

LEMMA QueuedSet ==
    ASSUME Types, NEW c \in Conns, NEW p \in Contents
    PROVE  ToSet(Append(sndq[c], p)) = ToSet(sndq[c]) \cup {p}
<1>1. sndq[c] \in Seq(Contents)
    BY At
<1> QED BY ONLY <1>1, p \in Contents, AppendSet

\* http_server_send_data with a path that was asked for.
LEMMA OriginsSent ==
    ASSUME Types, Origins, NEW path \in Paths \cup {""}, SendData(path),
           path = "" \/ PathIn(asked, path), asked' = asked
    PROVE  Shown' /\ Queued'
<1>1. PICK page \in Rendered(path) :
        IF page = "fault"
        THEN halted' = TRUE /\ UNCHANGED <<sndq, dropped, send_data>>
        ELSE send_data' = page /\ TcpWrite(page) /\ UNCHANGED halted
    BY DEF SendData
<1>2. page # "" /\ (page \in {Junk, "fault"} \/ (path # "" /\ page = PathOf(path)))
    BY RendersOwn
<1>3. page \in Contents \cup {"fault"}
    BY Renders
<1>4. CASE page = "fault"
    BY <1>1, <1>4 DEF Origins, Shown, Queued
<1>5. CASE page # "fault"
    <2>1. PathIn(asked, path) => AskedIn(asked, PathOf(path))
        BY DEF PathIn, AskedIn, PathOf, Wanted
    <2>2. page = Junk \/ AskedIn(asked, page)
        BY <1>2, <1>5, <2>1
    <2>3. Shown'
        BY <1>1, <1>2, <1>5, <2>2 DEF Shown
    <2>4. ASSUME NEW c \in Conns, NEW p \in ToSet(sndq'[c])
          PROVE  p = Junk \/ AskedIn(asked, p)
        <3>1. CASE sndq'[c] = sndq[c]
            BY <2>4, <3>1 DEF Origins, Queued
        <3>2. CASE sndq'[c] # sndq[c]
            <4>0. sndq' = [sndq EXCEPT ![client_pcb] = Append(@, page)]
                BY <1>1, <1>5, <3>2, Written
            <4>1. sndq'[c] = Append(sndq[c], page)
                BY <3>2, <4>0 DEF Types
            <4>2. page \in Contents
                BY <1>3, <1>5
            <4>3. ToSet(sndq'[c]) = ToSet(sndq[c]) \cup {page}
                BY <4>1, <4>2, QueuedSet
            <4> QED BY <2>2, <2>4, <4>3 DEF Origins, Queued
        <3> QED BY <3>1, <3>2
    <2> QED BY <2>3, <2>4 DEF Queued
<1> QED BY <1>4, <1>5

\* http_server_recv with a segment that was asked for on its connection.
LEMMA OriginsReceived ==
    ASSUME Types, Origins, NEW c \in Conns, NEW r \in ToSet(asked[c]), Recv(c, r),
           asked' = asked
    PROVE  /\ Held' /\ Shown' /\ Queued'
           /\ \A d \in Conns : ToSet(refused'[d]) \subseteq ToSet(asked[d])
<1>1. r \in Requests
    BY At, LenProperties DEF ToSet
<1>2. ToSet(<<r>>) = {r} /\ ToSet(<<>>) = {}
    BY <1>1, SetFacts, EmptySeq
<1>3. \A d \in Conns : ToSet(refused[d]) \subseteq ToSet(asked[d])
    BY DEF Origins, OnTheWay
<1>4. CASE r.verb = "GET" /\ ~r.whole
    <2>1. /\ refused' = [refused EXCEPT ![c] = <<r>>]
          /\ UNCHANGED <<sndq, recv_path, send_data, halted>>
        BY <1>4 DEF Recv
    <2>2. \A d \in Conns : refused'[d] = IF d = c THEN <<r>> ELSE refused[d]
        BY <2>1 DEF Types
    <2>3. \A d \in Conns : ToSet(refused'[d]) \subseteq ToSet(asked[d])
        BY <1>2, <1>3, <2>2
    <2> QED BY <2>1, <2>3 DEF Origins, Held, Shown, Queued
<1>5. CASE ~(r.verb = "GET" /\ ~r.whole)
    <2>1. /\ recv_path' = IF r.verb = "GET" THEN r.path ELSE recv_path
          /\ refused' = [refused EXCEPT ![c] = <<>>]
          /\ SendData(recv_path')
        BY <1>5 DEF Recv
    <2>2. \A d \in Conns : refused'[d] = IF d = c THEN <<>> ELSE refused[d]
        BY <2>1 DEF Types
    <2>3. \A d \in Conns : ToSet(refused'[d]) \subseteq ToSet(asked[d])
        BY <1>2, <1>3, <2>2
    <2>4. recv_path' \in Paths \cup {""}
        BY <1>1, <2>1, Path DEF Types
    <2>5. recv_path' = "" \/ PathIn(asked, recv_path')
        BY <2>1 DEF Origins, Held, PathIn
    <2>6. Shown' /\ Queued'
        BY <2>1, <2>4, <2>5, OriginsSent
    <2> QED BY <2>3, <2>5, <2>6 DEF Held
<1> QED BY <1>4, <1>5

LEMMA OriginsDeliver ==
    ASSUME Types, Origins, NEW c \in Conns, Deliver(c) \/ Redeliver(c)
    PROVE  Origins'
<1>1. ASSUME NEW r \in ToSet(asked[c]), Recv(c, r), UNCHANGED <<asked, got>>,
             \A d \in Conns : ToSet(wire'[d]) \subseteq ToSet(asked[d])
      PROVE  Origins'
    <2>1. /\ Held' /\ Shown' /\ Queued'
          /\ \A d \in Conns : ToSet(refused'[d]) \subseteq ToSet(asked[d])
        BY <1>1, OriginsReceived
    <2>2. OnTheWay'
        BY <1>1, <2>1 DEF OnTheWay
    <2>3. Taken'
        BY <1>1 DEF Origins, Taken
    <2> QED BY <2>1, <2>2, <2>3 DEF Origins
<1>2. \A d \in Conns : /\ ToSet(wire[d]) \subseteq ToSet(asked[d])
                       /\ ToSet(refused[d]) \subseteq ToSet(asked[d])
    BY DEF Origins, OnTheWay
<1>3. CASE Deliver(c)
    <2>1. /\ wire' = [wire EXCEPT ![c] = Tail(wire[c])] /\ wire[c] # <<>>
          /\ Recv(c, Head(wire[c])) /\ UNCHANGED <<asked, got>>
        BY <1>3 DEF Deliver, client
    <2>2. Head(wire[c]) \in Requests
        BY <2>1, At, TailFacts
    <2>3. Head(wire[c]) \in ToSet(wire[c]) /\ ToSet(Tail(wire[c])) \subseteq ToSet(wire[c])
        BY <2>1, <2>2, At, SetFacts
    <2>4. \A d \in Conns : wire'[d] = IF d = c THEN Tail(wire[c]) ELSE wire[d]
        BY <2>1 DEF Types
    <2>5. \A d \in Conns : ToSet(wire'[d]) \subseteq ToSet(asked[d])
        BY <1>2, <2>3, <2>4
    <2>6. Head(wire[c]) \in ToSet(asked[c])
        BY <1>2, <2>3
    <2> QED BY <1>1, <2>1, <2>5, <2>6
<1>4. CASE Redeliver(c)
    <2>1. /\ refused[c] # <<>> /\ Recv(c, Head(refused[c])) /\ UNCHANGED <<asked, got, wire>>
        BY <1>4 DEF Redeliver, client
    <2>2. Head(refused[c]) \in Requests
        BY <2>1, At, TailFacts
    <2>3. Head(refused[c]) \in ToSet(refused[c])
        BY <2>1, <2>2, At, SetFacts
    <2>4. Head(refused[c]) \in ToSet(asked[c])
        BY <1>2, <2>3
    <2>5. \A d \in Conns : ToSet(wire'[d]) \subseteq ToSet(asked[d])
        BY <1>2, <2>1
    <2> QED BY <1>1, <2>1, <2>4, <2>5
<1> QED BY <1>3, <1>4

LEMMA OriginsReceive ==
    ASSUME Types, Origins, NEW c \in Conns, Receive(c)
    PROVE  Origins'
<1> DEFINE page == IF Copies THEN Head(sndq[c]) ELSE send_data
<1>1. /\ sndq[c] # <<>>
      /\ sndq' = [sndq EXCEPT ![c] = Tail(sndq[c])]
      /\ got' = [got EXCEPT ![c] = Append(got[c], page)]
      /\ UNCHANGED <<asked, wire, refused, recv_path, send_data>>
    BY DEF Receive, state
<1>2. Head(sndq[c]) \in Contents
    BY <1>1, At, TailFacts
<1>3. Head(sndq[c]) \in ToSet(sndq[c]) /\ ToSet(Tail(sndq[c])) \subseteq ToSet(sndq[c])
    BY <1>1, <1>2, At, SetFacts
<1>4. page \in Contents
    BY <1>2 DEF Types
<1>5. page = Junk \/ AskedIn(asked, page)
    BY <1>1, <1>3 DEF Origins, Queued, Shown
<1> HIDE DEF page
<1>6. ToSet(Append(got[c], page)) = ToSet(got[c]) \cup {page}
    <2>1. got[c] \in Seq(Contents)
        BY At
    <2> QED BY <1>4, <2>1, AppendSet
<1>7. \A d \in Conns : /\ sndq'[d] = IF d = c THEN Tail(sndq[c]) ELSE sndq[d]
                       /\ got'[d] = IF d = c THEN Append(got[c], page) ELSE got[d]
    BY <1>1 DEF Types
<1>8. ASSUME NEW d \in Conns
      PROVE  /\ \A p \in ToSet(sndq'[d]) : p = Junk \/ AskedIn(asked, p)
             /\ \A p \in ToSet(got'[d]) : p = Junk \/ AskedIn(asked, p)
             /\ sndq'[d] # <<>> => send_data # ""
    <2>1. /\ \A p \in ToSet(sndq[d]) : p = Junk \/ AskedIn(asked, p)
          /\ \A p \in ToSet(got[d]) : p = Junk \/ AskedIn(asked, p)
          /\ sndq[d] # <<>> => send_data # ""
        BY DEF Origins, Queued, Taken, Shown
    <2>2. CASE d = c
        <3>1. sndq'[d] = Tail(sndq[d]) /\ got'[d] = Append(got[d], page)
            BY <1>7, <2>2
        <3> QED BY <1>1, <1>3, <1>5, <1>6, <2>1, <2>2, <3>1
    <2>3. CASE d # c
        <3>1. sndq'[d] = sndq[d] /\ got'[d] = got[d]
            BY <1>7, <2>3
        <3> QED BY <2>1, <3>1
    <2> QED BY <2>2, <2>3
<1>9. Queued' /\ Taken'
    BY <1>1, <1>8 DEF Queued, Taken
<1>10. OnTheWay' /\ Held' /\ Shown'
    BY <1>1, <1>8 DEF Origins, OnTheWay, Held, Shown
<1> QED BY <1>9, <1>10 DEF Origins

LEMMA OriginsLeave ==
    ASSUME Types, Origins, NEW c \in Conns, Close(c) \/ Reset(c) \/ Accept(c) \/ RecvFin(c)
    PROVE  Origins'
<1>1. CASE Reset(c)
    <2>1. /\ wire' = [wire EXCEPT ![c] = <<>>] /\ refused' = [refused EXCEPT ![c] = <<>>]
          /\ sndq' = [sndq EXCEPT ![c] = <<>>]
          /\ UNCHANGED <<asked, got, recv_path, send_data>>
        BY <1>1 DEF Reset, state
    <2>2. ToSet(<<>>) = {}
        BY DEF ToSet
    <2>3. \A d \in Conns : /\ wire'[d] = IF d = c THEN <<>> ELSE wire[d]
                           /\ refused'[d] = IF d = c THEN <<>> ELSE refused[d]
                           /\ sndq'[d] = IF d = c THEN <<>> ELSE sndq[d]
        BY <2>1 DEF Types
    <2>4. OnTheWay'
        BY <2>1, <2>2, <2>3 DEF Origins, OnTheWay
    <2>5. Queued' /\ Shown'
        BY <2>1, <2>2, <2>3 DEF Origins, Queued, Shown
    <2> QED BY <2>1, <2>4, <2>5 DEF Origins, Held, Taken
<1>2. CASE Close(c) \/ Accept(c) \/ RecvFin(c)
    <2>1. UNCHANGED <<asked, got, wire, refused, sndq, recv_path, send_data>>
        BY <1>2 DEF Close, Accept, RecvFin, state, client
    <2> QED BY <2>1 DEF Origins, OnTheWay, Held, Shown, Queued, Taken
<1> QED BY <1>1, <1>2

LEMMA OriginsStep == Types /\ Origins /\ [Next]_vars => Origins'
<1> SUFFICES ASSUME Types, Origins, [Next]_vars PROVE Origins'
    OBVIOUS
<1>1. CASE UNCHANGED vars
    BY <1>1 DEF vars, client, state, Origins, OnTheWay, Held, Shown, Queued, Taken
<1>2. CASE \E c \in Conns : Close(c) \/ Reset(c) \/ Accept(c) \/ RecvFin(c)
    BY <1>2, OriginsLeave
<1>3. CASE \E c \in Conns : \E r \in Requests : Ask(c, r)
    BY <1>3, OriginsAsk
<1>4. CASE \E c \in Conns : Deliver(c) \/ Redeliver(c)
    BY <1>4, OriginsDeliver
<1>5. CASE \E c \in Conns : Receive(c)
    BY <1>5, OriginsReceive
<1> QED BY <1>1, <1>2, <1>3, <1>4, <1>5 DEF Next, Client, Lwip

LEMMA OriginsInit == Init => Origins
<1> SUFFICES ASSUME Init PROVE Origins
    OBVIOUS
<1>1. ToSet(<<>>) = {}
    BY DEF ToSet
<1>2. \A c \in Conns : wire[c] = <<>> /\ refused[c] = <<>> /\ sndq[c] = <<>> /\ got[c] = <<>>
    BY DEF Init
<1> QED BY <1>1, <1>2 DEF Init, Origins, OnTheWay, Held, Shown, Queued, Taken

\* Whatever connections, requests, resets and refusals interleave, and
\* whether or not tcp_write copies, a page that goes out was asked for.
THEOREM PagesHaveOrigins == Spec => []PagesWereAsked
<1>1. Origins => PagesWereAsked
    BY DEF Origins, Taken, PagesWereAsked, AskedIn
<1>2. Spec => []Origins
    BY OriginsInit, OriginsStep, TypesAlways, PTL DEF Spec
<1> QED BY <1>1, <1>2, PTL
-----------------------------------------------------------------------------
\* Counting over all connections.
LEMMA PlacesAre ==
    ASSUME NEW f, NEW p
    PROVE  p \in Places(f) <=> \E c \in Conns : \E i \in DOMAIN f[c] : p = <<c, i>>
    BY DEF Places

LEMMA PlacesFinite ==
    ASSUME NEW S, NEW f \in [Conns -> Seq(S)]
    PROVE  IsFiniteSet(Places(f)) /\ Total(f) \in Nat
<1> DEFINE g == [c \in Conns |-> {c} \X DOMAIN f[c]]
           T == {g[c] : c \in Conns}
<1>1. g \in Surjection(Conns, T)
    <2>1. g \in [Conns -> T]
        OBVIOUS
    <2>2. \A t \in T : \E c \in Conns : g[c] = t
        OBVIOUS
    <2> HIDE DEF g, T
    <2> QED BY <2>1, <2>2, Fun_IsSurj
<1>2. IsFiniteSet(T)
    <2>1. IsFiniteSet(Conns)
        <3> HIDE DEF g, T
        <3> QED BY Assumed
    <2> HIDE DEF g, T
    <2> QED BY <1>1, <2>1, FS_Surjection
<1>3. ASSUME NEW t \in T PROVE IsFiniteSet(t)
    <2>1. PICK c \in Conns : t = {c} \X DOMAIN f[c]
        OBVIOUS
    <2>2. DOMAIN f[c] = 1..Len(f[c]) /\ Len(f[c]) \in Nat
        BY LenProperties
    <2>3. IsFiniteSet({c})
        BY FS_Singleton
    <2>4. IsFiniteSet(1..Len(f[c]))
        BY <2>2, FS_Interval
    <2> QED BY <2>1, <2>2, <2>3, <2>4, FS_Product
<1>4. IsFiniteSet(UNION T)
    <2> HIDE DEF T
    <2> QED BY <1>2, <1>3, FS_UNION
<1>5. UNION T = Places(f)
    BY DEF Places
<1>6. IsFiniteSet(Places(f))
    <2> HIDE DEF T
    <2> QED BY <1>4, <1>5
<1> QED BY <1>6, FS_CardinalityType DEF Total

\* One more on a connection is one more in all ...
LEMMA OneMore ==
    ASSUME NEW S, NEW f \in [Conns -> Seq(S)], NEW g \in [Conns -> Seq(S)],
           NEW c \in Conns, Len(g[c]) = Len(f[c]) + 1,
           \A d \in Conns : d # c => g[d] = f[d]
    PROVE  Total(g) = Total(f) + 1
<1>1. \A d \in Conns : /\ DOMAIN f[d] = 1..Len(f[d]) /\ Len(f[d]) \in Nat
                       /\ DOMAIN g[d] = 1..Len(g[d]) /\ Len(g[d]) \in Nat
    BY LenProperties
<1> DEFINE new == <<c, Len(f[c]) + 1>>
<1>2. \A i : i \in DOMAIN g[c] <=> i \in DOMAIN f[c] \/ i = Len(f[c]) + 1
    BY <1>1
<1>3. ASSUME NEW p PROVE p \in Places(g) <=> p \in Places(f) \cup {new}
    <2>1. p \in Places(g) => p \in Places(f) \cup {new}
        BY <1>2, PlacesAre
    <2>2. p \in Places(f) => p \in Places(g)
        <3> SUFFICES ASSUME p \in Places(f) PROVE p \in Places(g)
            OBVIOUS
        <3>1. PICK d \in Conns : \E i \in DOMAIN f[d] : p = <<d, i>>
            BY PlacesAre
        <3>2. PICK i \in DOMAIN f[d] : p = <<d, i>>
            BY <3>1
        <3>3. i \in DOMAIN g[d]
            BY <1>2, <3>2
        <3> QED BY <3>2, <3>3, PlacesAre
    <2>3. new \in Places(g)
        BY <1>2, PlacesAre
    <2> QED BY <2>1, <2>2, <2>3
<1>4. Places(g) = Places(f) \cup {new}
    BY <1>3
<1>5. new \notin Places(f)
    <2>1. Len(f[c]) + 1 \notin DOMAIN f[c]
        BY <1>1
    <2> QED BY <2>1, PlacesAre
<1> HIDE DEF new
<1>6. IsFiniteSet(Places(f))
    BY PlacesFinite
<1> QED BY <1>4, <1>5, <1>6, FS_AddElement DEF Total

\* ... and no more on any is no more in all.
LEMMA NoMore ==
    ASSUME NEW S, NEW f \in [Conns -> Seq(S)], NEW g \in [Conns -> Seq(S)],
           \A d \in Conns : Len(g[d]) <= Len(f[d])
    PROVE  Total(g) <= Total(f)
<1>1. \A d \in Conns : DOMAIN g[d] \subseteq DOMAIN f[d]
    <2> TAKE d \in Conns
    <2>1. /\ DOMAIN f[d] = 1..Len(f[d]) /\ Len(f[d]) \in Nat
          /\ DOMAIN g[d] = 1..Len(g[d]) /\ Len(g[d]) \in Nat
        BY LenProperties
    <2> QED BY <2>1
<1>2. Places(g) \subseteq Places(f)
    BY <1>1, PlacesAre
<1> QED BY <1>2, PlacesFinite, FS_Subset DEF Total

\* What recv_path may hold.
Path0 == Paths \cup {""}

LEMMA SentTypes ==
    ASSUME Types, NEW path \in Path0, SendData(path)
    PROVE  /\ sndq \in [Conns -> Seq(Contents)] /\ sndq' \in [Conns -> Seq(Contents)]
           /\ Rendered(path) \subseteq Contents \cup {"fault"}
<1>1. path \in Paths \cup {""}
    BY DEF Path0
<1>2. sndq' \in [Conns -> Seq(Contents)] /\ Rendered(path) \subseteq Contents \cup {"fault"}
    BY <1>1, Sent, Renders
<1> QED BY <1>2 DEF Types

LEMMA NothingThere ==
    ASSUME NEW f, \A c \in Conns : f[c] = <<>>
    PROVE  Total(f) = 0
<1>1. \A c \in Conns : DOMAIN f[c] = {}
    OBVIOUS
<1>2. Places(f) = {}
    BY <1>1, PlacesAre
<1> QED BY <1>2, FS_EmptySet DEF Total

\* A page more on one connection at most.
LEMMA SentOne ==
    ASSUME Types, NEW path \in Path0, SendData(path)
    PROVE  Total(sndq') <= Total(sndq) + 1
<1>1. /\ sndq \in [Conns -> Seq(Contents)] /\ sndq' \in [Conns -> Seq(Contents)]
      /\ Rendered(path) \subseteq Contents \cup {"fault"}
    BY SentTypes
<1>2. Total(sndq) \in Nat
    BY <1>1, PlacesFinite
<1>3. PICK page \in Rendered(path) :
        IF page = "fault"
        THEN halted' = TRUE /\ UNCHANGED <<sndq, dropped, send_data>>
        ELSE send_data' = page /\ TcpWrite(page) /\ UNCHANGED halted
    BY DEF SendData
<1>4. CASE sndq' # sndq
    <2>1. /\ page \in Contents /\ client_pcb \in Conns
          /\ sndq' = [sndq EXCEPT ![client_pcb] = Append(@, page)]
        BY <1>1, <1>3, <1>4, Written
    <2>2. sndq' = [sndq EXCEPT ![client_pcb] = Append(sndq[client_pcb], page)]
        BY <2>1
    <2>3. sndq'[client_pcb] = Append(sndq[client_pcb], page)
        BY <1>1, <2>1, <2>2
    <2>4. Len(sndq'[client_pcb]) = Len(sndq[client_pcb]) + 1
        BY <1>1, <2>1, <2>3, AppendFacts
    <2>5. \A d \in Conns : d # client_pcb => sndq'[d] = sndq[d]
        BY <1>1, <2>2
    <2>6. Total(sndq') = Total(sndq) + 1
        BY <1>1, <2>1, <2>4, <2>5, OneMore
    <2> QED BY <1>2, <2>6
<1>5. CASE sndq' = sndq
    BY <1>2, <1>5
<1> QED BY <1>4, <1>5

\* recv keeps the segment or has at most one page sent.
LEMMA ReceivedOne ==
    ASSUME Types, NEW c \in Conns, NEW r \in Requests, Recv(c, r)
    PROVE  \/ sndq' = sndq /\ refused' = [refused EXCEPT ![c] = <<r>>]
           \/ Total(sndq') <= Total(sndq) + 1 /\ refused' = [refused EXCEPT ![c] = <<>>]
<1>1. CASE r.verb = "GET" /\ ~r.whole
    BY <1>1 DEF Recv
<1>2. CASE ~(r.verb = "GET" /\ ~r.whole)
    <2>1. /\ recv_path' = IF r.verb = "GET" THEN r.path ELSE recv_path
          /\ refused' = [refused EXCEPT ![c] = <<>>]
          /\ SendData(recv_path')
        BY <1>2 DEF Recv
    <2>2. recv_path' \in Path0
        BY <2>1, Path DEF Types, Path0
    <2> QED BY <2>1, <2>2, SentOne
<1> QED BY <1>1, <1>2

\* The part of Types that counts here.
Queues ==
    /\ asked \in [Conns -> Seq(Requests)] /\ wire \in [Conns -> Seq(Requests)]
    /\ refused \in [Conns -> Seq(Requests)]
    /\ got \in [Conns -> Seq(Contents)] /\ sndq \in [Conns -> Seq(Contents)]
    /\ \A c \in Conns : Len(refused[c]) <= 1

LEMMA TotalTypes ==
    ASSUME Queues
    PROVE  /\ Total(got) \in Nat /\ Total(sndq) \in Nat /\ Total(wire) \in Nat
           /\ Total(refused) \in Nat /\ Total(asked) \in Nat
    BY PlacesFinite DEF Queues

LEMMA TotalTypesNext ==
    ASSUME Queues'
    PROVE  /\ Total(got') \in Nat /\ Total(sndq') \in Nat /\ Total(wire') \in Nat
           /\ Total(refused') \in Nat /\ Total(asked') \in Nat
    BY PlacesFinite DEF Queues

LEMMA AnswersDeliver ==
    ASSUME Types, Queues, Queues', AtMostOneAnswer, NEW c \in Conns, Deliver(c)
    PROVE  AtMostOneAnswer'
<1> DEFINE r == Head(wire[c])
<1>1. r \in Requests /\ Len(Tail(wire[c])) = Len(wire[c]) - 1 /\ Len(wire[c]) \in Nat
    BY TailFacts DEF Deliver, Queues
<1>2. /\ wire' = [wire EXCEPT ![c] = Tail(wire[c])] /\ refused[c] = <<>>
      /\ Recv(c, r) /\ UNCHANGED <<asked, got>>
    BY DEF Deliver, client
<1> HIDE DEF r
<1>3. Total(wire) = Total(wire') + 1
    <2>1. wire'[c] = Tail(wire[c]) /\ \A d \in Conns : d # c => wire[d] = wire'[d]
        BY <1>2 DEF Queues
    <2>2. Len(wire[c]) = Len(wire'[c]) + 1
        BY <1>1, <2>1
    <2> QED BY <2>1, <2>2, OneMore DEF Queues
<1>4. CASE sndq' = sndq /\ refused' = [refused EXCEPT ![c] = <<r>>]
    <2>1. refused'[c] = <<r>> /\ \A d \in Conns : d # c => refused'[d] = refused[d]
        BY <1>4 DEF Queues
    <2>2. Len(refused'[c]) = 1 /\ Len(refused[c]) = 0
        BY <1>1, <1>2, <2>1, OneFacts, EmptySeq
    <2>3. Len(refused'[c]) = Len(refused[c]) + 1
        BY <2>2
    <2>4. Total(refused') = Total(refused) + 1
        BY <2>1, <2>3, OneMore DEF Queues
    <2> QED BY <1>2, <1>3, <1>4, <2>4, TotalTypes, TotalTypesNext DEF AtMostOneAnswer
<1>5. CASE Total(sndq') <= Total(sndq) + 1 /\ refused' = [refused EXCEPT ![c] = <<>>]
    <2>1. refused' = refused /\ asked' = asked /\ got' = got
        BY <1>2, <1>5 DEF Queues
    <2>2. Total(sndq') <= Total(sndq) + 1
        BY <1>5
    <2> QED BY <1>3, <2>1, <2>2, TotalTypes, TotalTypesNext DEF AtMostOneAnswer
<1> QED BY <1>1, <1>2, <1>4, <1>5, ReceivedOne

LEMMA AnswersRedeliver ==
    ASSUME Types, Queues, Queues', AtMostOneAnswer, NEW c \in Conns, Redeliver(c)
    PROVE  AtMostOneAnswer'
<1> DEFINE r == Head(refused[c])
<1>0. r \in Requests /\ Len(refused[c]) \in Nat /\ Len(refused[c]) # 0
    BY TailFacts DEF Redeliver, Queues
<1>1. r \in Requests /\ Len(refused[c]) = 1
    <2>1. Len(refused[c]) <= 1
        BY DEF Queues
    <2> DEFINE n == Len(refused[c])
    <2>2. n \in Nat /\ n # 0 /\ n <= 1
        BY <1>0, <2>1
    <2> HIDE DEF n
    <2>3. n = 1
        BY <2>2
    <2> QED BY <1>0, <2>3 DEF n
<1>2. Recv(c, r) /\ UNCHANGED <<asked, got, wire>>
    BY DEF Redeliver, client
<1> HIDE DEF r
<1>3. CASE sndq' = sndq /\ refused' = [refused EXCEPT ![c] = <<r>>]
    <2>1. ASSUME NEW d \in Conns PROVE Len(refused'[d]) <= Len(refused[d])
        <3>1. CASE d = c
            <4>1. refused'[d] = <<r>>
                BY <1>3, <3>1 DEF Queues
            <4>2. Len(refused'[d]) = 1
                BY <1>1, <4>1, OneFacts
            <4>3. Len(refused[d]) = 1
                BY <1>1, <3>1
            <4> QED BY <4>2, <4>3
        <3>2. CASE d # c
            <4>1. refused'[d] = refused[d] /\ Len(refused[d]) \in Nat
                BY <1>3, <3>2, At DEF Queues
            <4> QED BY <4>1
        <3> QED BY <3>1, <3>2
    <2>2. Total(refused') <= Total(refused)
        BY <2>1, NoMore DEF Queues
    <2> QED BY <1>2, <1>3, <2>2, TotalTypes, TotalTypesNext DEF AtMostOneAnswer
<1>4. CASE Total(sndq') <= Total(sndq) + 1 /\ refused' = [refused EXCEPT ![c] = <<>>]
    <2>1. refused'[c] = <<>> /\ \A d \in Conns : d # c => refused[d] = refused'[d]
        BY <1>4 DEF Queues
    <2>2. Len(refused[c]) = Len(refused'[c]) + 1
        BY <1>1, <2>1, EmptySeq
    <2>3. Total(refused) = Total(refused') + 1
        BY <2>1, <2>2, OneMore DEF Queues
    <2> QED BY <1>2, <1>4, <2>3, TotalTypes, TotalTypesNext DEF AtMostOneAnswer
<1> QED BY <1>1, <1>2, <1>3, <1>4, ReceivedOne

LEMMA AnswersReset ==
    ASSUME Types, Queues, Queues', AtMostOneAnswer, NEW c \in Conns, Reset(c)
    PROVE  AtMostOneAnswer'
<1>1. /\ wire' = [wire EXCEPT ![c] = <<>>] /\ refused' = [refused EXCEPT ![c] = <<>>]
      /\ sndq' = [sndq EXCEPT ![c] = <<>>] /\ UNCHANGED <<asked, got>>
    BY DEF Reset
<1>2. Len(<<>>) = 0
    BY EmptySeq
<1>3. \A d \in Conns : /\ Len(wire'[d]) <= Len(wire[d])
                       /\ Len(refused'[d]) <= Len(refused[d])
                       /\ Len(sndq'[d]) <= Len(sndq[d])
    <2> TAKE d \in Conns
    <2>1. Len(wire[d]) \in Nat /\ Len(refused[d]) \in Nat /\ Len(sndq[d]) \in Nat
        BY At
    <2>2. /\ wire'[d] = IF d = c THEN <<>> ELSE wire[d]
          /\ refused'[d] = IF d = c THEN <<>> ELSE refused[d]
          /\ sndq'[d] = IF d = c THEN <<>> ELSE sndq[d]
        BY <1>1 DEF Queues
    <2> QED BY <1>2, <2>1, <2>2
<1>4. Total(wire') <= Total(wire)
    BY <1>3, NoMore DEF Queues
<1>5. Total(refused') <= Total(refused)
    BY <1>3, NoMore DEF Queues
<1>6. Total(sndq') <= Total(sndq)
    BY <1>3, NoMore DEF Queues
<1>7. /\ Total(wire') \in Nat /\ Total(refused') \in Nat /\ Total(sndq') \in Nat
    BY PlacesFinite DEF Queues
<1> QED BY <1>1, <1>4, <1>5, <1>6, <1>7, TotalTypes, TotalTypesNext DEF AtMostOneAnswer

LEMMA AnswersStep == Types /\ Types' /\ AtMostOneAnswer /\ [Next]_vars => AtMostOneAnswer'
<1> SUFFICES ASSUME Types, Types', AtMostOneAnswer, [Next]_vars PROVE AtMostOneAnswer'
    OBVIOUS
<1>0. Queues /\ Queues'
    BY DEF Types, Queues
<1>1. CASE UNCHANGED vars
    BY <1>1 DEF vars, client, AtMostOneAnswer
<1>2. CASE \E c \in Conns : Close(c) \/ Accept(c) \/ RecvFin(c)
    BY <1>2 DEF Close, Accept, RecvFin, client, AtMostOneAnswer
<1>3. ASSUME NEW c \in Conns, NEW r \in Requests, Ask(c, r) PROVE AtMostOneAnswer'
    <2>1. /\ asked' = [asked EXCEPT ![c] = Append(asked[c], r)]
          /\ wire' = [wire EXCEPT ![c] = Append(wire[c], r)]
          /\ UNCHANGED <<got, refused, sndq>>
        BY <1>3 DEF Ask
    <2>2. /\ asked'[c] = Append(asked[c], r) /\ wire'[c] = Append(wire[c], r)
          /\ \A d \in Conns : d # c => asked'[d] = asked[d] /\ wire'[d] = wire[d]
        BY <1>0, <2>1 DEF Queues
    <2>3. Len(asked'[c]) = Len(asked[c]) + 1 /\ Len(wire'[c]) = Len(wire[c]) + 1
        BY <2>2, At, AppendFacts
    <2>4. Total(asked') = Total(asked) + 1
        BY <1>0, <2>2, <2>3, OneMore DEF Queues
    <2>5. Total(wire') = Total(wire) + 1
        BY <1>0, <2>2, <2>3, OneMore DEF Queues
    <2> QED BY <1>0, <2>1, <2>4, <2>5, TotalTypes, TotalTypesNext DEF AtMostOneAnswer
<1>4. ASSUME NEW c \in Conns, Receive(c) PROVE AtMostOneAnswer'
    <2> DEFINE page == IF Copies THEN Head(sndq[c]) ELSE send_data
    <2>1. /\ sndq' = [sndq EXCEPT ![c] = Tail(sndq[c])] /\ sndq[c] # <<>>
          /\ got' = [got EXCEPT ![c] = Append(got[c], page)]
          /\ UNCHANGED <<asked, wire, refused>>
        BY <1>4 DEF Receive
    <2>2. page \in Contents
        BY <1>0, <2>1, TailFacts DEF Queues
    <2> HIDE DEF page
    <2>3. /\ got'[c] = Append(got[c], page) /\ sndq'[c] = Tail(sndq[c])
          /\ \A d \in Conns : d # c => got'[d] = got[d] /\ sndq[d] = sndq'[d]
        BY <1>0, <2>1 DEF Queues
    <2>4. Len(got'[c]) = Len(got[c]) + 1
        BY <1>0, <2>2, <2>3, AppendFacts DEF Queues
    <2>5. Len(sndq[c]) = Len(sndq'[c]) + 1
        BY <1>0, <2>1, <2>3, TailFacts DEF Queues
    <2>6. Total(got') = Total(got) + 1
        BY <1>0, <2>3, <2>4, OneMore DEF Queues
    <2>7. Total(sndq) = Total(sndq') + 1
        BY <1>0, <2>3, <2>5, OneMore DEF Queues
    <2>8. Total(sndq') \in Nat
        BY <1>0, PlacesFinite DEF Queues
    <2> QED BY <1>0, <2>1, <2>6, <2>7, <2>8, TotalTypes, TotalTypesNext DEF AtMostOneAnswer
<1>5. CASE \E c \in Conns : Deliver(c)
    BY <1>0, <1>5, AnswersDeliver
<1>6. CASE \E c \in Conns : Redeliver(c)
    BY <1>0, <1>6, AnswersRedeliver
<1>7. CASE \E c \in Conns : Reset(c)
    BY <1>0, <1>7, AnswersReset
<1> QED BY <1>1, <1>2, <1>3, <1>4, <1>5, <1>6, <1>7 DEF Next, Client, Lwip

\* No request is answered twice: not one that was refused and is offered again
\* (318), not one whose connection is gone, and not by a page that is still
\* queued for another connection.
THEOREM AnswersAreSingle == Spec => []AtMostOneAnswer
<1>1. Init => AtMostOneAnswer
    <2> SUFFICES ASSUME Init PROVE AtMostOneAnswer
        OBVIOUS
    <2>1. \A c \in Conns : /\ asked[c] = <<>> /\ got[c] = <<>> /\ wire[c] = <<>>
                            /\ refused[c] = <<>> /\ sndq[c] = <<>>
        BY DEF Init
    <2>2. Total(got) = 0 /\ Total(sndq) = 0 /\ Total(wire) = 0
          /\ Total(refused) = 0 /\ Total(asked) = 0
        BY <2>1, NothingThere
    <2> QED BY <2>2 DEF AtMostOneAnswer
<1> QED BY <1>1, AnswersStep, TypesAlways, PTL DEF Spec
-----------------------------------------------------------------------------
\* One patient client at a time, whose requests are whole and for known pages.
Serial ==
    /\ Patient /\ MaxOpen = 1
    /\ \A r \in Requests : r.verb = "GET" /\ r.whole /\ r.path \in Known

\* Where the one question that may be open is, and who the record's client is;
\* a question whose page tcp_write had no room for stays open.
Turn(c) ==
    /\ conn[c] # "reset" /\ refused[c] = <<>>
    /\ conn[c] = "none" => asked[c] = <<>>
    /\ conn[c] = "open" => client_pcb = c /\ pcb[c] = "open"
    /\ conn[c] # "open" => Len(got[c]) = Len(asked[c])
    /\ \/ Len(asked[c]) = Len(got[c]) + Len(sndq[c]) + Len(wire[c])
       \/ wire[c] = <<>> /\ sndq[c] = <<>> /\ Len(asked[c]) = Len(got[c]) + 1
    /\ Len(asked[c]) <= Len(got[c]) + 1
    /\ wire[c] # <<>> => wire[c][1] = asked[c][Len(asked[c])]
    /\ sndq[c] # <<>> =>
        sndq[c][1] = Wanted(asked[c][Len(asked[c])]) /\ send_data = sndq[c][1]
    /\ \A i \in 1..Len(got[c]) : got[c][i] = Wanted(asked[c][i])

SerialInv == ~halted /\ \A c \in Conns : Turn(c)

\* What Turn says of a connection depends on nothing else.
Same(c) ==
    /\ conn'[c] = conn[c] /\ pcb'[c] = pcb[c] /\ asked'[c] = asked[c] /\ got'[c] = got[c]
    /\ wire'[c] = wire[c] /\ refused'[c] = refused[c] /\ sndq'[c] = sndq[c]

LEMMA TurnKept ==
    ASSUME NEW c \in Conns, Turn(c), Same(c),
           \/ conn[c] # "open" /\ sndq[c] = <<>>
           \/ client_pcb' = client_pcb /\ send_data' = send_data
    PROVE  Turn(c)'
    BY DEF Turn, Same

\* Outside a connection's turn nothing of it is on the way.
LEMMA Idle ==
    ASSUME Types, NEW c \in Conns, Turn(c), Len(got[c]) >= Len(asked[c])
    PROVE  /\ wire[c] = <<>> /\ sndq[c] = <<>> /\ Len(asked[c]) = Len(got[c])
<1>1. Len(wire[c]) = 0 /\ Len(sndq[c]) = 0 /\ Len(asked[c]) = Len(got[c])
    <2>2. /\ Len(asked[c]) \in Nat /\ Len(got[c]) \in Nat
          /\ Len(sndq[c]) \in Nat /\ Len(wire[c]) \in Nat
        BY At
    <2>1. Len(asked[c]) = Len(got[c]) + Len(sndq[c]) + Len(wire[c])
        <3>1. Len(asked[c]) # Len(got[c]) + 1
            BY <2>2
        <3> QED BY <3>1 DEF Turn
    <2> DEFINE a == Len(asked[c])  g == Len(got[c])  s == Len(sndq[c])  w == Len(wire[c])
    <2>3. /\ a \in Nat /\ g \in Nat /\ s \in Nat /\ w \in Nat
          /\ a = g + s + w
        BY <2>1, <2>2
    <2>4. g >= a
        OBVIOUS
    <2> HIDE DEF a, g, s, w
    <2>5. w = 0 /\ s = 0 /\ a = g
        BY ONLY <2>3, <2>4
    <2> QED BY <2>5 DEF a, g, s, w
<1> QED BY <1>1, At, EmptySeq

LEMMA Busy ==
    ASSUME Types, NEW c \in Conns, Turn(c), wire[c] # <<>> \/ sndq[c] # <<>>
    PROVE  /\ conn[c] = "open" /\ client_pcb = c /\ pcb[c] = "open"
           /\ Len(asked[c]) = Len(got[c]) + 1
           /\ Len(wire[c]) + Len(sndq[c]) = 1
<1>1. Len(wire[c]) > 0 \/ Len(sndq[c]) > 0
    BY At, EmptySeq
<1>2. Len(asked[c]) = Len(got[c]) + 1 /\ Len(wire[c]) + Len(sndq[c]) = 1
    <2>1. /\ Len(asked[c]) = Len(got[c]) + Len(sndq[c]) + Len(wire[c])
          /\ Len(asked[c]) <= Len(got[c]) + 1
        BY DEF Turn
    <2>2. /\ Len(asked[c]) \in Nat /\ Len(got[c]) \in Nat
          /\ Len(sndq[c]) \in Nat /\ Len(wire[c]) \in Nat
        BY At
    <2> DEFINE a == Len(asked[c])  g == Len(got[c])  s == Len(sndq[c])  w == Len(wire[c])
    <2>3. /\ a \in Nat /\ g \in Nat /\ s \in Nat /\ w \in Nat
          /\ a = g + s + w
        BY <2>1, <2>2
    <2>4. (w > 0 \/ s > 0) /\ a <= g + 1
        BY <1>1, <2>1
    <2> HIDE DEF a, g, s, w
    <2>5. a = g + 1 /\ w + s = 1
        BY ONLY <2>3, <2>4
    <2> QED BY <2>5 DEF a, g, s, w
<1>3. Len(got[c]) # Len(asked[c])
    BY <1>2, At
<1> QED BY <1>2, <1>3 DEF Turn

LEMMA Others ==
    ASSUME Types, SerialInv, NEW c \in Conns, conn[c] = "open", NEW d \in Conns, d # c
    PROVE  conn[d] # "open" /\ sndq[d] = <<>> /\ wire[d] = <<>>
<1>1. Turn(c) /\ Turn(d)
    BY DEF SerialInv
<1>2. conn[d] # "open"
    BY <1>1 DEF Turn
<1>3. Len(got[d]) = Len(asked[d])
    BY <1>1, <1>2 DEF Turn
<1>4. Len(got[d]) >= Len(asked[d])
    BY <1>3, At
<1> QED BY <1>1, <1>2, <1>4, Idle

LEMMA SerialAsk ==
    ASSUME Serial, Types, SerialInv, NEW c \in Conns, NEW r \in Requests, Ask(c, r)
    PROVE  SerialInv'
<1>1. /\ conn[c] = "open" /\ Len(got[c]) >= Len(asked[c])
      /\ asked' = [asked EXCEPT ![c] = Append(asked[c], r)]
      /\ wire' = [wire EXCEPT ![c] = Append(wire[c], r)]
      /\ UNCHANGED <<conn, got, pcb, refused, sndq, client_pcb, send_data, halted>>
    BY DEF Ask, Answered, Serial, state
<1>2. Turn(c)
    BY DEF SerialInv
<1>3. wire[c] = <<>> /\ sndq[c] = <<>> /\ Len(asked[c]) = Len(got[c])
    BY <1>1, <1>2, Idle
<1>4. /\ Len(Append(asked[c], r)) = Len(asked[c]) + 1
      /\ \A i \in 1..Len(asked[c]) : Append(asked[c], r)[i] = asked[c][i]
      /\ Append(asked[c], r)[Len(asked[c]) + 1] = r
    BY At, AppendFacts
<1>5. asked'[c] = Append(asked[c], r) /\ wire'[c] = <<r>>
    <2>1. asked'[c] = Append(asked[c], r) /\ wire'[c] = Append(wire[c], r)
        BY <1>1 DEF Types
    <2>2. Append(<<>>, r) = <<r>>
        OBVIOUS
    <2> QED BY <1>3, <2>1, <2>2
<1>6. /\ Len(asked'[c]) = Len(got[c]) + 1 /\ asked'[c][Len(got[c]) + 1] = r
      /\ \A i \in 1..Len(got[c]) : asked'[c][i] = asked[c][i]
    BY <1>3, <1>4, <1>5
<1>7. Len(wire'[c]) = 1 /\ wire'[c][1] = r /\ Len(sndq[c]) = 0 /\ Len(got[c]) \in Nat
    BY <1>3, <1>5, At, EmptySeq
<1>8. Turn(c)'
    <2>0. got'[c] = got[c] /\ sndq'[c] = sndq[c]
        BY <1>1
    <2>1. Len(asked'[c]) = Len(got'[c]) + Len(sndq'[c]) + Len(wire'[c])
        <3>1. Len(got'[c]) = Len(got[c]) /\ Len(sndq'[c]) = Len(sndq[c])
            BY <2>0
        <3> QED BY ONLY <1>6, <1>7, <3>1
    <2>2. Len(asked'[c]) <= Len(got'[c]) + 1
        BY <1>6, <1>7, <2>0
    <2>3. wire'[c][1] = asked'[c][Len(asked'[c])]
        BY <1>6, <1>7
    <2>4. \A i \in 1..Len(got'[c]) : got'[c][i] = Wanted(asked'[c][i])
        BY <1>1, <1>2, <1>6 DEF Turn, Wanted
    <2> QED BY <1>1, <1>2, <1>3, <2>1, <2>2, <2>3, <2>4 DEF Turn
<1>9. ASSUME NEW d \in Conns, d # c PROVE Turn(d)'
    <2>1. Turn(d) /\ Same(d)
        BY <1>1, <1>9 DEF SerialInv, Same, Types
    <2> QED BY <1>1, <2>1, TurnKept
<1> QED BY <1>1, <1>8, <1>9 DEF SerialInv

LEMMA SerialClose ==
    ASSUME Serial, Types, SerialInv, NEW c \in Conns, Close(c) \/ Reset(c) \/ RecvFin(c)
    PROVE  SerialInv'
<1>1. ~Reset(c)
    BY DEF Reset, Serial
<1>2. CASE Close(c)
    <2>1. /\ conn' = [conn EXCEPT ![c] = "closed"] /\ Len(got[c]) >= Len(asked[c])
          /\ UNCHANGED <<asked, got, wire, pcb, refused, sndq, client_pcb, send_data, halted>>
        BY <1>2 DEF Close, Answered, Serial, state
    <2>2. Turn(c)
        BY DEF SerialInv
    <2>3. Len(asked[c]) = Len(got[c])
        BY <2>1, <2>2, Idle
    <2>4. conn'[c] = "closed"
        BY <2>1 DEF Types
    <2>5. Turn(c)'
        BY <2>1, <2>2, <2>3, <2>4 DEF Turn
    <2>6. ASSUME NEW d \in Conns, d # c PROVE Turn(d)'
        <3>1. Turn(d) /\ Same(d)
            BY <2>1, <2>6 DEF SerialInv, Same, Types
        <3> QED BY <2>1, <3>1, TurnKept
    <2> QED BY <2>1, <2>5, <2>6 DEF SerialInv
<1>3. CASE RecvFin(c)
    <2>1. /\ conn[c] = "closed" /\ pcb' = [pcb EXCEPT ![c] = "closeWait"]
          /\ UNCHANGED <<conn, asked, got, wire, refused, sndq, client_pcb, send_data, halted>>
        BY <1>3 DEF RecvFin, client, state
    <2>2. Turn(c)'
        BY <2>1 DEF SerialInv, Turn
    <2>3. ASSUME NEW d \in Conns, d # c PROVE Turn(d)'
        <3>1. Turn(d) /\ Same(d)
            BY <2>1, <2>3 DEF SerialInv, Same, Types
        <3> QED BY <2>1, <3>1, TurnKept
    <2> QED BY <2>1, <2>2, <2>3 DEF SerialInv
<1> QED BY <1>1, <1>2, <1>3

LEMMA SerialAccept ==
    ASSUME Serial, Types, SerialInv, NEW c \in Conns, Accept(c)
    PROVE  SerialInv'
<1> DEFINE open == {d \in Conns : conn[d] = "open"}
<1>1. /\ conn[c] = "none" /\ Cardinality(open) < 1
      /\ conn' = [conn EXCEPT ![c] = "open"] /\ pcb' = [pcb EXCEPT ![c] = "open"]
      /\ client_pcb' = c
      /\ UNCHANGED <<asked, got, wire, refused, sndq, send_data, halted>>
    BY DEF Accept, Serial
<1>2. IsFiniteSet(open)
    BY Assumed, FS_Subset
<1>3. open = {}
    <2>1. Cardinality(open) \in Nat
        BY <1>2, FS_CardinalityType
    <2>2. Cardinality(open) = 0
        BY <1>1, <2>1
    <2> QED BY <1>2, <2>2, FS_EmptySet
<1>4. \A d \in Conns : conn[d] # "open"
    BY <1>3
<1>5. \A d \in Conns : Turn(d) /\ sndq[d] = <<>>
    <2>1. ASSUME NEW d \in Conns PROVE Turn(d) /\ sndq[d] = <<>>
        <3>1. Turn(d)
            BY DEF SerialInv
        <3>2. Len(got[d]) = Len(asked[d])
            BY <1>4, <3>1 DEF Turn
        <3>3. Len(got[d]) >= Len(asked[d])
            BY <3>2, At
        <3> QED BY <3>1, <3>3, Idle
    <2> QED BY <2>1
<1>6. conn'[c] = "open" /\ pcb'[c] = "open"
    BY <1>1 DEF Types
<1>7. Turn(c)'
    BY <1>1, <1>5, <1>6 DEF Turn
<1>8. ASSUME NEW d \in Conns, d # c PROVE Turn(d)'
    <2>1. Same(d)
        BY <1>1, <1>8 DEF Same, Types
    <2> QED BY <1>4, <1>5, <2>1, TurnKept
<1> QED BY <1>1, <1>7, <1>8 DEF SerialInv

\* A known path renders its page and nothing else.
LEMMA RendersKnown ==
    ASSUME Serial, NEW r \in Requests
    PROVE  /\ r.verb = "GET" /\ r.whole
           /\ Rendered(r.path) = {Wanted(r)} /\ Wanted(r) # "fault"
<1>1. r.verb = "GET" /\ r.whole /\ r.path \in Known
    BY DEF Serial
<1>2. CASE r.path = "root"
    <2>1. "root" \notin Pages \cup {"alert"}
        BY DEF Pages
    <2>2. Rendered("root") = {"page1"}
        BY <2>1 DEF Rendered
    <2> QED BY <1>1, <1>2, <2>2 DEF Wanted
<1>3. CASE r.path # "root"
    <2>1. r.path \in Pages \cup {"alert"}
        BY <1>1, <1>3 DEF Known
    <2>2. Rendered(r.path) = {r.path}
        BY <1>3, <2>1 DEF Rendered
    <2>3. r.path # "fault"
        BY <2>1 DEF Pages
    <2> QED BY <1>1, <1>3, <2>2, <2>3 DEF Wanted
<1> QED BY <1>1, <1>2, <1>3

\* With nothing queued and nothing received elsewhere, a page that finds no
\* room is one that has none at all.
LEMMA NoRoom ==
    ASSUME Types, NEW c \in Conns, NEW page \in Contents, ~MustFit(page),
           \A d \in Conns : sndq[d] = <<>>,
           \A d \in Conns \ {c} : got[d] = <<>>,
           Acked(c) = Len(got[c])
    PROVE  ~Holdable(page)
<1>1. Waiting = 0
    <2> DEFINE P == {p \in Places(sndq) : p[1] \in Sharing}
    <2>1. ASSUME NEW p \in Places(sndq) PROVE FALSE
        BY <2>1, EmptySeq DEF Places
    <2>2. P = {}
        BY <2>1
    <2>3. UNION {{p} \X (1..Segments[sndq[p[1]][p[2]]]) : p \in P} = {}
        BY <2>2
    <2> QED BY <2>3, FS_EmptySet DEF Waiting, SegmentsAt
<1>2. Late = 0
    <2> DEFINE P == {p \in Places(got) : p[1] \in Sharing /\ p[2] > Acked(p[1])}
    <2>1. ASSUME NEW p \in P PROVE FALSE
        <3>1. PICK d \in Conns : p \in {d} \X DOMAIN got[d]
            BY DEF Places
        <3>2. p[1] = d /\ p[2] \in DOMAIN got[d]
            BY <3>1
        <3>3. DOMAIN got[d] = 1..Len(got[d]) /\ Len(got[d]) \in Nat
            BY At, LenProperties
        <3>4. CASE d = c
            BY <3>2, <3>3, <3>4
        <3>5. CASE d # c
            <4>1. Len(got[d]) = 0
                BY <3>5, EmptySeq
            <4> QED BY <3>2, <3>3, <4>1
        <3> QED BY <3>4, <3>5
    <2>2. P = {}
        BY <2>1
    <2>3. UNION {{p} \X (1..Segments[got[p[1]][p[2]]]) : p \in P} = {}
        BY <2>2
    <2> QED BY <2>3, FS_EmptySet DEF Late, SegmentsAt
<1>3. Segments[page] \in Nat /\ Room \in Nat
    BY WebAssumption
<1> QED BY <1>1, <1>2, <1>3 DEF MustFit, Holdable

LEMMA SerialDeliver ==
    ASSUME Serial, Types, SerialInv, NEW c \in Conns, Deliver(c)
    PROVE  SerialInv' /\ [Service!Next]_(Service!vars)
<1> DEFINE r == Head(wire[c])
<1>1. /\ wire[c] # <<>> /\ wire' = [wire EXCEPT ![c] = Tail(wire[c])]
      /\ Recv(c, r) /\ UNCHANGED <<conn, asked, got, pcb, client_pcb>>
    BY DEF Deliver, client
<1>2. Turn(c)
    BY DEF SerialInv
<1>3. /\ conn[c] = "open" /\ client_pcb = c /\ pcb[c] = "open"
      /\ Len(asked[c]) = Len(got[c]) + 1 /\ Len(wire[c]) + Len(sndq[c]) = 1
    BY <1>1, <1>2, Busy
<1>4. /\ r \in Requests /\ r = wire[c][1] /\ Len(wire[c]) \in Nat \ {0}
      /\ Tail(wire[c]) \in Seq(Requests) /\ Len(Tail(wire[c])) = Len(wire[c]) - 1
    BY <1>1, At, TailFacts
<1>5. Len(wire[c]) = 1 /\ Len(sndq[c]) = 0
    <2> DEFINE s == Len(sndq[c])  w == Len(wire[c])
    <2>1. s \in Nat /\ w \in Nat \ {0} /\ w + s = 1
        BY <1>3, <1>4, At
    <2> HIDE DEF s, w
    <2>2. w = 1 /\ s = 0
        BY ONLY <2>1
    <2> QED BY <2>2 DEF s, w
<1>6. Tail(wire[c]) = <<>> /\ sndq[c] = <<>>
    <2>1. Len(Tail(wire[c])) = 0 /\ sndq[c] \in Seq(Contents)
        BY <1>4, <1>5, At
    <2>2. Tail(wire[c]) = <<>>
        BY ONLY <1>4, <2>1, EmptySeq
    <2>3. sndq[c] = <<>>
        BY ONLY <1>5, <2>1, EmptySeq
    <2> QED BY <2>2, <2>3
<1>7. r = asked[c][Len(asked[c])]
    BY <1>1, <1>2, <1>4 DEF Turn
<1> HIDE DEF r
<1>8. r.verb = "GET" /\ r.whole /\ Rendered(r.path) = {Wanted(r)} /\ Wanted(r) # "fault"
    BY <1>4, RendersKnown
<1>9. recv_path' = r.path /\ refused' = [refused EXCEPT ![c] = <<>>] /\ SendData(r.path)
    BY <1>1, <1>8 DEF Recv
<1>10. send_data' = Wanted(r) /\ TcpWrite(Wanted(r)) /\ halted' = halted
    BY <1>8, <1>9 DEF SendData
<1>11. sndq' = sndq \/ sndq' = [sndq EXCEPT ![c] = Append(sndq[c], Wanted(r))]
    BY <1>3, <1>10, Written
<1>12. wire'[c] = <<>> /\ refused'[c] = <<>>
    BY <1>1, <1>6, <1>9 DEF Types
<1>13. ASSUME sndq' = sndq PROVE Turn(c)'
    <2>1. sndq'[c] = <<>>
        BY <1>6, <1>13
    <2>2. Len(asked'[c]) = Len(got'[c]) + 1 /\ Len(got'[c]) \in Nat
        BY <1>1, <1>3, At
    <2>3. Len(asked'[c]) <= Len(got'[c]) + 1
        BY <2>2
    <2>4. \A i \in 1..Len(got'[c]) : got'[c][i] = Wanted(asked'[c][i])
        BY <1>1, <1>2 DEF Turn
    <2> QED BY <1>1, <1>2, <1>3, <1>12, <2>1, <2>2, <2>3, <2>4 DEF Turn
<1>14. ASSUME sndq' = [sndq EXCEPT ![c] = Append(sndq[c], Wanted(r))] PROVE Turn(c)'
    <2>1. sndq'[c] = <<Wanted(r)>>
        <3>1. sndq'[c] = Append(sndq[c], Wanted(r))
            BY <1>14 DEF Types
        <3>2. Append(<<>>, Wanted(r)) = <<Wanted(r)>>
            OBVIOUS
        <3> QED BY <1>6, <3>1, <3>2
    <2>2. /\ Len(sndq'[c]) = 1 /\ Len(wire'[c]) = 0 /\ Len(got[c]) \in Nat
          /\ sndq'[c][1] = Wanted(r)
        BY <1>12, <2>1, At, EmptySeq
    <2>3. Len(asked[c]) = Len(got[c]) + Len(sndq'[c]) + Len(wire'[c])
        BY <1>3, <2>2
    <2>4. \A i \in 1..Len(got'[c]) : got'[c][i] = Wanted(asked'[c][i])
        BY <1>1, <1>2 DEF Turn
    <2>5. sndq'[c][1] = Wanted(asked'[c][Len(asked'[c])]) /\ send_data' = sndq'[c][1]
        BY <1>1, <1>7, <1>10, <2>2
    <2>6. Len(asked'[c]) <= Len(got'[c]) + 1
        BY <1>1, <1>3, <2>2
    <2> QED BY <1>1, <1>2, <1>3, <1>12, <2>3, <2>4, <2>5, <2>6 DEF Turn
<1>15. Turn(c)'
    BY <1>11, <1>13, <1>14
<1>16. ASSUME NEW d \in Conns, d # c PROVE Turn(d)'
    <2>1. Turn(d) /\ Same(d)
        BY <1>1, <1>9, <1>11, <1>16 DEF SerialInv, Same, Types
    <2>2. conn[d] # "open" /\ sndq[d] = <<>>
        BY <1>3, <1>16, Others
    <2> QED BY <2>1, <2>2, TurnKept
<1>17. SerialInv'
    BY <1>1, <1>10, <1>15, <1>16 DEF SerialInv
<1>18. CASE dropped' = dropped
    BY <1>1, <1>17, <1>18 DEF Service!vars
<1>19. CASE dropped' # dropped
    <2>1. dropped' = dropped \cup {c} /\ ~MustFit(Wanted(r))
        BY <1>3, <1>10, <1>19 DEF TcpWrite
    <2>2. Service!Due(c) = Wanted(r)
        BY <1>3, <1>7, At DEF Service!Due
    <2>3. Len(got[c]) < Len(asked[c])
        BY <1>3, At
    <2>4. Acked(c) = Len(got[c])
        <3>1. Len(wire'[c]) = 0 /\ Patient /\ pcb[c] # "closeWait"
            BY <1>3, <1>12, EmptySeq DEF Serial
        <3>2. Len(got[c]) \in Nat
            BY At
        <3> QED BY <1>3, <3>1, <3>2 DEF Acked
    <2>5. \A d \in Conns : sndq[d] = <<>>
        BY <1>3, <1>6, Others
    <2>6. ~Holdable(Service!Due(c)) \/ \E d \in Conns \ {c} : got[d] # <<>>
        <3>1. SUFFICES ASSUME \A d \in Conns \ {c} : got[d] = <<>>
                       PROVE  ~Holdable(Wanted(r))
            BY <2>2
        <3>2. Wanted(r) \in Contents
            BY <1>4, <1>8, Path, Renders
        <3> QED BY <2>1, <2>4, <2>5, <3>1, <3>2, NoRoom
    <2>7. Service!Lose(c)
        BY <1>1, <2>1, <2>3, <2>6 DEF Service!Lose
    <2> QED BY <1>17, <2>7 DEF Service!Next
<1> QED BY <1>18, <1>19

LEMMA SerialReceive ==
    ASSUME Types, SerialInv, NEW c \in Conns, Receive(c)
    PROVE  SerialInv' /\ Service!Answer(c)
<1> DEFINE page == IF Copies THEN Head(sndq[c]) ELSE send_data
           n == Len(got[c])
<1>1. /\ sndq[c] # <<>>
      /\ sndq' = [sndq EXCEPT ![c] = Tail(sndq[c])]
      /\ got' = [got EXCEPT ![c] = Append(got[c], page)]
      /\ UNCHANGED <<conn, asked, wire, pcb, refused, client_pcb, send_data, halted>>
    BY DEF Receive, state
<1>2. Turn(c)
    BY DEF SerialInv
<1>3. Len(asked[c]) = n + 1 /\ Len(wire[c]) + Len(sndq[c]) = 1 /\ conn[c] = "open"
    BY <1>1, <1>2, Busy
<1>4. /\ Head(sndq[c]) \in Contents /\ Head(sndq[c]) = sndq[c][1] /\ Len(sndq[c]) \in Nat \ {0}
      /\ Tail(sndq[c]) \in Seq(Contents) /\ Len(Tail(sndq[c])) = Len(sndq[c]) - 1
    BY <1>1, At, TailFacts
<1>5. Len(sndq[c]) = 1 /\ Len(wire[c]) = 0 /\ n \in Nat
    <2> DEFINE s == Len(sndq[c])  w == Len(wire[c])
    <2>1. w \in Nat /\ s \in Nat \ {0} /\ w + s = 1
        BY <1>3, <1>4, At
    <2> HIDE DEF s, w
    <2>2. w = 0 /\ s = 1
        BY ONLY <2>1
    <2>3. n \in Nat
        BY At
    <2> QED BY <2>2, <2>3 DEF s, w
<1>6. Tail(sndq[c]) = <<>> /\ wire[c] = <<>> /\ Len(<<>>) = 0
    <2>1. Len(Tail(sndq[c])) = 0 /\ wire[c] \in Seq(Requests)
        BY <1>4, <1>5, At
    <2>2. Tail(sndq[c]) = <<>>
        BY ONLY <1>4, <2>1, EmptySeq
    <2>3. wire[c] = <<>>
        BY ONLY <1>5, <2>1, EmptySeq
    <2> QED BY <2>2, <2>3, EmptySeq
<1>7. page = Wanted(asked[c][n + 1]) /\ page \in Contents
    BY <1>1, <1>2, <1>3, <1>4 DEF Turn
<1> HIDE DEF page
<1>8. /\ Len(Append(got[c], page)) = n + 1 /\ Append(got[c], page)[n + 1] = page
      /\ \A i \in 1..n : Append(got[c], page)[i] = got[c][i]
    <2>1. got[c] \in Seq(Contents)
        BY At
    <2> QED BY <1>7, <2>1, AppendFacts
<1>9. got'[c] = Append(got[c], page) /\ sndq'[c] = <<>>
    BY <1>1, <1>6 DEF Types
<1>10. Len(got'[c]) = n + 1 /\ Len(sndq'[c]) = 0
    BY <1>6, <1>8, <1>9
<1>11. ASSUME NEW i \in 1..(n + 1) PROVE got'[c][i] = Wanted(asked[c][i])
    <2>1. CASE i = n + 1
        BY <1>7, <1>8, <1>9, <2>1
    <2>2. CASE i # n + 1
        <3>1. i \in 1..n
            BY <1>5, <2>2
        <3>2. got[c][i] = Wanted(asked[c][i])
            BY <1>2, <3>1 DEF Turn
        <3> QED BY <1>8, <1>9, <3>1, <3>2
    <2> QED BY <2>1, <2>2
<1>12. /\ Len(asked[c]) = Len(got'[c]) + Len(sndq'[c]) + Len(wire'[c])
       /\ Len(asked[c]) <= Len(got'[c]) + 1
    <2>1. Len(wire'[c]) = 0
        BY <1>1, <1>5
    <2> QED BY <1>3, <1>5, <1>10, <2>1
<1>13. Turn(c)'
    BY <1>1, <1>2, <1>3, <1>6, <1>9, <1>10, <1>11, <1>12 DEF Turn
<1>14. ASSUME NEW d \in Conns, d # c PROVE Turn(d)'
    <2>1. Turn(d) /\ Same(d)
        BY <1>1, <1>14 DEF SerialInv, Same, Types
    <2> QED BY <1>1, <2>1, TurnKept
<1>15. Service!Answer(c)
    <2>1. n < Len(asked[c])
        BY <1>3, <1>5
    <2>2. got' = [got EXCEPT ![c] = Append(got[c], Service!Due(c))]
        BY <1>1, <1>7 DEF Service!Due
    <2>3. UNCHANGED <<conn, asked, dropped>>
        BY DEF Receive
    <2> QED BY <2>1, <2>2, <2>3 DEF Service!Answer
<1> QED BY <1>1, <1>13, <1>14, <1>15 DEF SerialInv

\* Every step keeps the invariant and is a step of the service, or none.
LEMMA SerialStep ==
    ASSUME Serial, Types, SerialInv, [Next]_vars
    PROVE  SerialInv' /\ [Service!Next]_(Service!vars)
<1>1. CASE UNCHANGED vars
    <2>1. UNCHANGED <<conn, asked, got, dropped>> /\ SerialInv'
        BY <1>1 DEF vars, client, state, SerialInv, Turn
    <2> QED BY <2>1 DEF Service!vars
<1>2. ASSUME NEW c \in Conns, Close(c) \/ Reset(c) \/ RecvFin(c)
      PROVE  SerialInv' /\ [Service!Next]_(Service!vars)
    <2>1. CASE Close(c)
        <3>1. Service!Leave(c)
            BY <2>1 DEF Close, Service!Leave
        <3> QED BY <1>2, <3>1, SerialClose DEF Service!Next
    <2>2. CASE Reset(c)
        BY <2>2 DEF Reset, Serial
    <2>3. CASE RecvFin(c)
        <3>1. UNCHANGED Service!vars
            BY <2>3 DEF RecvFin, client, Service!vars
        <3> QED BY <1>2, <3>1, SerialClose
    <2> QED BY <1>2, <2>1, <2>2, <2>3
<1>3. ASSUME NEW c \in Conns, NEW r \in Requests, Ask(c, r)
      PROVE  SerialInv' /\ [Service!Next]_(Service!vars)
    <2>1. Service!Ask(c, r)
        BY <1>3 DEF Ask, Service!Ask
    <2> QED BY <1>3, <2>1, SerialAsk DEF Service!Next
<1>4. ASSUME NEW c \in Conns, Accept(c)
      PROVE  SerialInv' /\ [Service!Next]_(Service!vars)
    <2>1. Service!Connect(c)
        BY <1>4 DEF Accept, Service!Connect
    <2> QED BY <1>4, <2>1, SerialAccept DEF Service!Next
<1>5. ASSUME NEW c \in Conns, Deliver(c)
      PROVE  SerialInv' /\ [Service!Next]_(Service!vars)
    BY <1>5, SerialDeliver
<1>6. ASSUME NEW c \in Conns, Redeliver(c) PROVE FALSE
    BY <1>6 DEF Redeliver, SerialInv, Turn
<1>7. ASSUME NEW c \in Conns, Receive(c)
      PROVE  SerialInv' /\ [Service!Next]_(Service!vars)
    BY <1>7, SerialReceive DEF Service!Next
<1> QED BY <1>1, <1>2, <1>3, <1>4, <1>5, <1>6, <1>7 DEF Next, Client, Lwip

LEMMA SerialInit == Init => SerialInv /\ Service!Init
<1> SUFFICES ASSUME Init PROVE SerialInv /\ Service!Init
    OBVIOUS
<1>1. Len(<<>>) = 0
    BY EmptySeq
<1>2. ASSUME NEW c \in Conns PROVE Turn(c)
    <2>1. /\ conn[c] = "none" /\ asked[c] = <<>> /\ got[c] = <<>> /\ wire[c] = <<>>
          /\ refused[c] = <<>> /\ sndq[c] = <<>>
        BY DEF Init
    <2> QED BY <1>1, <2>1 DEF Turn
<1> QED BY <1>2 DEF Init, SerialInv, Service!Init

\* With one patient client at a time the shared record mixes no two requests
\* up: every client gets the pages it asked for, in order, copied or not.
THEOREM SerialAnswers ==
    ASSUME Serial
    PROVE  Spec => []AnswersMatch
<1>1. SerialInv /\ Types => AnswersMatch
    <2> SUFFICES ASSUME SerialInv, Types, NEW c \in Conns
                 PROVE  /\ Len(got[c]) <= Len(asked[c])
                        /\ \A i \in 1..Len(got[c]) : got[c][i] = Wanted(asked[c][i])
        BY DEF AnswersMatch
    <2>1. Turn(c)
        BY DEF SerialInv
    <2> DEFINE a == Len(asked[c])  g == Len(got[c])  s == Len(sndq[c])  w == Len(wire[c])
    <2>2. a \in Nat /\ g \in Nat /\ s \in Nat /\ w \in Nat
        BY At
    <2>3. a = g + s + w \/ a = g + 1
        BY <2>1 DEF Turn
    <2> HIDE DEF a, g, s, w
    <2>4. g <= a
        BY ONLY <2>2, <2>3
    <2> QED BY <2>1, <2>4 DEF Turn, a, g
<1>2. Types /\ SerialInv /\ [Next]_vars => SerialInv'
    BY SerialStep
<1>3. Init => SerialInv
    BY SerialInit
<1> QED BY <1>1, <1>2, <1>3, TypesAlways, PTL DEF Spec

\* ... and every step of the server is a step of HttpService.
THEOREM SerialImplements ==
    ASSUME Serial
    PROVE  Spec => Service!Init /\ [][Service!Next]_(Service!vars)
<1>1. Types /\ SerialInv /\ [Next]_vars => SerialInv' /\ [Service!Next]_(Service!vars)
    BY SerialStep
<1>2. Init => SerialInv /\ Service!Init
    BY SerialInit
<1> QED BY <1>1, <1>2, TypesAlways, PTL DEF Spec
=============================================================================
