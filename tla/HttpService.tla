---------------------------- MODULE HttpService ----------------------------
(* What the web server promises the clients, without pcbs, windows or shared *)
(* buffers: each connection is a queue of questions, answered one by one, or *)
(* given up for want of room.                                                *)
EXTENDS Naturals, Sequences

CONSTANTS
    Conns, Requests,
    Page(_),   \* Page(r): the page request r asks for
    Fits(_)    \* whether there is room for a page when nothing else takes any

VARIABLES conn, asked, got,
    lost       \* connections with a question that was given up
vars == <<conn, asked, got, lost>>

Init ==
    /\ conn = [c \in Conns |-> "none"]
    /\ asked = [c \in Conns |-> <<>>] /\ got = [c \in Conns |-> <<>>]
    /\ lost = {}

Connect(c) ==
    /\ conn[c] = "none"
    /\ conn' = [conn EXCEPT ![c] = "open"]
    /\ UNCHANGED <<asked, got, lost>>

Ask(c, r) ==
    /\ conn[c] = "open"
    /\ asked' = [asked EXCEPT ![c] = Append(@, r)]
    /\ UNCHANGED <<conn, got, lost>>

Due(c) == Page(asked[c][Len(got[c]) + 1])

Answer(c) ==
    /\ Len(got[c]) < Len(asked[c])
    /\ got' = [got EXCEPT ![c] = Append(@, Due(c))]
    /\ UNCHANGED <<conn, asked, lost>>

\* The page is too big, or the pages of another client may take the room.
Lose(c) ==
    /\ Len(got[c]) < Len(asked[c])
    /\ ~Fits(Due(c)) \/ \E d \in Conns \ {c} : got[d] # <<>>
    /\ lost' = lost \cup {c}
    /\ UNCHANGED <<conn, asked, got>>

Leave(c) ==
    /\ conn[c] = "open"
    /\ \E how \in {"closed", "reset"} : conn' = [conn EXCEPT ![c] = how]
    /\ UNCHANGED <<asked, got, lost>>

Next == \E c \in Conns :
    \/ Connect(c) \/ Answer(c) \/ Lose(c) \/ Leave(c)
    \/ \E r \in Requests : Ask(c, r)

\* A client that stays and was not given up is answered.
Fairness == \A c \in Conns : WF_vars(conn[c] = "open" /\ c \notin lost /\ Answer(c))

Spec == Init /\ [][Next]_vars /\ Fairness
=============================================================================
