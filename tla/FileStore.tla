------------------------------ MODULE FileStore ------------------------------
(* What the files on the card promise: whenever the power fails, a file      *)
(* holds what it held before, or nothing if its creation has begun, or what  *)
(* its writer had written when it was closed, and no file changes but the    *)
(* one that is written.  FatVolume implements this.                          *)
EXTENDS Sequences

CONSTANTS Files, Units, Nobody

VARIABLES
    durable,  \* what each file holds should the power fail now
    asked,    \* what it holds as far as the file system has been told
    writer,   \* the open file, or Nobody
    text      \* what it is to hold

store == <<durable, asked, writer, text>>

Init ==
    /\ durable \in [Files -> Seq(Units)] /\ asked = durable
    /\ writer = Nobody /\ text = <<>>

Truncate(f) ==
    /\ asked' = [asked EXCEPT ![f] = <<>>]
    /\ UNCHANGED <<durable, writer, text>>

\* Opened for a text of its own, or to go on with the one it has.
Open(f) ==
    /\ writer = Nobody /\ writer' = f /\ text' = asked[f]
    /\ UNCHANGED <<durable, asked>>

Put(u) ==
    /\ writer # Nobody /\ text' = Append(text, u)
    /\ UNCHANGED <<durable, asked, writer>>

Close ==
    /\ writer # Nobody /\ asked' = [asked EXCEPT ![writer] = text]
    /\ UNCHANGED <<durable, writer, text>>

Settle == durable' = asked /\ UNCHANGED <<asked, writer, text>>

Leave == writer' = Nobody /\ text' = <<>> /\ UNCHANGED <<durable, asked>>

Lose == asked' = durable /\ writer' = Nobody /\ text' = <<>> /\ UNCHANGED durable

Next ==
    \/ \E f \in Files : Truncate(f) \/ Open(f)
    \/ \E u \in Units : Put(u)
    \/ Close \/ Settle \/ Leave \/ Lose

Spec == Init /\ [][Next]_store
=============================================================================
