----------------------------- MODULE PageRender -----------------------------
(* How webserver.c makes a page: the files are read from the card into the   *)
(* heap, the lines of the log become table rows, rows are gathered in sets,  *)
(* one set per page, and the page asked for is put together and formatted    *)
(* into send_data.  The heap is counted in blocks; what a view does not free *)
(* the next view does not have.  Rows are what a line's sscanf left in the   *)
(* field variables; text, templates and buttons are left out.                *)
EXTENDS Integers, Sequences

CONSTANTS
    LinesPerSet, MaxSets,  \* LINES_PER_SET, MAX_SETS
    Fields,     \* conversions of the format at 118
    BufRows,    \* rows that fit in the row buffer of BUF_SIZE
    SendRows,   \* rows that fit in send_data next to the rest of the page
    HeapSize,   \* blocks the heap has room for
    Logs,       \* what log_output.txt may hold: for each line, the number of
                \* fields that can be read from it
    MaxAlerts,  \* bound: lines in alert.txt
    MaxViews    \* bound: pages asked for

ASSUME RenderAssumption ==
    /\ {LinesPerSet, MaxSets, Fields, BufRows, SendRows} \subseteq Nat \ {0}
    /\ LinesPerSet <= BufRows /\ LinesPerSet <= SendRows
    /\ {HeapSize, MaxAlerts, MaxViews} \subseteq Nat
    /\ Logs \subseteq Seq(0..Fields)

VARIABLES
    pc,      \* the step of the view in progress, "idle" or "dead"
    kind,    \* "log" or "alert"
    page,    \* current_page
    log,     \* log_output (of an alert view: alert_output)
    count,   \* lines taken so far
    field,   \* timestamp .. flag: the line each was last read from, 0 for none
    buf,     \* concatenated_html
    sets,    \* sets_array, as far as it is filled
    lines,   \* lines_of_logs: <<rows>>, or <<>> for a pointer to no set
    heap,    \* allocated blocks of each sort
    sent,    \* the latest answer: what it is, its rows, and the rows its
             \* Content-Length counts
    failed,  \* a read or an allocation of this view returned NULL, and so did
             \* the functions it was made for
    views

locals == <<kind, page, log, count, field, buf, sets, lines>>
vars == <<pc, locals, heap, sent, failed, views>>

Row == [no : Nat, from : [1..Fields -> Nat]]
Sorts == {"file", "sets", "buf", "set", "page"}
Blocks == heap["file"] + heap["sets"] + heap["buf"] + heap["set"] + heap["page"]

TypeOK ==
    /\ pc \in {"idle", "html", "log", "buffers", "rows", "pick",
               "assemble", "alert", "alertHtml", "alertBuffer", "alertRows",
               "null", "dead"}
    /\ kind \in {"log", "alert"} /\ page \in Nat
    /\ log \in Seq(0..Fields) /\ count \in 0..Len(log)
    /\ field \in [1..Fields -> 0..count]
    /\ buf \in Seq(Row) /\ Len(buf) <= BufRows
    /\ sets \in Seq(Seq(Row)) /\ Len(sets) <= MaxSets
    /\ lines = <<>> \/ \E s \in 1..Len(sets) : lines = <<sets[s]>>
    /\ heap \in [Sorts -> 0..HeapSize] /\ Blocks <= HeapSize
    /\ sent.what \in {"none", "page", "default", "junk"}
    /\ sent.rows \in Seq(Row) /\ Len(sent.rows) <= SendRows
    /\ failed \in BOOLEAN /\ views \in 0..MaxViews

NoField == [f \in 1..Fields |-> 0]
Nothing(what) == [what |-> what, rows |-> <<>>, length |-> 0]

Init ==
    /\ pc = "idle" /\ kind = "log" /\ page = 1 /\ log = <<>> /\ count = 0
    /\ field = NoField /\ buf = <<>> /\ sets = <<>> /\ lines = <<>>
    /\ heap = [s \in Sorts |-> 0]
    /\ sent = Nothing("none") /\ failed = FALSE /\ views = 0

(***************************************************************************)
(* The heap, and read_sd_card, which returns a block with the whole file.  *)
(***************************************************************************)
Malloc(s) == Blocks < HeapSize /\ heap' = [heap EXCEPT ![s] = @ + 1] /\ UNCHANGED failed
NoMemory == failed' = TRUE   \* blocks differ in size, the heap may be in pieces
ReadOk == Malloc("file")
ReadNull == failed' = TRUE /\ UNCHANGED heap   \* the card or the heap fails

\* http_server_send_data: the header counts every byte of the page, the page
\* is cut where send_data ends.
Send(rows) ==
    /\ sent' = [what |-> "page", length |-> Len(rows),
                rows |-> SubSeq(rows, 1, IF Len(rows) < SendRows THEN Len(rows) ELSE SendRows)]
    /\ pc' = "idle"
SendDefault == sent' = Nothing("default") /\ pc' = "idle"

\* response_data is NULL: whatever is read at address 0 is sent, or the core
\* stops.
Null ==
    /\ pc = "null"
    /\ \/ sent' = Nothing("junk") /\ pc' = "idle"
       \/ UNCHANGED sent /\ pc' = "dead"
    /\ UNCHANGED <<locals, heap, failed, views>>

\* A request: page p of the log, or the alerts.
Ask(k, p, content) ==
    /\ pc = "idle" /\ views < MaxViews
    /\ kind' = k /\ page' = p /\ log' = content
    /\ count' = 0 /\ field' = NoField /\ buf' = <<>> /\ sets' = <<>> /\ lines' = <<>>
    /\ failed' = FALSE /\ views' = views + 1
    /\ pc' = IF k = "log" THEN "html" ELSE "alert"
    /\ UNCHANGED <<heap, sent>>

(***************************************************************************)
(* access_page and get_data_sd.                                            *)
(***************************************************************************)
Html ==
    /\ pc = "html"
    /\ \/ ReadOk /\ pc' = "log" /\ UNCHANGED sent
       \/ ReadNull /\ SendDefault
    /\ UNCHANGED <<locals, views>>

\* Without a log get_data_sd returns NULL, whose [current_page-1] is no set.
Log ==
    /\ pc = "log"
    /\ \/ ReadOk /\ pc' = "buffers"
       \/ ReadNull /\ pc' = "pick"
    /\ UNCHANGED <<locals, sent, views>>

\* sets_array and the row buffer.  The first is not looked at; it is the
\* smaller, and when it is NULL so is the second.
Buffers ==
    /\ pc = "buffers"
    /\ \/ /\ Blocks + 2 <= HeapSize
          /\ heap' = [heap EXCEPT !["sets"] = @ + 1, !["buf"] = @ + 1]
          /\ pc' = "rows" /\ UNCHANGED failed
       \/ /\ Blocks < HeapSize /\ NoMemory
          /\ heap' = [heap EXCEPT !["sets"] = @ + 1]
          /\ pc' = "pick"
       \/ NoMemory /\ UNCHANGED heap /\ pc' = "pick"
    /\ UNCHANGED <<locals, sent, views>>

\* sscanf assigns the fields it can read and leaves the others.
Scanned(n) == [f \in 1..Fields |-> IF f <= n THEN count + 1 ELSE field[f]]
NextRow(fields) == [no |-> count + 1, from |-> fields]

\* Mutant: the buffer is not started anew.
KeepRows ==
    /\ pc = "rows" /\ count < Len(log) /\ Len(buf) < BufRows
    /\ count' = count + 1
    /\ field' = Scanned(log[count + 1])
    /\ LET rows == Append(buf, NextRow(field')) IN
       IF count' % LinesPerSet = 0
       THEN /\ Malloc("set") /\ sets' = Append(sets, rows) /\ buf' = rows
            /\ pc' = IF Len(sets') = MaxSets THEN "pick" ELSE "rows"
       ELSE /\ buf' = rows /\ UNCHANGED <<sets, heap, failed, pc>>
    /\ UNCHANGED <<kind, page, log, lines, sent, views>>

\* One turn of the loop over strtok: the row is appended (it fits, as every
\* field is cut to its width), and with
\* LINES_PER_SET of them the set is copied and the buffer starts anew; with
\* MAX_SETS sets the loop ends.
Line ==
    /\ pc = "rows" /\ count < Len(log) /\ Len(buf) < BufRows
    /\ count' = count + 1
    /\ field' = Scanned(log[count + 1])
    /\ LET rows == Append(buf, NextRow(field')) IN
       IF count' % LinesPerSet # 0
       THEN buf' = rows /\ UNCHANGED <<sets, heap, failed, pc>>
       ELSE \/ /\ Malloc("set") /\ sets' = Append(sets, rows) /\ buf' = <<>>
               /\ pc' = IF Len(sets') = MaxSets THEN "pick" ELSE "rows"
            \/ /\ NoMemory /\ heap' = [heap EXCEPT !["buf"] = @ - 1]
               /\ sets' = <<>> /\ buf' = <<>> /\ pc' = "pick"
    /\ UNCHANGED <<kind, page, log, lines, sent, views>>

\* Mutant: only whole sets count.
WholeSets ==
    /\ pc = "rows" /\ count = Len(log)
    /\ pc' = "pick"
    /\ UNCHANGED <<kind, page, log, count, field, buf, sets, heap, failed, lines, sent, views>>

\* The rest of the lines makes the last, shorter set.
LastSet ==
    /\ pc = "rows" /\ count = Len(log)
    /\ IF count % LinesPerSet = 0
       THEN pc' = "pick" /\ UNCHANGED <<sets, heap, failed>>
       ELSE \/ Malloc("set") /\ sets' = Append(sets, buf) /\ pc' = "pick"
            \/ /\ NoMemory /\ heap' = [heap EXCEPT !["buf"] = @ - 1]
               /\ sets' = <<>> /\ pc' = "pick"
    /\ UNCHANGED <<kind, page, log, count, field, buf, lines, sent, views>>

\* access_page takes its set.  Without sets, or for a page they do not have,
\* the pointer is whatever is found.
Pick ==
    /\ pc = "pick"
    /\ lines' = IF ~failed /\ page \in 1..Len(sets) THEN <<sets[page]>> ELSE <<>>
    /\ heap' = IF failed THEN heap ELSE [heap EXCEPT !["sets"] = @ - 1]
    /\ pc' = "assemble"
    /\ UNCHANGED <<kind, page, log, count, field, buf, sets, sent, failed, views>>

\* Mutant: the set is freed twice.
FreeTwice ==
    /\ pc = "assemble" /\ lines # <<>>
    /\ \/ /\ Blocks < HeapSize
          /\ heap' = [heap EXCEPT !["page"] = @ + 1, !["file"] = @ - 1, !["set"] = @ - 2]
          /\ Send(lines[1]) /\ UNCHANGED failed
       \/ /\ NoMemory /\ heap' = [heap EXCEPT !["set"] = @ - 1]
          /\ pc' = "null" /\ UNCHANGED sent
    /\ UNCHANGED <<locals, views>>

Assemble ==
    /\ pc = "assemble" /\ lines # <<>>
    /\ \/ /\ Blocks < HeapSize
          /\ heap' = [heap EXCEPT !["page"] = @ + 1, !["file"] = @ - 1, !["set"] = @ - 1]
          /\ Send(lines[1]) /\ UNCHANGED failed
       \/ /\ NoMemory /\ heap' = [heap EXCEPT !["set"] = @ - 1]
          /\ pc' = "null" /\ UNCHANGED sent
    /\ UNCHANGED <<locals, views>>

\* Mutant: without rows the template is kept.
KeepTemplate ==
    /\ pc = "assemble" /\ lines = <<>>
    /\ \/ pc' = "dead" /\ UNCHANGED <<heap, sent, failed>>
       \/ /\ Blocks < HeapSize
          /\ heap' = [heap EXCEPT !["page"] = @ + 1]
          /\ sent' = Nothing("junk") /\ pc' = "idle" /\ UNCHANGED failed
       \/ NoMemory /\ pc' = "null" /\ UNCHANGED <<heap, sent>>
    /\ UNCHANGED <<locals, views>>

\* The same with a pointer to no set: it is measured, printed and freed.  When
\* the core survives that, the heap is taken to have survived it too.
AssembleStray ==
    /\ pc = "assemble" /\ lines = <<>>
    /\ \/ pc' = "dead" /\ UNCHANGED <<heap, sent, failed>>
       \/ /\ Blocks < HeapSize
          /\ heap' = [heap EXCEPT !["page"] = @ + 1, !["file"] = @ - 1]
          /\ sent' = Nothing("junk") /\ pc' = "idle" /\ UNCHANGED failed
       \/ NoMemory /\ pc' = "null" /\ UNCHANGED <<heap, sent>>
    /\ UNCHANGED <<locals, views>>

(***************************************************************************)
(* get_alert_data_sd.                                                      *)
(***************************************************************************)
Alert ==
    /\ pc = "alert"
    /\ \/ ReadOk /\ pc' = "alertHtml" /\ UNCHANGED sent
       \/ ReadNull /\ SendDefault
    /\ UNCHANGED <<locals, views>>

AlertHtml ==
    /\ pc = "alertHtml"
    /\ \/ ReadOk /\ pc' = "alertBuffer" /\ UNCHANGED sent
       \/ ReadNull /\ SendDefault
    /\ UNCHANGED <<locals, views>>

AlertBuffer ==
    /\ pc = "alertBuffer"
    /\ \/ Malloc("buf") /\ pc' = "alertRows"
       \/ NoMemory /\ UNCHANGED heap /\ pc' = "null"
    /\ UNCHANGED <<locals, sent, views>>

\* A turn of the loop; with the buffer full there is no page.
AlertLine ==
    /\ pc = "alertRows" /\ count < Len(log)
    /\ IF Len(buf) < BufRows
       THEN /\ count' = count + 1
            /\ field' = Scanned(Fields)
            /\ buf' = Append(buf, NextRow(field'))
            /\ UNCHANGED <<heap, pc, failed>>
       ELSE /\ heap' = [heap EXCEPT !["buf"] = @ - 1]
            /\ pc' = "null" /\ failed' = TRUE /\ UNCHANGED <<count, field, buf>>
    /\ UNCHANGED <<kind, page, log, sets, lines, sent, views>>

AlertPage ==
    /\ pc = "alertRows" /\ count = Len(log)
    /\ \/ /\ Blocks < HeapSize
          /\ heap' = [heap EXCEPT !["page"] = @ + 1, !["buf"] = @ - 1]
          /\ Send(buf) /\ UNCHANGED failed
       \/ /\ NoMemory /\ heap' = [heap EXCEPT !["buf"] = @ - 1]
          /\ pc' = "null" /\ UNCHANGED sent
    /\ UNCHANGED <<locals, views>>

View ==
    \/ Html \/ Log \/ Buffers \/ Line \/ LastSet \/ Pick \/ Assemble \/ AssembleStray
    \/ Alert \/ AlertHtml \/ AlertBuffer \/ AlertLine \/ AlertPage \/ Null

Next ==
    \/ \E p \in 0..MaxSets + 1 : \E content \in Logs : Ask("log", p, content)
    \/ \E n \in 0..MaxAlerts : Ask("alert", 1, [i \in 1..n |-> Fields])
    \/ View

Spec == Init /\ [][Next]_vars

(***************************************************************************)
(* Properties.                                                             *)
(***************************************************************************)
FirstLine == (page - 1) * LinesPerSet + 1
LastLine ==
    LET end == page * LinesPerSet IN IF Len(log) < end THEN Len(log) ELSE end
\* A page the log has lines for, among the MaxSets that are kept.
Exists == page \in 1..MaxSets /\ FirstLine <= Len(log)

Done == pc = "idle" /\ views > 0

\* A page of the log shows its own lines, all of them, in order and under
\* their numbers, the last page the rest that fills no set (132-176); and each
\* row shows what its line holds in the fields the line has.
PageShowsItsLines ==
    (Done /\ kind = "log" /\ sent.what = "page") =>
        /\ Exists
        /\ Len(sent.rows) = LastLine - FirstLine + 1
        /\ \A i \in 1..Len(sent.rows) :
            LET n == FirstLine + i - 1 IN
            /\ sent.rows[i].no = n
            /\ \A f \in 1..log[n] : sent.rows[i].from[f] = n

\* Whatever the log holds, a page that exists is served unless the card or the
\* heap failed during this view: the loop, its early end at MAX_SETS and the
\* rest leave no page out (151, 161).
ExistingPageServed ==
    (Done /\ kind = "log" /\ Exists /\ ~failed) => sent.what = "page"

\* Whichever way a view ends, it keeps no more than the text, the buffer, the
\* sets and the page it made: the heap lasts for HeapSize \div (MaxSets + 3)
\* views (177, 203, 210, and that send_data frees no page).
LeakIsBounded == pc = "idle" => Blocks <= views * (MaxSets + 3)

\* A row shows fields of its own line only (118: sscanf's result is unread).
RowIsItsLine ==
    \A i \in 1..Len(sent.rows) : \A f \in 1..Fields :
        sent.rows[i].from[f] = sent.rows[i].no

\* Content-Length counts what is sent (278-285).
LengthMatches == sent.length = Len(sent.rows)

\* A view gives back what it took (README: the Pico serves the page, then
\* resumes the main loop).
NothingLeaks == pc = "idle" => Blocks = 0
=============================================================================
