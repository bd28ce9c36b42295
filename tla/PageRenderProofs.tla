------------------------- MODULE PageRenderProofs -------------------------
(* Proofs about PageRender, for every number of lines per set, of sets, of   *)
(* fields, every heap and every log: the types and the allocations they      *)
(* rest on, the bound on what a view leaks, that a page shows its lines and  *)
(* that an existing page is served unless something failed.                  *)
EXTENDS PageRender, SequenceTheorems, TLAPS

Looping == pc \in {"rows", "alertRows"}

\* Everything but the heap.
DataOK ==
    /\ pc \in {"idle", "html", "log", "buffers", "rows", "pick",
               "assemble", "alert", "alertHtml", "alertBuffer", "alertRows",
               "null", "dead"}
    /\ kind \in {"log", "alert"} /\ page \in Nat
    /\ log \in Seq(0..Fields) /\ count \in 0..Len(log)
    /\ field \in [1..Fields -> 0..count]
    /\ buf \in Seq(Row) /\ Len(buf) <= BufRows
    /\ sets \in Seq(Seq(Row)) /\ Len(sets) <= MaxSets
    /\ lines = <<>> \/ \E s \in 1..Len(sets) : lines = <<sets[s]>>
    /\ sent.what \in {"none", "page", "default", "junk"}
    /\ sent.rows \in Seq(Row) /\ Len(sent.rows) <= SendRows
    /\ failed \in BOOLEAN /\ views \in 0..MaxViews

\* The loop over the log runs with room for one more set, without a failure
\* and before any set is picked.
LoopOK ==
    /\ pc \in {"log", "buffers", "rows", "pick"} => lines = <<>>
    /\ pc = "rows" => Len(sets) < MaxSets /\ ~failed
    /\ pc = "html" => sets = <<>> /\ lines = <<>> /\ ~failed
    /\ pc \in {"log", "buffers"} => sets = <<>> /\ ~failed

\* What is allocated at each step, at the least: what the step frees is there.
Allocated ==
    /\ heap \in [Sorts -> Nat] /\ Blocks <= HeapSize
    /\ pc \in {"log", "buffers", "rows", "pick", "assemble"} => heap["file"] >= 1
    /\ (pc = "rows" \/ (pc = "pick" /\ ~failed)) => heap["sets"] >= 1 /\ heap["set"] >= Len(sets)
    /\ Looping => heap["buf"] >= 1
    /\ (pc = "assemble" /\ lines # <<>>) => heap["set"] >= 1

\* ... and at the most, beyond what earlier views left.
View0 == MaxSets + 3
Excess == Blocks - (views - 1) * View0
Leaked ==
    /\ pc \in {"idle", "null"} => Excess <= View0
    /\ pc \in {"html", "alert"} => Excess <= 0
    /\ pc \in {"log", "alertHtml"} => Excess <= 1
    /\ pc \in {"buffers", "alertBuffer"} => Excess <= 2
    /\ pc = "alertRows" => Excess <= 3
    /\ pc = "rows" => Excess <= 4 + Len(sets)
    /\ pc = "pick" => Excess <= (IF failed THEN MaxSets + 2 ELSE 4 + Len(sets))
    /\ pc = "assemble" => Excess <= 3 + MaxSets

HeapInv == DataOK /\ LoopOK /\ Allocated /\ Leaked

LEMMA HeapInvType == HeapInv => TypeOK
<1> SUFFICES ASSUME HeapInv PROVE TypeOK
  OBVIOUS
<1>1. heap \in [Sorts -> 0..HeapSize]
  <2>1. heap \in [Sorts -> Nat] /\ Blocks <= HeapSize /\ HeapSize \in Nat
    BY RenderAssumption DEF HeapInv, Allocated
  <2>2. ASSUME NEW s \in Sorts PROVE heap[s] \in 0..HeapSize
    BY <2>1 DEF Sorts, Blocks
  <2> QED BY <2>1, <2>2
<1> QED BY <1>1 DEF HeapInv, DataOK, Allocated, TypeOK

LEMMA InitHeapInv == Init => HeapInv
<1> SUFFICES ASSUME Init PROVE HeapInv
  OBVIOUS
<1>1. /\ <<>> \in Seq(0..Fields) /\ <<>> \in Seq(Row) /\ <<>> \in Seq(Seq(Row))
      /\ Len(<<>>) = 0
      /\ sent.what = "none" /\ sent.rows = <<>>
  BY DEF Init, Nothing
<1>2. DataOK
  <2>1. count = 0 /\ log = <<>> /\ count \in 0..Len(log)
    BY <1>1 DEF Init
  <2>2. field \in [1..Fields -> 0..count]
    BY <2>1 DEF Init, NoField
  <2>3. Len(buf) <= BufRows /\ Len(sets) <= MaxSets /\ Len(sent.rows) <= SendRows
    BY <1>1, RenderAssumption DEF Init
  <2>4. views \in 0..MaxViews
    BY RenderAssumption DEF Init
  <2> QED BY <1>1, <2>1, <2>2, <2>3, <2>4 DEF Init, DataOK
<1>3. LoopOK /\ Allocated /\ Leaked
  BY <1>1, RenderAssumption DEF Init, LoopOK, Allocated, Looping, Leaked, Excess, View0, Blocks, Sorts
<1> QED BY <1>2, <1>3 DEF HeapInv

\* The sum of the heap's counts under the updates the actions make.
Sum(h) == h["file"] + h["sets"] + h["buf"] + h["set"] + h["page"]

Plus(h, s, d) == [h EXCEPT ![s] = @ + d]

LEMMA AddBlocks ==
  ASSUME NEW h \in [Sorts -> Nat], NEW s \in Sorts, NEW d \in Int, h[s] + d >= 0
  PROVE  /\ Plus(h, s, d) \in [Sorts -> Nat] /\ Sum(Plus(h, s, d)) = Sum(h) + d
         /\ Plus(h, s, d)[s] = h[s] + d
         /\ \A x \in Sorts : x # s => Plus(h, s, d)[x] = h[x]
<1> DEFINE g == Plus(h, s, d)
<1>1. \A x \in Sorts : h[x] \in Nat
  OBVIOUS
<1>2. g[s] = h[s] + d /\ \A x \in Sorts : x # s => g[x] = h[x]
  BY DEF Plus
<1>3. h[s] + d \in Nat
  BY <1>1
<1>4. g \in [Sorts -> Nat]
  BY <1>3 DEF Plus
<1> HIDE DEF g
<1>5. Sum(g) = Sum(h) + d
  <2>1. /\ h["file"] \in Nat /\ h["sets"] \in Nat /\ h["buf"] \in Nat
        /\ h["set"] \in Nat /\ h["page"] \in Nat
    BY <1>1 DEF Sorts
  <2>2. \A x \in {"file", "sets", "buf", "set", "page"} : x # s => g[x] = h[x]
    BY <1>2 DEF Sorts
  <2>3. s \in {"file", "sets", "buf", "set", "page"}
    BY DEF Sorts
  <2>4. CASE s = "file"
    BY <1>2, <2>1, <2>2, <2>4 DEF Sum
  <2>5. CASE s = "sets"
    BY <1>2, <2>1, <2>2, <2>5 DEF Sum
  <2>6. CASE s = "buf"
    BY <1>2, <2>1, <2>2, <2>6 DEF Sum
  <2>7. CASE s = "set"
    BY <1>2, <2>1, <2>2, <2>7 DEF Sum
  <2>8. CASE s = "page"
    BY <1>2, <2>1, <2>2, <2>8 DEF Sum
  <2> QED BY <2>3, <2>4, <2>5, <2>6, <2>7, <2>8
<1> QED BY <1>2, <1>4, <1>5 DEF g

LEMMA MallocBlocks ==
  ASSUME heap \in [Sorts -> Nat], NEW s \in Sorts, heap' = [heap EXCEPT ![s] = @ + 1]
  PROVE  /\ heap' \in [Sorts -> Nat] /\ Blocks' = Blocks + 1
         /\ heap'[s] = heap[s] + 1 /\ \A x \in Sorts : x # s => heap'[x] = heap[x]
<1>1. heap[s] + 1 >= 0 /\ 1 \in Int
  OBVIOUS
<1>2. heap' = Plus(heap, s, 1)
  BY DEF Plus
<1> DEFINE g == Plus(heap, s, 1)
<1>3. /\ g \in [Sorts -> Nat] /\ Sum(g) = Sum(heap) + 1
      /\ g[s] = heap[s] + 1 /\ \A x \in Sorts : x # s => g[x] = heap[x]
  BY ONLY heap \in [Sorts -> Nat], s \in Sorts, <1>1, AddBlocks
<1> HIDE DEF g
<1>4. heap' = g
  BY <1>2 DEF g
<1> QED BY <1>3, <1>4 DEF Sum, Blocks

LEMMA FreeBlocks ==
  ASSUME heap \in [Sorts -> Nat], NEW s \in Sorts, heap[s] >= 1,
         heap' = [heap EXCEPT ![s] = @ - 1]
  PROVE  /\ heap' \in [Sorts -> Nat] /\ Blocks' = Blocks - 1
         /\ \A x \in Sorts : x # s => heap'[x] = heap[x]
<1>1. heap[s] + (-1) >= 0 /\ -1 \in Int /\ heap[s] - 1 = heap[s] + (-1)
  OBVIOUS
<1>2. heap' = Plus(heap, s, -1)
  BY <1>1 DEF Plus
<1> DEFINE g == Plus(heap, s, -1)
<1>3. /\ g \in [Sorts -> Nat] /\ Sum(g) = Sum(heap) + (-1)
      /\ \A x \in Sorts : x # s => g[x] = heap[x]
  BY ONLY heap \in [Sorts -> Nat], s \in Sorts, <1>1, AddBlocks
<1> HIDE DEF g
<1>4. heap' = g
  BY <1>2 DEF g
<1>5. Sum(heap) \in Int
  BY DEF Sum, Sorts
<1> QED BY <1>3, <1>4, <1>5 DEF Sum, Blocks

\* Two updates are one after the other: so is their effect on the sum.
LEMMA SwapBlocks ==
  ASSUME NEW h \in [Sorts -> Nat], NEW s \in Sorts, NEW t \in Sorts, s # t,
         NEW d \in Int, h[t] + d >= 0
  PROVE  LET g == Plus(Plus(h, s, 1), t, d) IN
         /\ g \in [Sorts -> Nat] /\ Sum(g) = Sum(h) + 1 + d
         /\ g[s] = h[s] + 1 /\ g[t] = h[t] + d
         /\ \A x \in Sorts : (x # s /\ x # t) => g[x] = h[x]
<1> DEFINE m == Plus(h, s, 1)
<1> DEFINE g == Plus(m, t, d)
<1>1. h[s] \in Nat /\ h[s] + 1 >= 0 /\ 1 \in Int
  OBVIOUS
<1>2. /\ m \in [Sorts -> Nat] /\ Sum(m) = Sum(h) + 1 /\ m[s] = h[s] + 1
      /\ \A x \in Sorts : x # s => m[x] = h[x]
  BY <1>1, AddBlocks
<1> HIDE DEF m
<1>3. m[t] + d >= 0
  BY <1>2
<1>4. /\ g \in [Sorts -> Nat] /\ Sum(g) = Sum(m) + d /\ g[t] = m[t] + d
      /\ \A x \in Sorts : x # t => g[x] = m[x]
  BY <1>2, <1>3, AddBlocks
<1> HIDE DEF g
<1>5. /\ g \in [Sorts -> Nat] /\ Sum(g) = Sum(h) + 1 + d
      /\ g[s] = h[s] + 1 /\ g[t] = h[t] + d
      /\ \A x \in Sorts : (x # s /\ x # t) => g[x] = h[x]
  BY <1>2, <1>4
<1> QED BY <1>5 DEF g, m

LEMMA ExcessChange ==
  ASSUME heap \in [Sorts -> Nat], heap' \in [Sorts -> Nat], views \in Nat, UNCHANGED views
  PROVE  /\ Blocks \in Nat /\ Blocks' \in Nat /\ View0 = MaxSets + 3 /\ View0 \in Nat
         /\ Excess \in Int /\ Excess' = Excess + (Blocks' - Blocks)
<1>1. Blocks \in Nat /\ Blocks' \in Nat
  BY DEF Blocks, Sorts
<1>2. View0 \in Nat /\ View0 = MaxSets + 3
  BY RenderAssumption DEF View0
<1> DEFINE old == (views - 1) * View0
<1>3. old \in Int /\ old' = old
  BY <1>2 DEF View0
<1>4. Excess = Blocks - old /\ Excess' = Blocks' - old'
  BY DEF Excess
<1> HIDE DEF old
<1> QED BY <1>1, <1>2, <1>3, <1>4

\* A step that leaves the locals alone and sends no rows.
LEMMA QuietData ==
  ASSUME HeapInv, UNCHANGED locals, UNCHANGED views, failed' \in BOOLEAN,
         pc' \in {"idle", "log", "buffers", "rows", "pick", "alertHtml",
                  "alertBuffer", "alertRows", "null", "dead"},
         UNCHANGED sent \/ \E w \in {"default", "junk"} : sent' = Nothing(w)
  PROVE  DataOK'
<1>1. <<>> \in Seq(Row) /\ Len(<<>>) = 0 /\ 0 <= SendRows
  BY RenderAssumption
<1>2. sent'.what \in {"none", "page", "default", "junk"}
      /\ sent'.rows \in Seq(Row) /\ Len(sent'.rows) <= SendRows
  <2>1. CASE UNCHANGED sent
    BY <2>1 DEF HeapInv, DataOK
  <2>2. CASE \E w \in {"default", "junk"} : sent' = Nothing(w)
    <3>1. sent'.what \in {"default", "junk"} /\ sent'.rows = <<>>
      BY <2>2 DEF Nothing
    <3> QED BY <3>1, <1>1
  <2> QED BY <2>1, <2>2
<1> QED BY <1>2 DEF HeapInv, DataOK, locals

\* What the lemmas about the heap use of the invariant.
LEMMA HeapFacts ==
  ASSUME HeapInv
  PROVE  /\ sets \in Seq(Seq(Row)) /\ Len(sets) \in Nat /\ Len(sets) <= MaxSets
         /\ views \in Nat /\ MaxSets \in Nat \ {0} /\ HeapSize \in Nat
         /\ failed \in BOOLEAN /\ (sets = <<>> => Len(sets) = 0)
         /\ heap \in [Sorts -> Nat] /\ Blocks <= HeapSize
         /\ \A x \in Sorts : heap[x] \in Nat
BY RenderAssumption DEF HeapInv, DataOK, Allocated

LEMMA MallocExcess ==
  ASSUME HeapInv, NEW s \in Sorts, Malloc(s), UNCHANGED views
  PROVE  /\ heap' \in [Sorts -> Nat] /\ Blocks' <= HeapSize /\ heap'[s] >= 1
         /\ \A x \in Sorts : heap'[x] \in Nat /\ heap'[x] >= heap[x]
         /\ Excess \in Int /\ Excess' = Excess + 1 /\ View0 = MaxSets + 3
         /\ failed' = failed
<1>1. heap' = [heap EXCEPT ![s] = @ + 1] /\ Blocks < HeapSize /\ failed' = failed
  BY DEF Malloc
<1>2. /\ heap' \in [Sorts -> Nat] /\ Blocks' = Blocks + 1
      /\ heap'[s] = heap[s] + 1 /\ \A x \in Sorts : heap'[x] >= heap[x]
  <2>1. heap \in [Sorts -> Nat]
    BY HeapFacts
  <2>2. /\ heap' \in [Sorts -> Nat] /\ Blocks' = Blocks + 1
        /\ heap'[s] = heap[s] + 1 /\ \A x \in Sorts : x # s => heap'[x] = heap[x]
    BY <1>1, <2>1, MallocBlocks
  <2>3. \A x \in Sorts : heap'[x] >= heap[x]
    BY <2>1, <2>2
  <2> QED BY <2>2, <2>3
<1>3. Blocks \in Nat /\ Excess \in Int /\ Excess' = Excess + (Blocks' - Blocks) /\ View0 = MaxSets + 3
  BY <1>2, HeapFacts, ExcessChange
<1>4. heap[s] \in Nat /\ HeapSize \in Nat
  BY HeapFacts
<1> QED BY <1>1, <1>2, <1>3, <1>4

\* What the leaves about Leaked use: whole numbers only.
LEMMA LeakFacts ==
  ASSUME HeapInv
  PROVE  Leaked /\ MaxSets \in Nat /\ Len(sets) \in Nat /\ Len(sets) <= MaxSets
BY HeapFacts DEF HeapInv

LEMMA SameExcess ==
  ASSUME HeapInv, UNCHANGED heap, UNCHANGED views
  PROVE  /\ heap' \in [Sorts -> Nat] /\ Blocks' <= HeapSize
         /\ \A x \in Sorts : heap'[x] \in Nat /\ heap'[x] >= heap[x]
         /\ Excess \in Int /\ Excess' = Excess /\ View0 = MaxSets + 3
<1>1. heap' \in [Sorts -> Nat] /\ Blocks' = Blocks
  BY HeapFacts DEF Blocks
<1>2. Blocks \in Nat /\ Excess \in Int /\ Excess' = Excess + (Blocks' - Blocks) /\ View0 = MaxSets + 3
  BY <1>1, HeapFacts, ExcessChange
<1> QED BY <1>1, <1>2, HeapFacts

\* The reads and allocations before the loops, and the use of NULL.
Plain == Html \/ Log \/ Buffers \/ Alert \/ AlertHtml \/ AlertBuffer \/ Null

LEMMA PlainData ==
  ASSUME HeapInv, Plain
  PROVE  DataOK' /\ LoopOK' /\ UNCHANGED <<views, sets, lines>>
<1>1. UNCHANGED locals /\ UNCHANGED views
  BY DEF Plain, Html, Log, Buffers, Alert, AlertHtml, AlertBuffer, Null
<1>2. failed' \in BOOLEAN
  BY DEF HeapInv, DataOK, Plain, Html, Log, Buffers, Alert, AlertHtml, AlertBuffer,
         Null, ReadOk, ReadNull, Malloc, NoMemory
<1>3. /\ pc' \in {"idle", "log", "buffers", "rows", "pick", "alertHtml",
                  "alertBuffer", "alertRows", "null", "dead"}
      /\ UNCHANGED sent \/ \E w \in {"default", "junk"} : sent' = Nothing(w)
  BY DEF Plain, Html, Log, Buffers, Alert, AlertHtml, AlertBuffer, Null, SendDefault
<1>4. DataOK'
  BY <1>1, <1>2, <1>3, QuietData
<1>5. UNCHANGED <<views, sets, lines>>
  BY <1>1 DEF locals
<1>6. LoopOK'
  BY <1>5, HeapFacts DEF HeapInv, LoopOK, Plain, Html, Log, Buffers, Alert, AlertHtml,
         AlertBuffer, Null, ReadOk, ReadNull, Malloc, NoMemory, SendDefault
<1> QED BY <1>4, <1>5, <1>6

LEMMA PlainHeap ==
  ASSUME HeapInv, Plain, UNCHANGED <<views, sets, lines>>
  PROVE  Allocated' /\ Leaked'
<1>1. "file" \in Sorts /\ "buf" \in Sorts /\ "sets" \in Sorts /\ "set" \in Sorts
  BY DEF Sorts
<1>2. CASE ReadOk /\ \/ pc = "html" /\ pc' = "log"
                     \/ pc = "log" /\ pc' = "buffers"
                     \/ pc = "alert" /\ pc' = "alertHtml"
                     \/ pc = "alertHtml" /\ pc' = "alertBuffer"
  <2>1. Malloc("file")
    BY <1>2 DEF ReadOk
  <2>2. Allocated'
    BY <1>1, <1>2, <2>1, MallocExcess, HeapFacts DEF HeapInv, Allocated, Looping
  <2>3. Leaked'
    <3>1. Excess \in Int /\ Excess' = Excess + 1 /\ View0 = MaxSets + 3
      BY <1>1, <2>1, MallocExcess
    <3>2. Leaked /\ MaxSets \in Nat
      BY LeakFacts
    <3> QED BY <1>2, <3>1, <3>2 DEF Leaked
  <2> QED BY <2>2, <2>3
<1>3. CASE UNCHANGED heap /\ \/ pc = "html" /\ pc' = "idle"
                             \/ pc = "log" /\ pc' = "pick" /\ failed'
                             \/ pc = "alert" /\ pc' = "idle"
                             \/ pc = "alertHtml" /\ pc' = "idle"
                             \/ pc = "alertBuffer" /\ pc' = "null"
                             \/ pc = "null" /\ pc' = "idle"
                             \/ pc = "null" /\ pc' = "dead"
  <2>2. Allocated'
    BY <1>1, <1>3, SameExcess, HeapFacts DEF HeapInv, Allocated, Looping
  <2>3. Leaked'
    <3>1. Excess \in Int /\ Excess' = Excess /\ View0 = MaxSets + 3
      BY <1>3, SameExcess
    <3>2. Leaked /\ MaxSets \in Nat /\ UNCHANGED sets
      BY LeakFacts
    <3> QED BY <1>3, <3>1, <3>2 DEF Leaked
  <2> QED BY <2>2, <2>3
<1>4. CASE Malloc("buf") /\ pc = "alertBuffer" /\ pc' = "alertRows"
  <2>2. Allocated'
    BY <1>1, <1>4, MallocExcess, HeapFacts DEF HeapInv, Allocated, Looping
  <2>3. Leaked'
    <3>1. Excess \in Int /\ Excess' = Excess + 1 /\ View0 = MaxSets + 3
      BY <1>1, <1>4, MallocExcess
    <3>2. Leaked /\ MaxSets \in Nat
      BY LeakFacts
    <3> QED BY <1>4, <3>1, <3>2 DEF Leaked
  <2> QED BY <2>2, <2>3
<1>5. CASE Buffers
  <2> USE DEF Buffers
  <2>1. pc = "buffers" /\ heap["file"] >= 1 /\ sets = <<>> /\ Len(sets) = 0 /\ Excess <= 2
    BY <1>5, HeapFacts DEF HeapInv, Allocated, LoopOK, Leaked
  <2>2. CASE /\ Blocks + 2 <= HeapSize
             /\ heap' = [heap EXCEPT !["sets"] = @ + 1, !["buf"] = @ + 1]
             /\ pc' = "rows"
    <3>1. heap' = [heap EXCEPT !["sets"] = @ + 1, !["buf"] = @ + 1] /\ pc' = "rows"
      BY <2>2
    <3>2. /\ heap' \in [Sorts -> Nat] /\ Blocks' = Blocks + 2
          /\ heap'["sets"] >= 1 /\ heap'["buf"] >= 1 /\ heap'["set"] >= 0
          /\ heap'["file"] = heap["file"]
      <4>1. heap' = Plus(Plus(heap, "sets", 1), "buf", 1)
        BY <3>1 DEF Plus
      <4>2. heap \in [Sorts -> Nat] /\ heap["buf"] + 1 >= 0 /\ Blocks \in Nat
            /\ heap["sets"] \in Nat /\ heap["buf"] \in Nat /\ heap["set"] \in Nat
            /\ 1 \in Int /\ "sets" # "buf" /\ "set" # "sets" /\ "set" # "buf"
            /\ "file" # "sets" /\ "file" # "buf"
        BY <1>1, HeapFacts DEF Blocks, Sorts
      <4> DEFINE g == Plus(Plus(heap, "sets", 1), "buf", 1)
      <4>5. /\ g \in [Sorts -> Nat] /\ Sum(g) = Sum(heap) + 1 + 1
            /\ g["sets"] = heap["sets"] + 1 /\ g["buf"] = heap["buf"] + 1
            /\ \A x \in Sorts : (x # "sets" /\ x # "buf") => g[x] = heap[x]
        <5> DEFINE m == Plus(heap, "sets", 1)
        <5>1. /\ m \in [Sorts -> Nat] /\ Sum(m) = Sum(heap) + 1
              /\ m["sets"] = heap["sets"] + 1
              /\ \A x \in Sorts : x # "sets" => m[x] = heap[x]
          <6>1. heap["sets"] + 1 >= 0
            BY <4>2
          <6> QED BY ONLY <1>1, <4>2, <6>1, AddBlocks
        <5> HIDE DEF m
        <5>2. m["buf"] + 1 >= 0
          BY <1>1, <4>2, <5>1
        <5>3. /\ g \in [Sorts -> Nat] /\ Sum(g) = Sum(m) + 1
              /\ g["buf"] = m["buf"] + 1
              /\ \A x \in Sorts : x # "buf" => g[x] = m[x]
          <6>1. /\ Plus(m, "buf", 1) \in [Sorts -> Nat] /\ Sum(Plus(m, "buf", 1)) = Sum(m) + 1
                /\ Plus(m, "buf", 1)["buf"] = m["buf"] + 1
                /\ \A x \in Sorts : x # "buf" => Plus(m, "buf", 1)[x] = m[x]
            BY ONLY <1>1, <4>2, <5>1, <5>2, AddBlocks
          <6>2. g = Plus(m, "buf", 1)
            BY DEF m
          <6> QED BY <6>1, <6>2
        <5> HIDE DEF g
        <5> QED BY <1>1, <4>2, <5>1, <5>3
      <4>6. heap' = g
        BY <4>1
      <4> HIDE DEF g
      <4>3. /\ heap' \in [Sorts -> Nat] /\ Sum(heap') = Sum(heap) + 1 + 1
            /\ heap'["sets"] = heap["sets"] + 1 /\ heap'["buf"] = heap["buf"] + 1
            /\ heap'["file"] = heap["file"] /\ heap'["set"] = heap["set"]
        BY <1>1, <4>2, <4>5, <4>6
      <4>4. Sum(heap) = Blocks /\ Sum(heap') = Blocks'
        BY DEF Sum, Blocks
      <4> QED BY <4>2, <4>3, <4>4
    <3>3. Excess \in Int /\ Excess' = Excess + 2
      BY <3>2, ExcessChange, HeapFacts
    <3>4. Allocated'
      BY <2>1, <2>2, <3>1, <3>2 DEF Allocated, Looping
    <3>5. Leaked'
      BY <2>1, <3>1, <3>3, HeapFacts DEF Leaked
    <3> QED BY <3>4, <3>5
  <2>3. CASE /\ pc' = "pick" /\ failed' = TRUE
             /\ \/ Blocks < HeapSize /\ heap' = [heap EXCEPT !["sets"] = @ + 1]
                \/ UNCHANGED heap
    <3>1. pc' = "pick" /\ failed' = TRUE
      BY <2>3
    <3>2. /\ heap' \in [Sorts -> Nat] /\ Blocks' <= HeapSize /\ Blocks' <= Blocks + 1
          /\ heap'["file"] = heap["file"]
      <4>1. CASE Blocks < HeapSize /\ heap' = [heap EXCEPT !["sets"] = @ + 1]
        <5>1. heap \in [Sorts -> Nat] /\ heap' = [heap EXCEPT !["sets"] = @ + 1]
              /\ "file" # "sets"
          BY <4>1, HeapFacts
        <5>2. /\ heap' \in [Sorts -> Nat] /\ Blocks' = Blocks + 1
              /\ heap'["file"] = heap["file"]
          BY <1>1, <5>1, MallocBlocks
        <5>3. Blocks \in Nat /\ HeapSize \in Nat
          BY HeapFacts DEF Sorts, Blocks
        <5> QED BY <4>1, <5>2, <5>3
      <4>2. CASE UNCHANGED heap
        <5>1. Blocks \in Nat /\ Blocks <= HeapSize
          BY HeapFacts DEF Sorts, Blocks
        <5>2. Blocks' = Blocks
          BY <4>2 DEF Blocks
        <5> QED BY <4>2, <5>1, <5>2, HeapFacts
      <4> QED BY <2>3, <4>1, <4>2
    <3>3. Excess \in Int /\ Excess' <= Excess + 1 /\ Excess' \in Int
      BY <3>2, ExcessChange, HeapFacts
    <3>4. Allocated'
      BY <2>1, <3>1, <3>2 DEF Allocated, Looping
    <3>5. Leaked'
      BY <2>1, <3>1, <3>3, HeapFacts DEF Leaked
    <3> QED BY <3>4, <3>5
  <2> QED BY <1>5, <2>2, <2>3 DEF NoMemory
<1>6. \/ Buffers
      \/ Malloc("buf") /\ pc = "alertBuffer" /\ pc' = "alertRows"
      \/ ReadOk /\ \/ pc = "html" /\ pc' = "log"
                   \/ pc = "log" /\ pc' = "buffers"
                   \/ pc = "alert" /\ pc' = "alertHtml"
                   \/ pc = "alertHtml" /\ pc' = "alertBuffer"
      \/ UNCHANGED heap /\ \/ pc = "html" /\ pc' = "idle"
                           \/ pc = "log" /\ pc' = "pick" /\ failed'
                           \/ pc = "alert" /\ pc' = "idle"
                           \/ pc = "alertHtml" /\ pc' = "idle"
                           \/ pc = "alertBuffer" /\ pc' = "null"
                           \/ pc = "null" /\ pc' = "idle"
                           \/ pc = "null" /\ pc' = "dead"
  BY DEF Plain, Html, Log, Alert, AlertHtml, AlertBuffer, Null, ReadNull, NoMemory, SendDefault
<1> QED BY <1>2, <1>3, <1>4, <1>5, <1>6

LEMMA PlainHeapInv == ASSUME HeapInv, Plain PROVE HeapInv'
BY PlainData, PlainHeap DEF HeapInv

(***************************************************************************)
(* A new view.                                                             *)
(***************************************************************************)
LEMMA AskHeapInv ==
  ASSUME HeapInv, NEW k \in {"log", "alert"}, NEW p \in Nat,
         NEW content \in Seq(0..Fields), Ask(k, p, content)
  PROVE  HeapInv'
<1>1. /\ <<>> \in Seq(Row) /\ <<>> \in Seq(Seq(Row)) /\ Len(<<>>) = 0
      /\ 0 <= BufRows /\ 0 <= MaxSets /\ MaxViews \in Nat
  BY RenderAssumption
<1>2. /\ pc = "idle" /\ kind' = k /\ page' = p /\ log' = content /\ count' = 0
      /\ buf' = <<>> /\ sets' = <<>> /\ lines' = <<>> /\ failed' = FALSE
      /\ views' = views + 1 /\ views < MaxViews /\ UNCHANGED <<heap, sent>>
      /\ pc' = (IF k = "log" THEN "html" ELSE "alert")
  BY DEF Ask
<1>3. field' \in [1..Fields -> 0..count']
  BY <1>2 DEF Ask, NoField
<1>4. DataOK'
  <2>1. count' \in 0..Len(log')
    BY <1>2
  <2>2. views' \in 0..MaxViews
    BY <1>1, <1>2, HeapFacts
  <2> QED BY <1>1, <1>2, <1>3, <2>1, <2>2 DEF HeapInv, DataOK
<1>5. LoopOK'
  BY <1>2 DEF LoopOK
<1>6. Allocated'
  BY <1>2 DEF HeapInv, Allocated, Looping, Blocks
<1>7. Leaked'
  <2>1. Blocks' = Blocks /\ Blocks \in Int
    BY <1>2, HeapFacts DEF Blocks, Sorts
  <2>2. Excess <= View0
    BY <1>2 DEF HeapInv, Leaked
  <2>3. View0 \in Int /\ UNCHANGED View0
    BY <1>1, RenderAssumption DEF View0
  <2>4. (views' - 1) * View0 = (views - 1) * View0 + View0
    BY <1>2, <2>3, HeapFacts
  <2>5. Excess' <= 0
    BY <2>1, <2>2, <2>3, <2>4, HeapFacts DEF Excess
  <2> QED BY <1>2, <2>5 DEF Leaked
<1> QED BY <1>4, <1>5, <1>6, <1>7 DEF HeapInv

(***************************************************************************)
(* The loops.                                                              *)
(***************************************************************************)
\* The row of the next line.
LEMMA RowType ==
  ASSUME HeapInv, NEW n \in 0..Fields
  PROVE  /\ Scanned(n) \in [1..Fields -> 0..count + 1]
         /\ NextRow(Scanned(n)) \in Row
<1>1. count \in Nat /\ field \in [1..Fields -> 0..count] /\ Fields \in Nat
  BY RenderAssumption DEF HeapInv, DataOK
<1>2. Scanned(n) \in [1..Fields -> 0..count + 1]
  BY <1>1 DEF Scanned
<1>3. Scanned(n) \in [1..Fields -> Nat] /\ count + 1 \in Nat
  BY <1>1, <1>2
<1> QED BY <1>2, <1>3 DEF NextRow, Row

\* A line of the log: its row, and what becomes of it.
LEMMA LineCases ==
  ASSUME HeapInv, Line
  PROVE  LET rows == Append(buf, NextRow(field')) IN
         /\ pc = "rows" /\ count < Len(log) /\ log[count + 1] \in 0..Fields
         /\ count' = count + 1 /\ field' = Scanned(log[count + 1])
         /\ rows \in Seq(Row) /\ Len(rows) = Len(buf) + 1 /\ Len(buf) < BufRows
         /\ UNCHANGED <<kind, page, log, lines, sent, views>>
         /\ \/ /\ count' % LinesPerSet # 0 /\ buf' = rows
               /\ UNCHANGED <<sets, heap, failed, pc>>
            \/ /\ count' % LinesPerSet = 0 /\ Malloc("set")
               /\ sets' = Append(sets, rows) /\ buf' = <<>>
               /\ pc' = IF Len(sets') = MaxSets THEN "pick" ELSE "rows"
            \/ /\ failed' = TRUE /\ heap' = [heap EXCEPT !["buf"] = @ - 1]
               /\ sets' = <<>> /\ buf' = <<>> /\ pc' = "pick"
<1>1. pc = "rows" /\ count < Len(log) /\ Len(buf) < BufRows /\ count' = count + 1
      /\ field' = Scanned(log[count + 1])
  BY DEF Line
<1>2. log \in Seq(0..Fields) /\ count \in Nat /\ Len(log) \in Nat /\ buf \in Seq(Row)
  BY DEF HeapInv, DataOK
<1>3. log[count + 1] \in 0..Fields
  <2>1. count + 1 \in 1..Len(log)
    BY <1>1, <1>2
  <2> QED BY <1>2, <2>1, ElementOfSeq
<1>4. NextRow(field') \in Row
  BY <1>1, <1>3, RowType
<1>5. Append(buf, NextRow(field')) \in Seq(Row)
      /\ Len(Append(buf, NextRow(field'))) = Len(buf) + 1
  BY <1>2, <1>4
<1>6. \/ /\ count' % LinesPerSet # 0 /\ buf' = Append(buf, NextRow(field'))
         /\ UNCHANGED <<sets, heap, failed, pc>>
      \/ /\ count' % LinesPerSet = 0 /\ Malloc("set")
         /\ sets' = Append(sets, Append(buf, NextRow(field'))) /\ buf' = <<>>
         /\ pc' = IF Len(sets') = MaxSets THEN "pick" ELSE "rows"
      \/ /\ failed' = TRUE /\ heap' = [heap EXCEPT !["buf"] = @ - 1]
         /\ sets' = <<>> /\ buf' = <<>> /\ pc' = "pick"
  BY DEF Line, NoMemory
<1>7. UNCHANGED <<kind, page, log, lines, sent, views>>
  BY DEF Line
<1> QED BY <1>1, <1>3, <1>5, <1>6, <1>7

LEMMA LineHeapInv == ASSUME HeapInv, Line PROVE HeapInv'
<1> DEFINE rows == Append(buf, NextRow(field'))
<1>1. /\ pc = "rows" /\ count < Len(log) /\ log[count + 1] \in 0..Fields
      /\ count' = count + 1 /\ field' = Scanned(log[count + 1])
      /\ rows \in Seq(Row) /\ Len(rows) = Len(buf) + 1 /\ Len(buf) < BufRows
      /\ UNCHANGED <<kind, page, log, lines, sent, views>>
      /\ \/ /\ buf' = rows /\ UNCHANGED <<sets, heap, failed, pc>>
         \/ /\ Malloc("set")
            /\ sets' = Append(sets, rows) /\ buf' = <<>>
            /\ pc' = IF Len(sets') = MaxSets THEN "pick" ELSE "rows"
         \/ /\ failed' = TRUE /\ heap' = [heap EXCEPT !["buf"] = @ - 1]
            /\ sets' = <<>> /\ buf' = <<>> /\ pc' = "pick"
  BY LineCases
<1> HIDE DEF rows
<1>2. /\ lines = <<>> /\ Len(sets) < MaxSets /\ ~failed
      /\ heap["file"] >= 1 /\ heap["sets"] >= 1 /\ heap["set"] >= Len(sets) /\ heap["buf"] >= 1
      /\ Excess <= 4 + Len(sets)
  BY <1>1 DEF HeapInv, LoopOK, Allocated, Looping, Leaked
<1>3. field' \in [1..Fields -> 0..count'] /\ count' \in 0..Len(log')
  <2>1. count \in 0..Len(log) /\ Len(log) \in Nat
    BY DEF HeapInv, DataOK
  <2> QED BY <1>1, <2>1, RowType
<1>4. /\ <<>> \in Seq(Row) /\ <<>> \in Seq(Seq(Row)) /\ Len(<<>>) = 0
      /\ BufRows \in Nat /\ MaxSets \in Nat
      /\ "set" \in Sorts /\ "buf" \in Sorts /\ "file" \in Sorts /\ "sets" \in Sorts
  BY RenderAssumption DEF Sorts
<1>5. CASE buf' = rows /\ UNCHANGED <<sets, heap, failed, pc>>
  <2>1. DataOK'
    <3>1. buf' \in Seq(Row) /\ Len(buf') <= BufRows
      BY <1>1, <1>4, <1>5 DEF HeapInv, DataOK
    <3> QED BY <1>1, <1>3, <1>5, <3>1 DEF HeapInv, DataOK
  <2>2. LoopOK'
    BY <1>1, <1>5 DEF HeapInv, LoopOK
  <2>3. Allocated' /\ Leaked'
    BY <1>1, <1>5, <1>4 DEF HeapInv, Allocated, Looping, Leaked, Excess, Blocks, View0
  <2> QED BY <2>1, <2>2, <2>3 DEF HeapInv
<1>6. CASE /\ Malloc("set")
           /\ sets' = Append(sets, rows) /\ buf' = <<>>
           /\ pc' = IF Len(sets') = MaxSets THEN "pick" ELSE "rows"
  <2>1. sets' \in Seq(Seq(Row)) /\ Len(sets') = Len(sets) + 1 /\ Len(sets) \in Nat
    BY <1>1, <1>6, HeapFacts
  <2>2. UNCHANGED failed
    BY <1>6 DEF Malloc
  <2>3. DataOK'
    <3>1. Len(sets') <= MaxSets /\ buf' \in Seq(Row) /\ Len(buf') <= BufRows
      BY <1>2, <1>4, <1>6, <2>1
    <3>2. lines' = <<>>
      BY <1>1, <1>2
    <3>3. pc' \in {"pick", "rows"}
      BY <1>6
    <3> QED BY <1>1, <1>3, <2>1, <2>2, <3>1, <3>2, <3>3 DEF HeapInv, DataOK
  <2>4. LoopOK'
    BY <1>1, <1>2, <1>4, <1>6, <2>1, <2>2 DEF LoopOK
  <2>5. /\ heap' \in [Sorts -> Nat] /\ Blocks' <= HeapSize
        /\ heap'["set"] = heap["set"] + 1 /\ \A x \in Sorts : heap'[x] >= heap[x]
        /\ Excess \in Int /\ Excess' = Excess + 1
    <3>1. heap' = [heap EXCEPT !["set"] = @ + 1]
      BY <1>6 DEF Malloc
    <3>2. heap' \in [Sorts -> Nat] /\ Blocks' <= HeapSize /\ Excess \in Int /\ Excess' = Excess + 1
      BY <1>1, <1>4, <1>6, MallocExcess
    <3>3. heap'["set"] = heap["set"] + 1 /\ \A x \in Sorts : heap'[x] >= heap[x]
      <4>1. heap \in [Sorts -> Nat] /\ \A x \in Sorts : heap[x] \in Nat
        BY HeapFacts
      <4>2. heap'["set"] = heap["set"] + 1 /\ \A x \in Sorts : x # "set" => heap'[x] = heap[x]
        BY <1>4, <3>1, <4>1, MallocBlocks
      <4> QED BY <4>1, <4>2
    <3> QED BY <3>2, <3>3
  <2>6. /\ heap'["file"] >= 1 /\ heap'["sets"] >= 1 /\ heap'["buf"] >= 1
        /\ heap'["set"] >= Len(sets')
    <3>1. heap' \in [Sorts -> Nat] /\ \A x \in Sorts : heap[x] \in Nat
      BY <2>5, HeapFacts
    <3>2. heap'["file"] >= heap["file"] /\ heap'["sets"] >= heap["sets"] /\ heap'["buf"] >= heap["buf"]
      BY <1>4, <2>5
    <3>3. /\ heap'["file"] \in Nat /\ heap'["sets"] \in Nat /\ heap'["buf"] \in Nat
          /\ heap["file"] \in Nat /\ heap["sets"] \in Nat /\ heap["buf"] \in Nat /\ heap["set"] \in Nat
      BY <1>4, <3>1
    <3>4. heap'["set"] = heap["set"] + 1
      BY <2>5
    <3>5. heap["file"] >= 1 /\ heap["sets"] >= 1 /\ heap["set"] >= Len(sets) /\ heap["buf"] >= 1
      BY <1>2
    <3>6. heap'["set"] >= Len(sets')
      BY ONLY <2>1, <3>3, <3>4, <3>5
    <3> QED BY ONLY <3>2, <3>3, <3>5, <3>6
  <2>7. pc' \in {"pick", "rows"} /\ lines' = <<>> /\ failed' = FALSE
    BY <1>1, <1>2, <1>6, <2>2, HeapFacts
  <2>8. Allocated'
    BY <2>5, <2>6, <2>7 DEF Allocated, Looping
  <2>9. Leaked'
    BY <1>2, <2>1, <2>5, <2>7 DEF Leaked
  <2> QED BY <2>3, <2>4, <2>8, <2>9 DEF HeapInv
<1>7. CASE /\ failed' = TRUE /\ heap' = [heap EXCEPT !["buf"] = @ - 1]
           /\ sets' = <<>> /\ buf' = <<>> /\ pc' = "pick"
  <2>1. DataOK'
    BY <1>1, <1>2, <1>3, <1>4, <1>7 DEF HeapInv, DataOK
  <2>2. LoopOK'
    BY <1>1, <1>2, <1>7 DEF LoopOK
  <2>3. /\ heap' \in [Sorts -> Nat] /\ Blocks' = Blocks - 1
        /\ heap'["file"] = heap["file"]
    <3>1. heap \in [Sorts -> Nat] /\ heap["buf"] >= 1
      BY <1>2, HeapFacts
    <3>2. /\ heap' \in [Sorts -> Nat] /\ Blocks' = Blocks - 1
          /\ \A x \in Sorts : x # "buf" => heap'[x] = heap[x]
      BY <1>4, <1>7, <3>1, FreeBlocks
    <3> QED BY <1>4, <3>2
  <2>4. Excess \in Int /\ Excess' = Excess - 1 /\ Blocks \in Nat
    <3>1. heap \in [Sorts -> Nat] /\ views \in Nat /\ UNCHANGED views
      BY <1>1, HeapFacts
    <3>2. Blocks \in Nat /\ Excess \in Int /\ Excess' = Excess + (Blocks' - Blocks)
      BY <2>3, <3>1, ExcessChange
    <3> QED BY <2>3, <3>2
  <2>5. Allocated'
    BY <1>2, <1>7, <2>3, <2>4, HeapFacts DEF Allocated, Looping
  <2>6. Leaked'
    BY <1>2, <1>7, <2>4, HeapFacts DEF Leaked
  <2> QED BY <2>1, <2>2, <2>5, <2>6 DEF HeapInv
<1> QED BY <1>1, <1>5, <1>6, <1>7

LEMMA LastSetHeapInv == ASSUME HeapInv, LastSet PROVE HeapInv'
<1>1. /\ pc = "rows" /\ pc' = "pick"
      /\ UNCHANGED <<kind, page, log, count, field, buf, lines, sent, views>>
      /\ \/ UNCHANGED <<sets, heap, failed>>
         \/ Malloc("set") /\ sets' = Append(sets, buf)
         \/ /\ failed' = TRUE /\ heap' = [heap EXCEPT !["buf"] = @ - 1] /\ sets' = <<>>
  BY DEF LastSet, NoMemory
<1>2. /\ lines = <<>> /\ Len(sets) < MaxSets /\ ~failed /\ buf \in Seq(Row)
      /\ heap["file"] >= 1 /\ heap["sets"] >= 1 /\ heap["set"] >= Len(sets) /\ heap["buf"] >= 1
      /\ Excess <= 4 + Len(sets)
  BY <1>1 DEF HeapInv, DataOK, LoopOK, Allocated, Looping, Leaked
<1>3. /\ <<>> \in Seq(Seq(Row)) /\ Len(<<>>) = 0 /\ MaxSets \in Nat
      /\ "set" \in Sorts /\ "buf" \in Sorts /\ "file" \in Sorts /\ "sets" \in Sorts
  BY RenderAssumption DEF Sorts
<1>4. CASE UNCHANGED <<sets, heap, failed>>
  <2>1. DataOK' /\ LoopOK'
    BY <1>1, <1>2, <1>4 DEF HeapInv, DataOK, LoopOK
  <2>2. Allocated'
    BY <1>1, <1>2, <1>4 DEF HeapInv, Allocated, Looping, Blocks
  <2>3. Leaked'
    BY <1>1, <1>2, <1>4, HeapFacts, SameExcess DEF Leaked
  <2> QED BY <2>1, <2>2, <2>3 DEF HeapInv
<1>5. CASE Malloc("set") /\ sets' = Append(sets, buf)
  <2>1. sets' \in Seq(Seq(Row)) /\ Len(sets') = Len(sets) + 1 /\ Len(sets) \in Nat
    BY <1>2, <1>5, HeapFacts
  <2>2. UNCHANGED failed
    BY <1>5 DEF Malloc
  <2>3. DataOK' /\ LoopOK'
    BY <1>1, <1>2, <1>3, <2>1, <2>2 DEF HeapInv, DataOK, LoopOK
  <2>4. /\ heap' \in [Sorts -> Nat] /\ Blocks' <= HeapSize
        /\ heap'["set"] = heap["set"] + 1 /\ \A x \in Sorts : heap'[x] >= heap[x]
        /\ Excess \in Int /\ Excess' = Excess + 1
    <3>1. heap' = [heap EXCEPT !["set"] = @ + 1]
      BY <1>5 DEF Malloc
    <3>2. heap' \in [Sorts -> Nat] /\ Blocks' <= HeapSize /\ Excess \in Int /\ Excess' = Excess + 1
      BY <1>1, <1>3, <1>5, MallocExcess
    <3>3. heap'["set"] = heap["set"] + 1 /\ \A x \in Sorts : heap'[x] >= heap[x]
      <4>1. heap \in [Sorts -> Nat] /\ \A x \in Sorts : heap[x] \in Nat
        BY HeapFacts
      <4>2. heap'["set"] = heap["set"] + 1 /\ \A x \in Sorts : x # "set" => heap'[x] = heap[x]
        BY <1>3, <3>1, <4>1, MallocBlocks
      <4> QED BY <4>1, <4>2
    <3> QED BY <3>2, <3>3
  <2>5. /\ heap'["file"] >= 1 /\ heap'["sets"] >= 1 /\ heap'["buf"] >= 1
        /\ heap'["set"] >= Len(sets')
    <3>1. heap' \in [Sorts -> Nat] /\ \A x \in Sorts : heap[x] \in Nat
      BY <2>4, HeapFacts
    <3>2. heap'["file"] >= heap["file"] /\ heap'["sets"] >= heap["sets"] /\ heap'["buf"] >= heap["buf"]
      BY <1>3, <2>4
    <3>3. /\ heap'["file"] \in Nat /\ heap'["sets"] \in Nat /\ heap'["buf"] \in Nat
          /\ heap["file"] \in Nat /\ heap["sets"] \in Nat /\ heap["buf"] \in Nat /\ heap["set"] \in Nat
      BY <1>3, <3>1
    <3>4. heap'["set"] = heap["set"] + 1
      BY <2>4
    <3>5. heap["file"] >= 1 /\ heap["sets"] >= 1 /\ heap["set"] >= Len(sets) /\ heap["buf"] >= 1
      BY <1>2
    <3>6. heap'["set"] >= Len(sets')
      BY ONLY <2>1, <3>3, <3>4, <3>5
    <3> QED BY ONLY <3>2, <3>3, <3>5, <3>6
  <2>6. Allocated'
    BY <1>1, <2>4, <2>5 DEF Allocated, Looping
  <2>7. Leaked'
    BY <1>1, <1>2, <2>1, <2>2, <2>4 DEF Leaked
  <2> QED BY <2>3, <2>6, <2>7 DEF HeapInv
<1>6. CASE failed' = TRUE /\ heap' = [heap EXCEPT !["buf"] = @ - 1] /\ sets' = <<>>
  <2>1. DataOK' /\ LoopOK'
    BY <1>1, <1>2, <1>3, <1>6 DEF HeapInv, DataOK, LoopOK
  <2>2. /\ heap' \in [Sorts -> Nat] /\ Blocks' = Blocks - 1
        /\ heap'["file"] = heap["file"]
    BY <1>2, <1>3, <1>6, FreeBlocks, HeapFacts
  <2>3. Excess \in Int /\ Excess' = Excess - 1 /\ Blocks \in Nat
    BY <1>1, <2>2, ExcessChange, HeapFacts
  <2>4. Allocated'
    BY <1>1, <1>2, <1>6, <2>2, <2>3, HeapFacts DEF Allocated, Looping
  <2>5. Leaked'
    BY <1>1, <1>2, <1>6, <2>3, HeapFacts DEF Leaked
  <2> QED BY <2>1, <2>4, <2>5 DEF HeapInv
<1> QED BY <1>1, <1>4, <1>5, <1>6

(***************************************************************************)
(* The end of a view.                                                      *)
(***************************************************************************)
LEMMA PickHeapInv == ASSUME HeapInv, Pick PROVE HeapInv'
<1>1. /\ pc = "pick" /\ pc' = "assemble"
      /\ UNCHANGED <<kind, page, log, count, field, buf, sets, sent, failed, views>>
      /\ lines' = IF ~failed /\ page \in 1..Len(sets) THEN <<sets[page]>> ELSE <<>>
      /\ heap' = IF failed THEN heap ELSE [heap EXCEPT !["sets"] = @ - 1]
  BY DEF Pick
<1>2. "set" \in Sorts /\ "file" \in Sorts /\ "sets" \in Sorts
  BY DEF Sorts
<1>3. lines' = <<>> \/ \E s \in 1..Len(sets) : lines' = <<sets[s]>>
  BY <1>1
<1>4. DataOK' /\ LoopOK'
  BY <1>1, <1>3 DEF HeapInv, DataOK, LoopOK
<1>5. CASE failed
  <2>1. Allocated'
    <3>1. lines' = <<>> /\ UNCHANGED heap
      BY <1>1, <1>5
    <3> QED BY <1>1, <3>1 DEF HeapInv, Allocated, Looping, Blocks
  <2>2. Leaked'
    BY <1>1, <1>5, SameExcess, HeapFacts DEF HeapInv, Leaked
  <2> QED BY <1>4, <2>1, <2>2 DEF HeapInv
<1>6. CASE ~failed
  <2>1. /\ heap["file"] >= 1 /\ heap["sets"] >= 1 /\ heap["set"] >= Len(sets)
        /\ Excess <= 4 + Len(sets) /\ Len(sets) <= MaxSets
    BY <1>1, <1>6, HeapFacts DEF HeapInv, Allocated, Leaked
  <2>2. /\ heap' \in [Sorts -> Nat] /\ Blocks' = Blocks - 1
        /\ heap'["file"] = heap["file"] /\ heap'["set"] = heap["set"]
    BY <1>1, <1>2, <1>6, <2>1, FreeBlocks, HeapFacts
  <2>3. Excess \in Int /\ Excess' = Excess - 1 /\ Blocks \in Nat
    BY <1>1, <2>2, ExcessChange, HeapFacts
  <2>4. lines' # <<>> => heap'["set"] >= 1
    <3>1. lines' # <<>> => Len(sets) >= 1
      BY <1>1, HeapFacts
    <3> QED BY <1>2, <2>1, <2>2, <3>1, HeapFacts
  <2>5. Allocated'
    <3>1. heap'["file"] >= 1 /\ Blocks' <= HeapSize
      BY <2>1, <2>2, <2>3, HeapFacts
    <3> QED BY <1>1, <2>2, <2>4, <3>1 DEF Allocated, Looping
  <2>6. Leaked'
    BY <1>1, <2>1, <2>3, HeapFacts DEF Leaked
  <2> QED BY <1>4, <2>5, <2>6 DEF HeapInv
<1> QED BY <1>5, <1>6

\* What is sent is the rows, as far as send_data takes them.
LEMMA SendType ==
  ASSUME NEW rows \in Seq(Row), Send(rows)
  PROVE  /\ sent'.what = "page" /\ pc' = "idle"
         /\ sent'.rows \in Seq(Row) /\ Len(sent'.rows) <= SendRows
         /\ Len(rows) <= SendRows => sent'.rows = rows
<1> DEFINE n == IF Len(rows) < SendRows THEN Len(rows) ELSE SendRows
<1>1. sent'.what = "page" /\ pc' = "idle" /\ sent'.rows = SubSeq(rows, 1, n)
  BY DEF Send
<1>2. n \in 0..Len(rows) /\ n <= SendRows /\ (Len(rows) <= SendRows => n = Len(rows))
  BY RenderAssumption
<1> HIDE DEF n
<1>3. SubSeq(rows, 1, n) \in Seq(Row) /\ Len(SubSeq(rows, 1, n)) = n
      /\ \A i \in 1..n : SubSeq(rows, 1, n)[i] = rows[i]
  BY <1>2, SubSeqProperties
<1>4. n = Len(rows) => SubSeq(rows, 1, n) = rows
  BY <1>3, SeqEqual
<1> QED BY <1>1, <1>2, <1>3, <1>4

\* The page is made: a block more, the template and the set less.
LEMMA AssembleHeapInv == ASSUME HeapInv, Assemble PROVE HeapInv'
<1>1. /\ pc = "assemble" /\ lines # <<>> /\ UNCHANGED locals /\ UNCHANGED views
      /\ \/ /\ Blocks < HeapSize /\ Send(lines[1]) /\ UNCHANGED failed
            /\ heap' = [heap EXCEPT !["page"] = @ + 1, !["file"] = @ - 1, !["set"] = @ - 1]
         \/ /\ failed' = TRUE /\ heap' = [heap EXCEPT !["set"] = @ - 1]
            /\ pc' = "null" /\ UNCHANGED sent
  BY DEF Assemble, NoMemory
<1>2. lines[1] \in Seq(Row)
  <2>1. PICK s \in 1..Len(sets) : lines = <<sets[s]>>
    BY <1>1 DEF HeapInv, DataOK
  <2> QED BY <2>1, HeapFacts, ElementOfSeq
<1>3. /\ heap["file"] >= 1 /\ heap["set"] >= 1 /\ Excess <= 3 + MaxSets
      /\ "set" \in Sorts /\ "file" \in Sorts /\ "page" \in Sorts
  BY <1>1 DEF HeapInv, Allocated, Leaked, Sorts
<1>4. UNCHANGED <<kind, page, log, count, field, buf, sets, lines>>
  BY <1>1 DEF locals
<1>5. CASE /\ Send(lines[1]) /\ UNCHANGED failed
           /\ heap' = [heap EXCEPT !["page"] = @ + 1, !["file"] = @ - 1, !["set"] = @ - 1]
  <2>1. /\ sent'.what = "page" /\ pc' = "idle"
        /\ sent'.rows \in Seq(Row) /\ Len(sent'.rows) <= SendRows
    BY <1>2, <1>5, SendType
  <2>2. DataOK' /\ LoopOK'
    BY <1>1, <1>4, <1>5, <2>1 DEF HeapInv, DataOK, LoopOK
  <2>3. heap' \in [Sorts -> Nat] /\ Blocks' = Blocks - 1
    <3> DEFINE h == Plus(Plus(heap, "page", 1), "file", -1)
    <3>1. /\ heap \in [Sorts -> Nat] /\ heap["file"] + (-1) >= 0 /\ -1 \in Int
          /\ "page" # "file" /\ "set" # "page" /\ "set" # "file"
          /\ heap["set"] \in Nat /\ heap["set"] + (-1) >= 0
      BY <1>3, HeapFacts
    <3>2. heap' = Plus(h, "set", -1)
      BY <1>5 DEF Plus
    <3>3. /\ h \in [Sorts -> Nat] /\ Sum(h) = Sum(heap) + 1 + (-1) /\ h["set"] = heap["set"]
      BY <1>3, <3>1, SwapBlocks
    <3> HIDE DEF h
    <3>4. h["set"] + (-1) >= 0
      BY <3>1, <3>3
    <3>5. heap' \in [Sorts -> Nat] /\ Sum(heap') = Sum(h) + (-1)
      BY <1>3, <3>1, <3>2, <3>3, <3>4, AddBlocks
    <3>6. Sum(heap) = Blocks /\ Sum(heap') = Blocks' /\ Blocks \in Int
      BY HeapFacts DEF Sum, Blocks, Sorts
    <3> QED BY <3>3, <3>5, <3>6
  <2>4. Excess \in Int /\ Excess' = Excess - 1 /\ Blocks \in Nat /\ View0 = MaxSets + 3
    BY <1>1, <2>3, ExcessChange, HeapFacts
  <2>5. Allocated'
    BY <2>1, <2>3, <2>4, HeapFacts DEF Allocated, Looping
  <2>6. Leaked'
    BY <1>3, <2>1, <2>4, HeapFacts DEF Leaked
  <2> QED BY <2>2, <2>5, <2>6 DEF HeapInv
<1>6. CASE /\ failed' = TRUE /\ heap' = [heap EXCEPT !["set"] = @ - 1]
           /\ pc' = "null" /\ UNCHANGED sent
  <2>1. DataOK' /\ LoopOK'
    BY <1>1, <1>4, <1>6 DEF HeapInv, DataOK, LoopOK
  <2>2. heap' \in [Sorts -> Nat] /\ Blocks' = Blocks - 1
    BY <1>3, <1>6, FreeBlocks, HeapFacts
  <2>3. Excess \in Int /\ Excess' = Excess - 1 /\ Blocks \in Nat /\ View0 = MaxSets + 3
    BY <1>1, <2>2, ExcessChange, HeapFacts
  <2>4. Allocated'
    BY <1>6, <2>2, <2>3, HeapFacts DEF Allocated, Looping
  <2>5. Leaked'
    BY <1>3, <1>6, <2>3, HeapFacts DEF Leaked
  <2> QED BY <2>1, <2>4, <2>5 DEF HeapInv
<1> QED BY <1>1, <1>5, <1>6

LEMMA StrayHeapInv == ASSUME HeapInv, AssembleStray PROVE HeapInv'
<1>1. /\ pc = "assemble" /\ lines = <<>> /\ UNCHANGED locals /\ UNCHANGED views
      /\ \/ /\ pc' \in {"dead", "null"} /\ UNCHANGED <<heap, sent>>
         \/ /\ heap' = [heap EXCEPT !["page"] = @ + 1, !["file"] = @ - 1]
            /\ sent' = Nothing("junk") /\ pc' = "idle"
      /\ failed' \in {TRUE, failed}
  BY DEF AssembleStray, NoMemory
<1>2. heap["file"] >= 1 /\ Excess <= 3 + MaxSets
  BY <1>1 DEF HeapInv, Allocated, Leaked
<1>3. DataOK'
  BY <1>1, HeapFacts, QuietData
<1>4. LoopOK'
  BY <1>1 DEF LoopOK
<1>5. CASE pc' \in {"dead", "null"} /\ UNCHANGED heap
  <2>1. Allocated'
    BY <1>1, <1>5, SameExcess DEF Allocated, Looping
  <2>2. Leaked'
    BY <1>1, <1>2, <1>5, SameExcess, HeapFacts DEF Leaked
  <2> QED BY <1>3, <1>4, <2>1, <2>2 DEF HeapInv
<1>6. CASE heap' = [heap EXCEPT !["page"] = @ + 1, !["file"] = @ - 1] /\ pc' = "idle"
  <2>1. heap' \in [Sorts -> Nat] /\ Blocks' = Blocks
    <3>1. /\ heap \in [Sorts -> Nat] /\ heap["file"] + (-1) >= 0 /\ "page" # "file"
          /\ "page" \in Sorts /\ "file" \in Sorts /\ -1 \in Int
      BY <1>2, HeapFacts DEF Sorts
    <3>2. heap' = Plus(Plus(heap, "page", 1), "file", -1)
      BY <1>6 DEF Plus
    <3>3. heap' \in [Sorts -> Nat] /\ Sum(heap') = Sum(heap) + 1 + (-1)
      BY <3>1, <3>2, SwapBlocks
    <3>4. Sum(heap) = Blocks /\ Sum(heap') = Blocks' /\ Blocks \in Int
      BY HeapFacts DEF Sum, Blocks, Sorts
    <3> QED BY <3>3, <3>4
  <2>2. Excess \in Int /\ Excess' = Excess /\ Blocks \in Nat /\ View0 = MaxSets + 3
    BY <1>1, <2>1, ExcessChange, HeapFacts
  <2>3. Allocated'
    BY <1>6, <2>1, <2>2, HeapFacts DEF Allocated, Looping
  <2>4. Leaked'
    BY <1>2, <1>6, <2>2, HeapFacts DEF Leaked
  <2> QED BY <1>3, <1>4, <2>3, <2>4 DEF HeapInv
<1> QED BY <1>1, <1>5, <1>6

LEMMA AlertLineHeapInv == ASSUME HeapInv, AlertLine PROVE HeapInv'
<1>1. /\ pc = "alertRows" /\ count < Len(log)
      /\ UNCHANGED <<kind, page, log, sets, lines, sent, views>>
  BY DEF AlertLine
<1>2. heap["buf"] >= 1 /\ Excess <= 3 /\ "buf" \in Sorts
  BY <1>1 DEF HeapInv, Allocated, Looping, Leaked, Sorts
<1>3. CASE Len(buf) < BufRows
  <2>1. /\ count' = count + 1 /\ field' = Scanned(Fields)
        /\ buf' = Append(buf, NextRow(field')) /\ UNCHANGED <<heap, pc, failed>>
    BY <1>3 DEF AlertLine
  <2>2. Fields \in 0..Fields /\ count \in 0..Len(log) /\ Len(log) \in Nat /\ buf \in Seq(Row)
        /\ BufRows \in Nat
    BY RenderAssumption DEF HeapInv, DataOK
  <2>3. field' \in [1..Fields -> 0..count'] /\ NextRow(field') \in Row
    BY <2>1, <2>2, RowType
  <2>4. buf' \in Seq(Row) /\ Len(buf') <= BufRows
    BY <1>3, <2>1, <2>2, <2>3
  <2>5. count' \in 0..Len(log')
    BY <1>1, <2>1, <2>2
  <2>6. DataOK' /\ LoopOK'
    BY <1>1, <2>1, <2>3, <2>4, <2>5 DEF HeapInv, DataOK, LoopOK
  <2>7. Allocated'
    BY <1>1, <2>1, <1>2 DEF HeapInv, Allocated, Looping, Blocks
  <2>8. Leaked'
    BY <1>1, <1>2, <2>1, SameExcess DEF Leaked
  <2> QED BY <2>6, <2>7, <2>8 DEF HeapInv
<1>4. CASE ~(Len(buf) < BufRows)
  <2>1. /\ heap' = [heap EXCEPT !["buf"] = @ - 1] /\ pc' = "null" /\ failed' = TRUE
        /\ UNCHANGED <<count, field, buf>>
    BY <1>4 DEF AlertLine
  <2>2. DataOK' /\ LoopOK'
    BY <1>1, <2>1 DEF HeapInv, DataOK, LoopOK
  <2>3. heap' \in [Sorts -> Nat] /\ Blocks' = Blocks - 1
    BY <1>2, <2>1, FreeBlocks, HeapFacts
  <2>4. Excess \in Int /\ Excess' = Excess - 1 /\ Blocks \in Nat /\ View0 = MaxSets + 3
    BY <1>1, <2>3, ExcessChange, HeapFacts
  <2>5. Allocated'
    BY <2>1, <2>3, <2>4, HeapFacts DEF Allocated, Looping
  <2>6. Leaked'
    BY <1>2, <2>1, <2>4, HeapFacts DEF Leaked
  <2> QED BY <2>2, <2>5, <2>6 DEF HeapInv
<1> QED BY <1>3, <1>4

LEMMA AlertPageHeapInv == ASSUME HeapInv, AlertPage PROVE HeapInv'
<1>1. /\ pc = "alertRows" /\ UNCHANGED locals /\ UNCHANGED views
      /\ \/ /\ Send(buf) /\ UNCHANGED failed
            /\ heap' = [heap EXCEPT !["page"] = @ + 1, !["buf"] = @ - 1]
         \/ /\ failed' = TRUE /\ heap' = [heap EXCEPT !["buf"] = @ - 1]
            /\ pc' = "null" /\ UNCHANGED sent
  BY DEF AlertPage, NoMemory
<1>2. heap["buf"] >= 1 /\ Excess <= 3 /\ "buf" \in Sorts /\ buf \in Seq(Row)
  BY <1>1 DEF HeapInv, DataOK, Allocated, Looping, Leaked, Sorts
<1>3. UNCHANGED <<kind, page, log, count, field, buf, sets, lines>>
  BY <1>1 DEF locals
<1>4. CASE /\ Send(buf) /\ UNCHANGED failed
           /\ heap' = [heap EXCEPT !["page"] = @ + 1, !["buf"] = @ - 1]
  <2>1. /\ sent'.what = "page" /\ pc' = "idle"
        /\ sent'.rows \in Seq(Row) /\ Len(sent'.rows) <= SendRows
    BY <1>2, <1>4, SendType
  <2>2. DataOK' /\ LoopOK'
    BY <1>1, <1>3, <1>4, <2>1 DEF HeapInv, DataOK, LoopOK
  <2>3. heap' \in [Sorts -> Nat] /\ Blocks' = Blocks
    <3>1. /\ heap \in [Sorts -> Nat] /\ heap["buf"] + (-1) >= 0 /\ "page" # "buf"
          /\ "page" \in Sorts /\ "buf" \in Sorts /\ -1 \in Int
      BY <1>2, HeapFacts DEF Sorts
    <3>2. heap' = Plus(Plus(heap, "page", 1), "buf", -1)
      BY <1>4 DEF Plus
    <3>3. heap' \in [Sorts -> Nat] /\ Sum(heap') = Sum(heap) + 1 + (-1)
      BY <3>1, <3>2, SwapBlocks
    <3>4. Sum(heap) = Blocks /\ Sum(heap') = Blocks' /\ Blocks \in Int
      BY HeapFacts DEF Sum, Blocks, Sorts
    <3> QED BY <3>3, <3>4
  <2>4. Excess \in Int /\ Excess' = Excess /\ View0 = MaxSets + 3
    BY <1>1, <2>3, ExcessChange, HeapFacts
  <2>5. Allocated'
    BY <2>1, <2>3, HeapFacts DEF Allocated, Looping
  <2>6. Leaked'
    BY <1>2, <2>1, <2>4, HeapFacts DEF Leaked
  <2> QED BY <2>2, <2>5, <2>6 DEF HeapInv
<1>5. CASE /\ failed' = TRUE /\ heap' = [heap EXCEPT !["buf"] = @ - 1]
           /\ pc' = "null" /\ UNCHANGED sent
  <2>1. DataOK' /\ LoopOK'
    BY <1>1, <1>3, <1>5 DEF HeapInv, DataOK, LoopOK
  <2>2. heap' \in [Sorts -> Nat] /\ Blocks' = Blocks - 1
    BY <1>2, <1>5, FreeBlocks, HeapFacts
  <2>3. Excess \in Int /\ Excess' = Excess - 1 /\ Blocks \in Nat /\ View0 = MaxSets + 3
    BY <1>1, <2>2, ExcessChange, HeapFacts
  <2>4. Allocated'
    BY <1>5, <2>2, <2>3, HeapFacts DEF Allocated, Looping
  <2>5. Leaked'
    BY <1>2, <1>5, <2>3, HeapFacts DEF Leaked
  <2> QED BY <2>1, <2>4, <2>5 DEF HeapInv
<1> QED BY <1>1, <1>4, <1>5

LEMMA StutterHeapInv == ASSUME HeapInv, UNCHANGED vars PROVE HeapInv'
BY DEF HeapInv, DataOK, LoopOK, Allocated, Looping, Leaked, Excess, View0, Blocks, vars, locals

LEMMA AskTypes ==
  ASSUME NEW n \in Nat
  PROVE  [i \in 1..n |-> Fields] \in Seq(0..Fields)
<1>1. Fields \in 0..Fields
  BY RenderAssumption
<1> QED BY <1>1

LEMMA NextHeapInv == ASSUME HeapInv, [Next]_vars PROVE HeapInv'
<1>1. CASE View
  BY <1>1, PlainHeapInv, LineHeapInv, LastSetHeapInv, PickHeapInv, AssembleHeapInv,
     StrayHeapInv, AlertLineHeapInv, AlertPageHeapInv DEF View, Plain
<1>2. ASSUME NEW p \in 0..MaxSets + 1, NEW content \in Logs, Ask("log", p, content)
      PROVE  HeapInv'
  <2>1. p \in Nat /\ content \in Seq(0..Fields)
    BY RenderAssumption
  <2> QED BY <1>2, <2>1, AskHeapInv
<1>3. ASSUME NEW n \in 0..MaxAlerts, Ask("alert", 1, [i \in 1..n |-> Fields])
      PROVE  HeapInv'
  <2>1. [i \in 1..n |-> Fields] \in Seq(0..Fields)
    BY RenderAssumption, AskTypes
  <2> QED BY <1>3, <2>1, AskHeapInv
<1> QED BY <1>1, <1>2, <1>3, StutterHeapInv DEF Next

\* The types, for any order of successes and failures of the heap and the card:
\* in particular each free of a pointer that came from malloc or read_sd_card
\* has its block (webserver.c:30-214).  It says nothing of the free of a pointer
\* to no set (a page that is missing, or a NULL array, 188-211): AssembleStray
\* lets the core stop there, or takes the heap to survive it.
THEOREM RenderTypes == Spec => []TypeOK
<1>1. Spec => []HeapInv
  BY InitHeapInv, NextHeapInv, PTL DEF Spec
<1> QED BY <1>1, HeapInvType, PTL

\* After any views, however they ended, no more than MaxSets + 3 blocks a view
\* are gone (webserver.c:30-214, 286).
THEOREM LeakBound == Spec => []LeakIsBounded
<1>1. Spec => []HeapInv
  BY InitHeapInv, NextHeapInv, PTL DEF Spec
<1>2. ASSUME HeapInv PROVE LeakIsBounded
  <2>1. ASSUME pc = "idle" PROVE Blocks <= views * (MaxSets + 3)
    <3>1. Excess <= View0 /\ View0 = MaxSets + 3 /\ MaxSets \in Nat
      BY <1>2, <2>1, HeapFacts DEF HeapInv, Leaked, View0
    <3>2. Blocks \in Nat /\ views \in Nat
      BY <1>2, HeapFacts DEF Blocks, Sorts
    <3>3. (views - 1) * (MaxSets + 3) + (MaxSets + 3) = views * (MaxSets + 3)
      BY <3>1, <3>2
    <3> QED BY <3>1, <3>2, <3>3 DEF Excess
  <2> QED BY <2>1 DEF LeakIsBounded
<1> QED BY <1>1, <1>2, PTL

(***************************************************************************)
(* What the pages show.                                                    *)
(***************************************************************************)
\* A row that is line n of the log, rows that are the lines after base.
RowIs(row, n) == row.no = n /\ \A f \in 1..log[n] : row.from[f] = n
Chunk(rows, base) == \A i \in 1..Len(rows) : base + i <= Len(log) /\ RowIs(rows[i], base + i)

\* The rows of page p: a full set, or the log's last lines.
PageRows(rows, p) ==
    LET base == (p - 1) * LinesPerSet IN
    /\ Chunk(rows, base)
    /\ Len(rows) \in 1..LinesPerSet
    /\ Len(rows) = LinesPerSet \/ base + Len(rows) = Len(log)

Content ==
    /\ pc \in {"html", "log", "buffers", "rows", "pick", "assemble"} => kind = "log"
    /\ pc \in {"alert", "alertHtml", "alertBuffer", "alertRows"} => kind = "alert"
    /\ pc \in {"html", "log", "buffers"} => count = 0 /\ buf = <<>>
    /\ pc = "rows" =>
        /\ count = Len(sets) * LinesPerSet + Len(buf) /\ Len(buf) < LinesPerSet
        /\ Chunk(buf, Len(sets) * LinesPerSet)
        /\ \A s \in 1..Len(sets) : PageRows(sets[s], s)
    /\ (pc = "pick" /\ ~failed) => \A s \in 1..Len(sets) : PageRows(sets[s], s)
    /\ (pc = "assemble" /\ lines # <<>>) => page \in 1..MaxSets /\ PageRows(lines[1], page)
    /\ (pc = "idle" /\ kind = "log" /\ sent.what = "page") =>
        page \in 1..MaxSets /\ PageRows(sent.rows, page)

PageInv == HeapInv /\ Content

\* Division: a count of full sets and a rest is told by its remainder.
LEMMA SmallMultiple ==
  ASSUME NEW k \in Int, NEW x \in Int, k * LinesPerSet = x,
         x < LinesPerSet, -LinesPerSet < x
  PROVE  k = 0
<1>0. LinesPerSet \in Nat \ {0}
  BY RenderAssumption
<1>1. CASE k >= 1
  <2>1. (k - 1) * LinesPerSet >= 0
    BY <1>0, <1>1
  <2>2. k * LinesPerSet = (k - 1) * LinesPerSet + LinesPerSet
    BY <1>0
  <2> QED BY <1>0, <2>1, <2>2
<1>2. CASE k <= -1
  <2>1. (-k - 1) * LinesPerSet >= 0
    BY <1>0, <1>2
  <2>2. k * LinesPerSet = -((-k - 1) * LinesPerSet) - LinesPerSet
    BY <1>0
  <2> QED BY <1>0, <2>1, <2>2
<1> QED BY <1>1, <1>2

LEMMA Remainder ==
  ASSUME NEW q \in Nat, NEW r \in Nat, r < LinesPerSet
  PROVE  (q * LinesPerSet + r) % LinesPerSet = r
<1> DEFINE a == q * LinesPerSet + r
           d == a \div LinesPerSet
           m == a % LinesPerSet
<1>1. LinesPerSet \in Nat \ {0} /\ a \in Nat
  BY RenderAssumption
<1>2. d \in Int /\ m \in 0..LinesPerSet - 1 /\ a = LinesPerSet * d + m
  BY <1>1
<1>3. (q - d) * LinesPerSet = m - r
  BY <1>1, <1>2
<1>4. q - d = 0
  BY <1>1, <1>2, <1>3, SmallMultiple
<1> QED BY <1>1, <1>2, <1>4

\* A set is full exactly when the count says so.
LEMMA FullSet ==
  ASSUME NEW q \in Nat, NEW r \in Nat, r < LinesPerSet
  PROVE  (q * LinesPerSet + r + 1) % LinesPerSet = 0 <=> r + 1 = LinesPerSet
<1>1. LinesPerSet \in Nat \ {0}
  BY RenderAssumption
<1>2. CASE r + 1 < LinesPerSet
  <2>1. (q * LinesPerSet + (r + 1)) % LinesPerSet = r + 1
    BY <1>2, Remainder
  <2> QED BY <1>1, <1>2, <2>1
<1>3. CASE r + 1 = LinesPerSet
  <2>1. ((q + 1) * LinesPerSet + 0) % LinesPerSet = 0
    BY <1>1, Remainder
  <2>2. (q + 1) * LinesPerSet + 0 = q * LinesPerSet + r + 1
    BY <1>1, <1>3
  <2> QED BY <1>3, <2>1, <2>2
<1> QED BY <1>1, <1>2, <1>3

\* The next row continues the rows before it.
LEMMA NextRowContinues ==
  ASSUME PageInv, Line
  PROVE  Chunk(Append(buf, NextRow(field')), Len(sets) * LinesPerSet)
<1> DEFINE row == NextRow(field')
           base == Len(sets) * LinesPerSet
<1>1. /\ pc = "rows" /\ count < Len(log) /\ log[count + 1] \in 0..Fields
      /\ field' = Scanned(log[count + 1]) /\ buf \in Seq(Row)
  BY LineCases DEF PageInv, HeapInv, DataOK
<1>2. /\ count = base + Len(buf) /\ Chunk(buf, base) /\ Len(log) \in Nat
      /\ base \in Nat /\ Len(buf) \in Nat
  <2>1. count = base + Len(buf) /\ Chunk(buf, base)
    BY <1>1 DEF PageInv, Content
  <2>2. Len(log) \in Nat /\ Len(buf) \in Nat /\ Len(sets) \in Nat
    BY <1>1, HeapFacts DEF PageInv, HeapInv, DataOK
  <2>3. LinesPerSet \in Nat
    BY RenderAssumption
  <2> QED BY <2>1, <2>2, <2>3
<1>3. row \in Row
  BY <1>1, RowType DEF PageInv
<1>4. RowIs(row, count + 1)
  <2>1. row.no = count + 1 /\ row.from = field'
    BY DEF NextRow
  <2>2. \A f \in 1..log[count + 1] : field'[f] = count + 1
    BY <1>1, RenderAssumption DEF Scanned
  <2> QED BY <2>1, <2>2 DEF RowIs
<1> HIDE DEF row, base
<1>5. ASSUME NEW i \in 1..Len(buf) + 1
      PROVE  base + i <= Len(log) /\ RowIs(Append(buf, row)[i], base + i)
  <2>1. CASE i <= Len(buf)
    <3>1. Append(buf, row)[i] = buf[i] /\ i \in 1..Len(buf)
      BY <1>1, <1>2, <1>3, <2>1, AppendProperties
    <3> QED BY <1>2, <3>1 DEF Chunk
  <2>2. CASE i = Len(buf) + 1
    <3>1. Append(buf, row)[i] = row /\ base + i = count + 1
      BY <1>1, <1>2, <1>3, <2>2, AppendProperties
    <3> QED BY <1>1, <1>2, <1>4, <3>1
  <2> QED BY <1>2, <2>1, <2>2
<1>6. Len(Append(buf, row)) = Len(buf) + 1
  BY <1>1, <1>3, AppendProperties
<1> QED BY <1>5, <1>6 DEF Chunk, row, base

\* A full set makes a page.
LEMMA LineContent == ASSUME PageInv, Line PROVE Content'
<1> DEFINE rows == Append(buf, NextRow(field'))
           base == Len(sets) * LinesPerSet
<1>1. /\ pc = "rows" /\ count' = count + 1
      /\ rows \in Seq(Row) /\ Len(rows) = Len(buf) + 1
      /\ UNCHANGED <<kind, page, log, lines, sent, views>>
      /\ \/ /\ count' % LinesPerSet # 0 /\ buf' = rows
            /\ UNCHANGED <<sets, heap, failed, pc>>
         \/ /\ count' % LinesPerSet = 0
            /\ sets' = Append(sets, rows) /\ buf' = <<>>
            /\ pc' = IF Len(sets') = MaxSets THEN "pick" ELSE "rows"
         \/ /\ failed' = TRUE /\ sets' = <<>> /\ buf' = <<>> /\ pc' = "pick"
  BY LineCases DEF PageInv
<1>2. /\ kind = "log" /\ count = base + Len(buf) /\ Len(buf) < LinesPerSet
      /\ \A s \in 1..Len(sets) : PageRows(sets[s], s)
  BY <1>1 DEF PageInv, Content
<1>3. /\ sets \in Seq(Seq(Row)) /\ Len(sets) \in Nat /\ Len(buf) \in Nat
      /\ LinesPerSet \in Nat \ {0} /\ base \in Nat
  BY HeapFacts, RenderAssumption DEF PageInv, HeapInv, DataOK
<1>4. Chunk(rows, base)
  BY NextRowContinues
<1>5. count' % LinesPerSet = 0 <=> Len(buf) + 1 = LinesPerSet
  <2>1. count' = Len(sets) * LinesPerSet + Len(buf) + 1
    BY <1>1, <1>2
  <2> QED BY <1>2, <1>3, <2>1, FullSet
<1> HIDE DEF rows
<1>7. CASE count' % LinesPerSet # 0 /\ buf' = rows /\ UNCHANGED <<sets, pc>>
  <2>1. Len(buf') < LinesPerSet /\ count' = Len(sets') * LinesPerSet + Len(buf')
    <3>1. Len(buf') = Len(buf) + 1 /\ Len(sets') * LinesPerSet = base
      BY <1>1, <1>7
    <3>2. Len(buf) + 1 # LinesPerSet
      BY <1>5, <1>7
    <3> HIDE DEF base
    <3> QED BY <1>1, <1>2, <1>3, <3>1, <3>2
  <2>2. Chunk(buf, Len(sets) * LinesPerSet)'
    BY <1>4, <1>7, <1>1 DEF Chunk, RowIs
  <2>3. (\A s \in 1..Len(sets) : PageRows(sets[s], s))'
    BY <1>1, <1>2, <1>7 DEF PageRows, Chunk, RowIs
  <2> QED BY <1>1, <1>2, <1>7, <2>1, <2>2, <2>3 DEF Content
<1>8. CASE /\ count' % LinesPerSet = 0
           /\ sets' = Append(sets, rows) /\ buf' = <<>>
           /\ pc' = IF Len(sets') = MaxSets THEN "pick" ELSE "rows"
  <2>1. Len(sets') = Len(sets) + 1 /\ Len(rows) = LinesPerSet /\ Len(buf') = 0
    BY <1>1, <1>3, <1>5, <1>8, AppendProperties
  <2>2. PageRows(rows, Len(sets) + 1)
    <3>1. (Len(sets) + 1 - 1) * LinesPerSet = base
      BY <1>3
    <3> QED BY <1>3, <1>4, <2>1, <3>1 DEF PageRows
  <2>3. ASSUME NEW s \in 1..Len(sets') PROVE PageRows(sets'[s], s)
    <3>1. CASE s <= Len(sets)
      <4>1. sets'[s] = sets[s] /\ s \in 1..Len(sets)
        BY <1>1, <1>3, <1>8, <2>1, <3>1, AppendProperties
      <4> QED BY <1>2, <4>1
    <3>2. CASE s = Len(sets) + 1
      <4>1. sets'[s] = rows
        BY <1>1, <1>3, <1>8, <3>2, AppendProperties
      <4> QED BY <2>2, <3>2, <4>1
    <3> QED BY <1>3, <2>1, <3>1, <3>2
  <2>4. (\A s \in 1..Len(sets) : PageRows(sets[s], s))'
    BY <1>1, <2>3 DEF PageRows, Chunk, RowIs
  <2>5. count' = Len(sets') * LinesPerSet + Len(buf') /\ Len(buf') < LinesPerSet
    <3>1. Len(sets') * LinesPerSet = base + LinesPerSet
      BY <1>3, <2>1
    <3>2. Len(buf) + 1 = LinesPerSet
      BY <1>5, <1>8
    <3> HIDE DEF base
    <3> QED BY <1>1, <1>2, <1>3, <2>1, <3>1, <3>2
  <2>6. Chunk(buf, Len(sets) * LinesPerSet)'
    BY <2>1 DEF Chunk
  <2>7. pc' \in {"pick", "rows"}
    BY <1>8
  <2> QED BY <1>1, <1>2, <2>4, <2>5, <2>6, <2>7 DEF Content
<1>9. CASE failed' = TRUE /\ pc' = "pick"
  BY <1>1, <1>2, <1>9 DEF Content
<1> QED BY <1>1, <1>7, <1>8, <1>9

\* The rest makes the last page.
LEMMA LastSetContent == ASSUME PageInv, LastSet PROVE Content'
<1>1. /\ pc = "rows" /\ pc' = "pick" /\ count = Len(log)
      /\ UNCHANGED <<kind, page, log, count, field, buf, lines, sent, views>>
      /\ \/ count % LinesPerSet = 0 /\ UNCHANGED <<sets, failed>>
         \/ count % LinesPerSet # 0 /\ sets' = Append(sets, buf)
         \/ failed' = TRUE
  BY DEF LastSet, NoMemory
<1>2. /\ kind = "log" /\ count = Len(sets) * LinesPerSet + Len(buf) /\ Len(buf) < LinesPerSet
      /\ \A s \in 1..Len(sets) : PageRows(sets[s], s)
      /\ Chunk(buf, Len(sets) * LinesPerSet)
  BY <1>1 DEF PageInv, Content
<1>3. /\ sets \in Seq(Seq(Row)) /\ Len(sets) \in Nat /\ buf \in Seq(Row) /\ Len(buf) \in Nat
      /\ LinesPerSet \in Nat \ {0}
  BY HeapFacts, RenderAssumption DEF PageInv, HeapInv, DataOK
<1>4. CASE UNCHANGED sets
  <2>1. (\A s \in 1..Len(sets) : PageRows(sets[s], s))'
    BY <1>1, <1>2, <1>4 DEF PageRows, Chunk, RowIs
  <2> QED BY <1>1, <1>2, <2>1 DEF Content
<1>5. CASE count % LinesPerSet # 0 /\ sets' = Append(sets, buf)
  <2>1. Len(buf) # 0
    <3>1. (Len(sets) * LinesPerSet + Len(buf)) % LinesPerSet = Len(buf)
      BY <1>2, <1>3, Remainder
    <3> QED BY <1>2, <1>5, <3>1
  <2>2. PageRows(buf, Len(sets) + 1)
    <3>1. (Len(sets) + 1 - 1) * LinesPerSet = Len(sets) * LinesPerSet
      BY <1>3
    <3> QED BY <1>1, <1>2, <1>3, <2>1, <3>1 DEF PageRows
  <2>3. Len(sets') = Len(sets) + 1
    BY <1>3, <1>5, AppendProperties
  <2>4. ASSUME NEW s \in 1..Len(sets') PROVE PageRows(sets'[s], s)
    <3>1. CASE s <= Len(sets)
      <4>1. sets'[s] = sets[s] /\ s \in 1..Len(sets)
        BY <1>3, <1>5, <2>3, <3>1, AppendProperties
      <4> QED BY <1>2, <4>1
    <3>2. CASE s = Len(sets) + 1
      <4>1. sets'[s] = buf
        BY <1>3, <1>5, <3>2, AppendProperties
      <4> QED BY <2>2, <3>2, <4>1
    <3> QED BY <1>3, <2>3, <3>1, <3>2
  <2>5. (\A s \in 1..Len(sets) : PageRows(sets[s], s))'
    BY <1>1, <2>4 DEF PageRows, Chunk, RowIs
  <2> QED BY <1>1, <1>2, <2>5 DEF Content
<1>6. CASE failed' = TRUE
  BY <1>1, <1>2, <1>6 DEF Content
<1> QED BY <1>1, <1>4, <1>5, <1>6

LEMMA PickContent == ASSUME PageInv, Pick PROVE Content'
<1>1. /\ pc = "pick" /\ pc' = "assemble"
      /\ UNCHANGED <<kind, page, log, count, field, buf, sets, sent, failed, views>>
      /\ lines' = IF ~failed /\ page \in 1..Len(sets) THEN <<sets[page]>> ELSE <<>>
  BY DEF Pick
<1>2. kind = "log" /\ (~failed => \A s \in 1..Len(sets) : PageRows(sets[s], s))
  BY <1>1 DEF PageInv, Content
<1>3. ASSUME lines' # <<>> PROVE page \in 1..MaxSets /\ PageRows(lines'[1], page)
  <2>1. ~failed /\ page \in 1..Len(sets) /\ lines' = <<sets[page]>>
    BY <1>1, <1>3
  <2> QED BY <1>2, <2>1, HeapFacts DEF PageInv
<1>4. (lines # <<>> => page \in 1..MaxSets /\ PageRows(lines[1], page))'
  BY <1>1, <1>3 DEF PageRows, Chunk, RowIs
<1> QED BY <1>1, <1>2, <1>4 DEF Content

LEMMA AssembleContent == ASSUME PageInv, Assemble PROVE Content'
<1>1. /\ pc = "assemble" /\ lines # <<>> /\ UNCHANGED locals
      /\ Send(lines[1]) \/ pc' = "null"
  BY DEF Assemble
<1>2. page \in 1..MaxSets /\ PageRows(lines[1], page)
  BY <1>1 DEF PageInv, Content
<1>3. UNCHANGED <<kind, page, log>>
  BY <1>1 DEF locals
<1>4. CASE Send(lines[1])
  <2>1. lines[1] \in Seq(Row)
    <3>1. PICK s \in 1..Len(sets) : lines = <<sets[s]>>
      BY <1>1 DEF PageInv, HeapInv, DataOK
    <3> QED BY <3>1, HeapFacts, ElementOfSeq DEF PageInv
  <2>2. Len(lines[1]) <= SendRows
    <3>1. LinesPerSet <= SendRows /\ SendRows \in Nat /\ LinesPerSet \in Nat
      BY RenderAssumption
    <3>2. Len(lines[1]) \in 1..LinesPerSet
      BY <1>2 DEF PageRows
    <3> QED BY <3>1, <3>2
  <2>3. pc' = "idle" /\ sent'.rows = lines[1]
    BY <1>4, <2>1, <2>2, SendType
  <2>4. PageRows(sent.rows, page)'
    BY <1>2, <1>3, <2>3 DEF PageRows, Chunk, RowIs
  <2> QED BY <1>2, <1>3, <2>3, <2>4 DEF Content
<1>5. CASE pc' = "null"
  BY <1>5 DEF Content
<1> QED BY <1>1, <1>4, <1>5

\* The other steps send no page of the log.
LEMMA OtherContent ==
  ASSUME PageInv,
         Plain \/ AssembleStray \/ AlertLine \/ AlertPage \/ UNCHANGED vars
         \/ \E k \in {"log", "alert"} : \E p \in Nat : \E content : Ask(k, p, content)
  PROVE  Content'
<1>1. CASE \E k \in {"log", "alert"} : \E p \in Nat : \E content : Ask(k, p, content)
  BY <1>1 DEF Ask, Content
<1>2. CASE UNCHANGED vars
  BY <1>2 DEF PageInv, Content, PageRows, Chunk, RowIs, vars, locals
<1>3. CASE AlertLine
  BY <1>3 DEF AlertLine, PageInv, Content
<1>4. CASE AlertPage
  <2>1. kind' = "alert" /\ pc' \in {"idle", "null"}
    BY <1>4 DEF AlertPage, Send, locals, PageInv, Content
  <2> QED BY <2>1 DEF Content
<1>5. CASE AssembleStray
  <2>1. pc' \in {"dead", "null"} \/ (pc' = "idle" /\ sent' = Nothing("junk"))
    BY <1>5 DEF AssembleStray
  <2>2. sent' = Nothing("junk") => sent'.what = "junk"
    BY DEF Nothing
  <2> QED BY <2>1, <2>2 DEF Content
<1>6. CASE Plain
  <2>1. UNCHANGED <<kind, page, log, count, buf, sets, lines>>
    BY <1>6 DEF Plain, Html, Log, Buffers, Alert, AlertHtml, AlertBuffer, Null, locals
  <2>2. CASE pc = "buffers"
    <3>1. count = 0 /\ buf = <<>> /\ kind = "log" /\ sets = <<>> /\ LinesPerSet \in Nat \ {0}
      BY <2>2, RenderAssumption DEF PageInv, HeapInv, LoopOK, Content
    <3>2. Len(buf) = 0 /\ Len(sets) = 0
      BY <3>1
    <3>3. pc' = "rows" \/ (pc' = "pick" /\ failed')
      BY <1>6, <2>2 DEF Plain, Html, Log, Buffers, Alert, AlertHtml, AlertBuffer, Null,
         NoMemory
    <3>4. Chunk(buf, Len(sets) * LinesPerSet)'
      BY <2>1, <3>1, <3>2 DEF Chunk
    <3>5. 0 = 0 * LinesPerSet + 0
      BY <3>1
    <3>6. count' = Len(sets') * LinesPerSet + Len(buf') /\ Len(buf') < LinesPerSet
      BY <2>1, <3>1, <3>2, <3>5
    <3>7. (\A s \in 1..Len(sets) : PageRows(sets[s], s))'
      BY <2>1, <3>2
    <3> QED BY <2>1, <3>1, <3>3, <3>4, <3>6, <3>7 DEF Content
  <2>3. CASE pc # "buffers"
    <3>1. \/ pc = "html" /\ pc' = "log"
          \/ pc = "log" /\ pc' = "buffers"
          \/ pc = "log" /\ pc' = "pick" /\ failed' = TRUE
          \/ pc = "alert" /\ pc' = "alertHtml"
          \/ pc = "alertHtml" /\ pc' = "alertBuffer"
          \/ pc = "alertBuffer" /\ pc' = "alertRows"
          \/ pc' \in {"null", "dead"}
          \/ pc' = "idle" /\ \E w \in {"default", "junk"} : sent' = Nothing(w)
      BY <1>6, <2>3 DEF Plain, Html, Log, Buffers, Alert, AlertHtml, AlertBuffer, Null,
         SendDefault, ReadNull
    <3>2. \A w \in {"default", "junk"} : sent' = Nothing(w) => sent'.what # "page"
      BY DEF Nothing
    <3> QED BY <2>1, <3>1, <3>2 DEF PageInv, Content
  <2> QED BY <2>2, <2>3
<1> QED BY <1>1, <1>2, <1>3, <1>4, <1>5, <1>6

LEMMA NextPageInv == ASSUME PageInv, [Next]_vars PROVE PageInv'
<1>1. HeapInv'
  BY NextHeapInv DEF PageInv
<1>2. ASSUME View PROVE Content'
  BY <1>2, LineContent, LastSetContent, PickContent, AssembleContent, OtherContent DEF View, Plain
<1>3. ASSUME UNCHANGED vars PROVE Content'
  BY <1>3, OtherContent
<1>4. ASSUME NEW p \in 0..MaxSets + 1, NEW content \in Logs, Ask("log", p, content)
      PROVE  Content'
  <2>1. p \in Nat
    BY RenderAssumption
  <2> QED BY <1>4, <2>1, OtherContent
<1>5. ASSUME NEW n \in 0..MaxAlerts, Ask("alert", 1, [i \in 1..n |-> Fields])
      PROVE  Content'
  BY <1>5, OtherContent
<1>6. Content'
  BY <1>2, <1>3, <1>4, <1>5 DEF Next
<1> QED BY <1>1, <1>6 DEF PageInv

LEMMA InitPageInv == Init => PageInv
<1> SUFFICES ASSUME Init PROVE PageInv
  OBVIOUS
<1>1. HeapInv
  BY InitHeapInv
<1>2. sent.what = "none" /\ pc = "idle"
  BY DEF Init, Nothing
<1>3. Content
  BY <1>2 DEF Content
<1> QED BY <1>1, <1>3 DEF PageInv

\* PageRows is what the property says.
LEMMA PageRowsShow ==
  ASSUME PageInv, Done, kind = "log", sent.what = "page"
  PROVE  /\ Exists /\ Len(sent.rows) = LastLine - FirstLine + 1
         /\ \A i \in 1..Len(sent.rows) :
              LET n == FirstLine + i - 1 IN
              /\ sent.rows[i].no = n
              /\ \A f \in 1..log[n] : sent.rows[i].from[f] = n
<1> DEFINE base == (page - 1) * LinesPerSet
           size == Len(sent.rows)
<1>1. page \in 1..MaxSets /\ PageRows(sent.rows, page)
  BY DEF PageInv, Content, Done
<1>2. /\ Chunk(sent.rows, base) /\ size \in 1..LinesPerSet
      /\ size = LinesPerSet \/ base + size = Len(log)
  BY <1>1 DEF PageRows
<1>3. /\ LinesPerSet \in Nat \ {0} /\ MaxSets \in Nat /\ base \in Int
      /\ page * LinesPerSet = base + LinesPerSet /\ Len(log) \in Nat
  BY <1>1, RenderAssumption DEF PageInv, HeapInv, DataOK
<1>4. FirstLine = base + 1
  BY DEF FirstLine
<1> HIDE DEF base
<1>5. base + 1 <= Len(log) /\ base + size <= Len(log)
  BY <1>2, <1>3 DEF Chunk
<1>6. Exists
  BY <1>1, <1>4, <1>5 DEF Exists
<1>7. size = LastLine - FirstLine + 1
  BY <1>2, <1>3, <1>4, <1>5 DEF LastLine
<1>8. ASSUME NEW i \in 1..size
      PROVE  LET n == FirstLine + i - 1 IN
             sent.rows[i].no = n /\ \A f \in 1..log[n] : sent.rows[i].from[f] = n
  <2>1. RowIs(sent.rows[i], base + i)
    BY <1>2 DEF Chunk
  <2>2. FirstLine + i - 1 = base + i
    BY <1>3, <1>4, <1>2
  <2> QED BY <2>1, <2>2 DEF RowIs
<1> QED BY <1>6, <1>7, <1>8

\* A page of the log shows its own lines, all of them, in order and under
\* their numbers, for every log, page and size of the sets, after any views
\* and failures (webserver.c:114-207).
THEOREM PagesAreRight == Spec => []PageShowsItsLines
<1>1. Spec => []PageInv
  BY InitPageInv, NextPageInv, PTL DEF Spec
<1>2. PageInv => PageShowsItsLines
  BY PageRowsShow DEF PageShowsItsLines
<1> QED BY <1>1, <1>2, PTL

(***************************************************************************)
(* That a page is there.                                                   *)
(***************************************************************************)
\* Without a failure the sets hold the whole log or as much as they may, and
\* a page that exists is found in them and sent.
Complete ==
    /\ pc = "null" => failed
    /\ (pc = "pick" /\ ~failed) => Len(sets) = MaxSets \/ Len(log) <= Len(sets) * LinesPerSet
    /\ (pc = "assemble" /\ Exists /\ ~failed) => lines # <<>>
    /\ (pc = "idle" /\ views > 0 /\ kind = "log" /\ Exists /\ ~failed) => sent.what = "page"

ServeInv == PageInv /\ Complete

LEMMA LastSetComplete == ASSUME ServeInv, LastSet PROVE Complete'
<1>1. /\ pc = "rows" /\ pc' = "pick" /\ count = Len(log) /\ UNCHANGED log
      /\ \/ count % LinesPerSet = 0 /\ UNCHANGED <<sets, failed>>
         \/ count % LinesPerSet # 0 /\ sets' = Append(sets, buf)
         \/ failed' = TRUE
  BY DEF LastSet, NoMemory
<1>2. count = Len(sets) * LinesPerSet + Len(buf) /\ Len(buf) < LinesPerSet
  BY <1>1 DEF ServeInv, PageInv, Content
<1>3. /\ sets \in Seq(Seq(Row)) /\ Len(sets) \in Nat /\ buf \in Seq(Row) /\ Len(buf) \in Nat
      /\ LinesPerSet \in Nat \ {0}
  BY HeapFacts, RenderAssumption DEF ServeInv, PageInv, HeapInv, DataOK
<1>4. CASE count % LinesPerSet = 0 /\ UNCHANGED <<sets, failed>>
  <2>1. (Len(sets) * LinesPerSet + Len(buf)) % LinesPerSet = Len(buf)
    BY <1>2, <1>3, Remainder
  <2>2. Len(buf) = 0
    BY <1>2, <1>4, <2>1
  <2>3. Len(log) <= Len(sets) * LinesPerSet
    BY <1>1, <1>2, <1>3, <2>2
  <2> QED BY <1>1, <1>4, <2>3 DEF Complete
<1>5. CASE count % LinesPerSet # 0 /\ sets' = Append(sets, buf)
  <2>1. Len(sets') = Len(sets) + 1
    BY <1>3, <1>5, AppendProperties
  <2>2. (Len(sets) + 1) * LinesPerSet = Len(sets) * LinesPerSet + LinesPerSet
    BY <1>3
  <2>3. Len(log) <= (Len(sets) + 1) * LinesPerSet
    BY <1>1, <1>2, <1>3, <2>2
  <2> QED BY <1>1, <2>1, <2>3 DEF Complete
<1>6. CASE failed' = TRUE
  BY <1>1, <1>6 DEF Complete
<1> QED BY <1>1, <1>4, <1>5, <1>6

LEMMA PickComplete == ASSUME ServeInv, Pick PROVE Complete'
<1>1. /\ pc = "pick" /\ pc' = "assemble" /\ UNCHANGED <<page, log, sets, failed>>
      /\ lines' = IF ~failed /\ page \in 1..Len(sets) THEN <<sets[page]>> ELSE <<>>
  BY DEF Pick
<1>2. /\ Len(sets) \in Nat /\ Len(log) \in Nat /\ page \in Nat
      /\ MaxSets \in Nat /\ LinesPerSet \in Nat \ {0}
  BY HeapFacts, RenderAssumption DEF ServeInv, PageInv, HeapInv, DataOK
<1>3. ASSUME Exists, ~failed PROVE page \in 1..Len(sets)
  <2>1. page \in 1..MaxSets /\ (page - 1) * LinesPerSet + 1 <= Len(log)
    BY <1>3 DEF Exists, FirstLine
  <2>2. Len(sets) = MaxSets \/ Len(log) <= Len(sets) * LinesPerSet
    BY <1>1, <1>3 DEF ServeInv, Complete
  <2>3. CASE Len(sets) = MaxSets
    BY <2>1, <2>3
  <2>4. CASE Len(log) <= Len(sets) * LinesPerSet
    <3>1. SUFFICES ASSUME page - 1 >= Len(sets) PROVE FALSE
      BY <1>2, <2>1
    <3>2. (page - 1 - Len(sets)) * LinesPerSet >= 0
      BY <1>2, <2>1, <3>1
    <3>3. (page - 1) * LinesPerSet = (page - 1 - Len(sets)) * LinesPerSet + Len(sets) * LinesPerSet
      BY <1>2, <2>1
    <3>4. Len(sets) * LinesPerSet \in Int /\ (page - 1) * LinesPerSet \in Int
          /\ (page - 1 - Len(sets)) * LinesPerSet \in Int
      BY <1>2, <2>1
    <3> QED BY <1>2, <2>1, <2>4, <3>2, <3>3, <3>4
  <2> QED BY <2>2, <2>3, <2>4
<1>4. ASSUME Exists', ~failed' PROVE lines' # <<>>
  <2>1. Exists /\ ~failed
    BY <1>1, <1>4 DEF Exists, FirstLine
  <2> QED BY <1>1, <1>3, <2>1
<1> QED BY <1>1, <1>4 DEF Complete

LEMMA AssembleComplete == ASSUME ServeInv, Assemble \/ AssembleStray PROVE Complete'
<1>1. CASE Assemble
  <2>1. \/ pc' = "idle" /\ sent'.what = "page"
        \/ pc' = "null" /\ failed' = TRUE
    BY <1>1 DEF Assemble, Send, NoMemory
  <2> QED BY <2>1 DEF Complete
<1>2. CASE AssembleStray
  <2>1. /\ pc = "assemble" /\ lines = <<>> /\ UNCHANGED <<page, log>>
        /\ \/ pc' = "dead"
           \/ pc' = "idle" /\ UNCHANGED failed
           \/ pc' = "null" /\ failed' = TRUE
    BY <1>2 DEF AssembleStray, NoMemory, locals
  <2>2. Exists' = Exists
    BY <2>1 DEF Exists, FirstLine
  <2>3. Exists => failed
    BY <2>1 DEF ServeInv, Complete
  <2> QED BY <2>1, <2>2, <2>3 DEF Complete
<1> QED BY <1>1, <1>2

\* The other steps fail, end a view of the alerts, or go on.
LEMMA OtherComplete ==
  ASSUME ServeInv, Plain \/ Line \/ AlertLine \/ AlertPage \/ UNCHANGED vars
         \/ \E k \in {"log", "alert"} : \E p \in Nat : \E content : Ask(k, p, content)
  PROVE  Complete'
<1>1. CASE UNCHANGED vars
  BY <1>1 DEF vars, locals, ServeInv, Complete, Exists, FirstLine
<1>2. CASE \E k \in {"log", "alert"} : \E p \in Nat : \E content : Ask(k, p, content)
  <2>1. pc' \in {"html", "alert"}
    BY <1>2 DEF Ask
  <2> QED BY <2>1 DEF Complete
<1>3. CASE Line
  <2>1. \/ pc' = "rows"
        \/ pc' = "pick" /\ Len(sets') = MaxSets
        \/ pc' = "pick" /\ failed' = TRUE
    BY <1>3 DEF Line, NoMemory
  <2> QED BY <2>1 DEF Complete
<1>4. CASE AlertLine \/ AlertPage
  <2>1. kind' = "alert"
    BY <1>4 DEF AlertLine, AlertPage, locals, ServeInv, PageInv, Content
  <2>2. pc' \in {"alertRows", "idle"} \/ (pc' = "null" /\ failed' = TRUE)
    BY <1>4 DEF AlertLine, AlertPage, Send, NoMemory
  <2> QED BY <2>1, <2>2 DEF Complete
<1>5. CASE Plain
  <2>1. CASE Null
    <3>1. failed' = failed /\ failed /\ pc' \in {"idle", "dead"}
      BY <2>1 DEF Null, ServeInv, Complete
    <3> QED BY <3>1 DEF Complete
  <2>2. CASE ~Null
    <3>1. pc' \in {"log", "buffers", "rows", "alertHtml", "alertBuffer", "alertRows"}
          \/ failed' = TRUE
      BY <1>5, <2>2 DEF Plain, Html, Log, Buffers, Alert, AlertHtml, AlertBuffer,
         ReadOk, ReadNull, Malloc, NoMemory
    <3>2. pc' # "null" \/ failed' = TRUE
      BY <3>1
    <3> QED BY <3>1, <3>2 DEF Complete
  <2> QED BY <2>1, <2>2
<1> QED BY <1>1, <1>2, <1>3, <1>4, <1>5

LEMMA NextServeInv == ASSUME ServeInv, [Next]_vars PROVE ServeInv'
<1>1. PageInv'
  BY NextPageInv DEF ServeInv
<1>2. ASSUME View PROVE Complete'
  BY <1>2, LastSetComplete, PickComplete, AssembleComplete, OtherComplete DEF View, Plain
<1>3. ASSUME UNCHANGED vars PROVE Complete'
  BY <1>3, OtherComplete
<1>4. ASSUME NEW p \in 0..MaxSets + 1, NEW content \in Logs, Ask("log", p, content)
      PROVE  Complete'
  <2>1. p \in Nat
    BY RenderAssumption
  <2> QED BY <1>4, <2>1, OtherComplete
<1>5. ASSUME NEW n \in 0..MaxAlerts, Ask("alert", 1, [i \in 1..n |-> Fields])
      PROVE  Complete'
  BY <1>5, OtherComplete
<1>6. Complete'
  BY <1>2, <1>3, <1>4, <1>5 DEF Next
<1> QED BY <1>1, <1>6 DEF ServeInv

\* Whatever the log holds and however the heap is used up by earlier views, a
\* page that exists is served unless this view's card or heap failed
\* (webserver.c:132-177).
THEOREM ExistingPagesServed == Spec => []ExistingPageServed
<1>1. Init => ServeInv
  <2>1. Init => pc = "idle" /\ views = 0
    BY DEF Init
  <2> QED BY <2>1, InitPageInv DEF ServeInv, Complete
<1>2. ServeInv => ExistingPageServed
  BY DEF ServeInv, Complete, ExistingPageServed, Done
<1> QED BY <1>1, <1>2, NextServeInv, PTL DEF Spec
=============================================================================
