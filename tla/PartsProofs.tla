---------------------------- MODULE PartsProofs ----------------------------
(****************************************************************************)
(* Theorems about the parts that stand alone, for every size of their arrays, *)
(* counters and periods: the ring buffer of the daemon is a queue, the array  *)
(* of samples of a door is a run length, the controller at the door opener    *)
(* swallows nothing, and the one that reports to the world does so in time.   *)
(****************************************************************************)
EXTENDS SignalRing, SmoothSensor, BuschInterface, ApiEndpoint, IpcTableProofs

(* An index that runs past the end of an array of n entries once.             *)
LEMMA Wrapping ==
    ASSUME NEW n \in Nat \ {0}, NEW a \in Nat, a < 2 * n
    PROVE  a % n = IF a < n THEN a ELSE a - n
OBVIOUS

-----------------------------------------------------------------------------
(* The controller at the door opener.                                         *)

(* A ring or a command is not swallowed, whatever the loop, the interrupt,    *)
(* the task of the MQTT client and a restart do in between.                   *)
THEOREM BuschSwallowsNothing == BuschSpec => []NothingSwallowed
<1>1. BuschInit => NothingSwallowed
  BY DEF BuschInit, NothingSwallowed
<1>2. ASSUME NothingSwallowed, [BuschNext]_buschVars
      PROVE  NothingSwallowed'
  <2>1. CASE io_was_doorbell_triggered
    BY <1>2, <2>1 DEF io_was_doorbell_triggered, NothingSwallowed
  <2>2. CASE was_door_signalled
    BY <1>2, <2>2 DEF was_door_signalled, NothingSwallowed
  <2>3. CASE io_trigger_door_unlock \/ on_mqtt_connect
    BY <1>2, <2>3 DEF io_trigger_door_unlock, on_mqtt_connect, NothingSwallowed
  <2>4. CASE handle_gpio_interrupt
    BY <1>2, <2>4 DEF handle_gpio_interrupt, NothingSwallowed
  <2>5. CASE signal_door_open
    BY <1>2, <2>5 DEF signal_door_open, NothingSwallowed
  <2>6. CASE busch_restart
    BY <2>6 DEF busch_restart, NothingSwallowed
  <2>7. CASE UNCHANGED buschVars
    BY <1>2, <2>7 DEF buschVars, NothingSwallowed
  <2> QED
    BY <1>2, <2>1, <2>2, <2>3, <2>4, <2>5, <2>6, <2>7 DEF BuschNext
<1> QED
  BY <1>1, <1>2, PTL DEF BuschSpec
-----------------------------------------------------------------------------
(* The ring buffer.                                                           *)

(* The offsets stay inside the arrays.                                        *)
RingInv ==
    /\ read_offset \in Cells
    /\ size \in 0 .. RingSize
    /\ signals \in [Cells -> RingSignals]
    /\ client_ids \in [Cells -> RingIds]

(* The cell of the k-th entry, from offset r on.                              *)
CellOf(r, k) == (r + k - 1) % RingSize

Stored(sigs, ids, c) == <<sigs[c], ids[c]>>
Pairs == RingSignals \X RingIds

(* The entries of the queue are where they are.                               *)
LEMMA WaitingEntries ==
    ASSUME RingInv
    PROVE  /\ Waiting \in Seq(Pairs) /\ Len(Waiting) = size
           /\ \A k \in 1 .. size :
                 /\ CellOf(read_offset, k) \in Cells
                 /\ Waiting[k] = Stored(signals, client_ids, CellOf(read_offset, k))
<1>1. \A k \in 1 .. size : CellOf(read_offset, k) \in Cells
  BY RingAssumption DEF RingInv, Cells, CellOf
<1>2. \A c \in Cells : Stored(signals, client_ids, c) \in Pairs
  BY DEF RingInv, Stored, Pairs
<1>3. Waiting = [k \in 1 .. size |-> Stored(signals, client_ids, CellOf(read_offset, k))]
  BY DEF Waiting, Stored, CellOf
<1>4. Waiting \in [1 .. size -> Pairs]
  BY <1>1, <1>2, <1>3
<1>5. size \in Nat
  BY RingAssumption DEF RingInv
<1> QED
  BY <1>1, <1>3, <1>4, <1>5, LenProperties

(* The same after a step.                                                     *)
LEMMA WaitingEntriesNext ==
    ASSUME RingInv'
    PROVE  /\ Waiting' \in Seq(Pairs) /\ Len(Waiting') = size'
           /\ \A k \in 1 .. size' :
                 /\ CellOf(read_offset', k) \in Cells
                 /\ Waiting'[k] = Stored(signals', client_ids', CellOf(read_offset', k))
<1>1. \A k \in 1 .. size' : CellOf(read_offset', k) \in Cells
  <2>1. RingSize \in Nat \ {0} /\ read_offset' \in Nat /\ size' \in Nat
    BY RingAssumption DEF RingInv, Cells
  <2>2. \A a \in Nat : a % RingSize \in Cells
    BY <2>1 DEF Cells
  <2>3. \A k \in 1 .. size' : read_offset' + k - 1 \in Nat
    <3>1. \A r, n \in Nat : \A k \in 1 .. n : r + k - 1 \in Nat
      OBVIOUS
    <3> QED
      BY <2>1, <3>1, Zenon
  <2> QED
    BY <2>2, <2>3 DEF CellOf
<1>2. \A c \in Cells : Stored(signals', client_ids', c) \in Pairs
  BY DEF RingInv, Stored, Pairs, Cells
<1>3. Waiting' = [k \in 1 .. size' |-> Stored(signals', client_ids', CellOf(read_offset', k))]
  BY DEF Waiting, Stored, CellOf
<1>4. Waiting' \in [1 .. size' -> Pairs]
  BY <1>1, <1>2, <1>3
<1>5. size' \in Nat
  BY RingAssumption DEF RingInv
<1> QED
  BY <1>1, <1>3, <1>4, <1>5, LenProperties

(* A push that succeeds appends.                                              *)
LEMMA PushAppends ==
    ASSUME RingInv, NEW sig \in RingSignals, NEW id \in RingIds, size < RingSize,
           push_signal(sig, id)
    PROVE  RingInv' /\ Waiting' = Append(Waiting, <<sig, id>>) /\ answer' = <<TRUE>>
<1> DEFINE w == CellOf(read_offset, size + 1)
<1>1. RingSize \in Nat \ {0} /\ size \in Nat /\ read_offset \in Nat /\ read_offset < RingSize
  BY RingAssumption DEF RingInv, Cells
<1>2. write_index = w /\ w \in Cells
  BY <1>1 DEF write_index, CellOf, Cells
<1>3. /\ signals' = [signals EXCEPT ![w] = sig]
      /\ client_ids' = [client_ids EXCEPT ![w] = id]
      /\ size' = size + 1 /\ read_offset' = read_offset /\ answer' = <<TRUE>>
  <2>1. ~(size >= RingSize)
    BY <1>1
  <2> HIDE DEF w
  <2> QED
    BY <1>2, <2>1 DEF push_signal
<1>4. RingInv'
  BY <1>1, <1>2, <1>3 DEF RingInv, Cells
<1>5. \A k \in 1 .. size : CellOf(read_offset, k) # w
  <2> SUFFICES ASSUME NEW k \in 1 .. size PROVE CellOf(read_offset, k) # w
    OBVIOUS
  <2> DEFINE a == read_offset + k - 1
             b == read_offset + size
  <2>1. a \in Nat /\ b \in Nat /\ a < b /\ b < 2 * RingSize /\ b - a < RingSize
    BY <1>1
  <2>2. /\ a % RingSize = IF a < RingSize THEN a ELSE a - RingSize
        /\ b % RingSize = IF b < RingSize THEN b ELSE b - RingSize
    <3> HIDE DEF a, b
    <3>1. a < 2 * RingSize
      BY <1>1, <2>1
    <3> QED
      BY <1>1, <2>1, <3>1, Wrapping
  <2>3. a % RingSize # b % RingSize
    <3> HIDE DEF a, b
    <3> QED
      BY <1>1, <2>1, <2>2
  <2>4. CellOf(read_offset, k) = a % RingSize /\ w = b % RingSize
    BY <1>1 DEF CellOf
  <2> QED
    BY <2>3, <2>4
<1> HIDE DEF w
<1>6. Stored(signals', client_ids', w) = <<sig, id>>
  BY <1>2, <1>3 DEF Stored, RingInv
<1>7. \A c \in Cells : c # w => Stored(signals', client_ids', c) = Stored(signals, client_ids, c)
  BY <1>2, <1>3 DEF Stored, RingInv
<1>8. /\ Append(Waiting, <<sig, id>>) \in Seq(Pairs)
      /\ Len(Append(Waiting, <<sig, id>>)) = size + 1
      /\ \A k \in 1 .. size : Append(Waiting, <<sig, id>>)[k] = Waiting[k]
      /\ Append(Waiting, <<sig, id>>)[size + 1] = <<sig, id>>
  <2>1. <<sig, id>> \in Pairs
    BY DEF Pairs
  <2> QED
    BY <1>1, <2>1, WaitingEntries, AppendProperties
<1>9. Waiting' \in Seq(Pairs) /\ Len(Waiting') = size + 1
  BY <1>3, <1>4, WaitingEntriesNext
<1>10. \A k \in 1 .. size + 1 : Waiting'[k] = Append(Waiting, <<sig, id>>)[k]
  <2> DEFINE ap == Append(Waiting, <<sig, id>>)
  <2>1. Waiting'[size + 1] = ap[size + 1]
    <3>1. size + 1 \in 1 .. size'
      BY <1>1, <1>3
    <3> QED
      BY <1>3, <1>4, <1>6, <1>8, <3>1, WaitingEntriesNext DEF w
  <2>2. ASSUME NEW k \in 1 .. size PROVE Waiting'[k] = ap[k]
    <3>1. k \in 1 .. size'
      BY <1>1, <1>3
    <3>2. Waiting'[k] = Stored(signals', client_ids', CellOf(read_offset, k))
      BY <1>3, <1>4, <3>1, WaitingEntriesNext
    <3>3. Waiting'[k] = Waiting[k]
      BY <1>5, <1>7, <3>2, WaitingEntries
    <3> QED
      BY <1>8, <3>3
  <2>3. \A k \in 1 .. size + 1 : k \in 1 .. size \/ k = size + 1
    BY <1>1
  <2> HIDE DEF ap
  <2>4. \A k \in 1 .. size + 1 : Waiting'[k] = ap[k]
    BY <2>1, <2>2, <2>3
  <2> QED
    BY <2>4 DEF ap
<1>11. Waiting' = Append(Waiting, <<sig, id>>)
  BY <1>8, <1>9, <1>10, SeqEqual
<1> QED
  BY <1>3, <1>4, <1>11

(* A flag before a pair.                                                      *)
LEMMA Prefixed ==
    ASSUME NEW x, NEW a, NEW b
    PROVE  <<x>> \o <<a, b>> = <<x, a, b>>
<1> DEFINE S == {x, a, b}
<1>1. <<x>> \in Seq(S) /\ <<a, b>> \in Seq(S) /\ <<x, a, b>> \in Seq(S)
  OBVIOUS
<1>2. /\ <<x>> \o <<a, b>> \in Seq(S) /\ Len(<<x>> \o <<a, b>>) = 3
      /\ \A i \in 1 .. 3 : (<<x>> \o <<a, b>>)[i] = <<x, a, b>>[i]
  BY <1>1, ConcatProperties
<1> QED
  BY <1>1, <1>2, SeqEqual

(* A pop that succeeds takes the head.                                        *)
LEMMA PopTakes ==
    ASSUME RingInv, size # 0, pop_signal
    PROVE  /\ RingInv' /\ Waiting # <<>> /\ Waiting' = Tail(Waiting)
           /\ answer' = <<TRUE>> \o Head(Waiting)
<1>1. RingSize \in Nat \ {0} /\ size \in Nat \ {0} /\ read_offset \in Nat /\ read_offset < RingSize
  BY RingAssumption DEF RingInv, Cells
<1>2. /\ size' = size - 1 /\ read_offset' = (read_offset + 1) % RingSize
      /\ UNCHANGED <<signals, client_ids>>
      /\ answer' = <<TRUE, signals[read_offset], client_ids[read_offset]>>
  BY DEF pop_signal
<1>3. RingInv'
  BY <1>1, <1>2 DEF RingInv, Cells
<1>4. Waiting # <<>>
  BY <1>1, WaitingEntries
<1>5. CellOf(read_offset, 1) = read_offset
  BY <1>1 DEF CellOf
<1>6. Head(Waiting) = <<signals[read_offset], client_ids[read_offset]>>
  <2>1. 1 \in 1 .. size
    BY <1>1
  <2>2. Waiting[1] = Stored(signals, client_ids, read_offset)
    BY <1>5, <2>1, WaitingEntries
  <2>3. Head(Waiting) = Waiting[1]
    OBVIOUS
  <2> QED
    BY <2>2, <2>3 DEF Stored
<1>7. answer' = <<TRUE>> \o Head(Waiting)
  BY <1>2, <1>6, Prefixed
<1>8. ASSUME NEW k \in 1 .. size - 1
      PROVE  CellOf(read_offset', k) = CellOf(read_offset, k + 1)
  <2> DEFINE a == read_offset + k
             r == read_offset'
  <2>1. a \in Nat /\ a < 2 * RingSize /\ read_offset + 1 < 2 * RingSize
    BY <1>1 DEF RingInv
  <2>2. r = IF read_offset + 1 < RingSize THEN read_offset + 1 ELSE 0
    <3>0. read_offset + 1 \in Nat /\ read_offset + 1 < 2 * RingSize
      BY <1>1
    <3>1. (read_offset + 1) % RingSize
             = IF read_offset + 1 < RingSize THEN read_offset + 1 ELSE (read_offset + 1) - RingSize
      BY <1>1, <3>0, Wrapping
    <3> QED
      BY <1>1, <1>2, <3>1
  <2>3. CellOf(read_offset, k + 1) = IF a < RingSize THEN a ELSE a - RingSize
    <3>1. a % RingSize = IF a < RingSize THEN a ELSE a - RingSize
      <4> HIDE DEF a
      <4> QED
        BY <1>1, <2>1, Wrapping
    <3> QED
      BY <1>1, <3>1 DEF CellOf
  <2>4. CellOf(r, k) = IF r + k - 1 < RingSize THEN r + k - 1 ELSE (r + k - 1) - RingSize
    <3>1. r + k - 1 \in Nat /\ r + k - 1 < 2 * RingSize
      BY <1>1, <2>2 DEF RingInv
    <3> HIDE DEF r
    <3> QED
      BY <1>1, <3>1, Wrapping DEF CellOf
  <2> HIDE DEF r
  <2>5. k < RingSize
    BY <1>1 DEF RingInv
  <2>6. CellOf(r, k) = CellOf(read_offset, k + 1)
    BY <1>1, <2>2, <2>3, <2>4, <2>5
  <2> QED
    BY <2>6 DEF r
<1>9. /\ Tail(Waiting) \in Seq(Pairs) /\ Len(Tail(Waiting)) = size - 1
      /\ \A k \in 1 .. size - 1 : Tail(Waiting)[k] = Waiting[k + 1]
  BY <1>4, WaitingEntries, HeadTailProperties
<1>10. \A k \in 1 .. size - 1 : Waiting'[k] = Tail(Waiting)[k]
  <2> SUFFICES ASSUME NEW k \in 1 .. size - 1 PROVE Waiting'[k] = Tail(Waiting)[k]
    OBVIOUS
  <2>1. k + 1 \in 1 .. size /\ k \in 1 .. size'
    BY <1>1, <1>2
  <2>2. Waiting'[k] = Stored(signals, client_ids, CellOf(read_offset', k))
    BY <1>2, <1>3, <2>1, WaitingEntriesNext
  <2>3. Waiting[k + 1] = Stored(signals, client_ids, CellOf(read_offset, k + 1))
    BY <2>1, WaitingEntries
  <2> QED
    BY <1>8, <1>9, <2>2, <2>3
<1>11. Waiting' = Tail(Waiting)
  BY <1>2, <1>3, <1>9, <1>10, WaitingEntriesNext, SeqEqual
<1> QED
  BY <1>3, <1>4, <1>7, <1>11

(* The ring buffer is a bounded queue, for every number of cells: entries     *)
(* come out in the order in which they went in, each once and with its own    *)
(* client id, also where the offsets wrap around.                             *)
THEOREM RingImplementsQueue == RingSpec => RingIsQueue
<1>1. RingInit => RingInv /\ Queue!QueueInit
  <2> SUFFICES ASSUME RingInit PROVE RingInv /\ Queue!QueueInit
    OBVIOUS
  <2>1. RingInv
    BY RingAssumption DEF RingInit, RingInv, Cells
  <2>2. Waiting \in Seq(Pairs) /\ Len(Waiting) = 0
    BY <2>1, WaitingEntries DEF RingInit
  <2>3. Waiting = <<>>
    BY <2>2, EmptySeq
  <2> QED
    BY <2>1, <2>3 DEF RingInit, Queue!QueueInit
<1>2. ASSUME RingInv, [RingNext]_ringVars
      PROVE  RingInv' /\ [Queue!QueueNext]_<<Waiting, answer>>
  <2>1. Len(Waiting) = size /\ Waiting \in Seq(Pairs) /\ RingSize \in Nat /\ size \in 0 .. RingSize
    BY <1>2, WaitingEntries, RingAssumption DEF RingInv
  <2>2. ASSUME UNCHANGED <<read_offset, size, signals, client_ids>>
        PROVE  RingInv' /\ Waiting' = Waiting
    BY <1>2, <2>2 DEF RingInv, Waiting
  <2>3. CASE pop_signal
    <3>1. CASE size = 0
      <4>1. Waiting = <<>> /\ answer' = <<FALSE>>
            /\ UNCHANGED <<read_offset, size, signals, client_ids>>
        BY <2>1, <2>3, <3>1, EmptySeq DEF pop_signal
      <4> QED
        BY <2>2, <4>1 DEF Queue!QueueNext, Queue!Pop
    <3>2. CASE size # 0
      BY <1>2, <2>3, <3>2, PopTakes DEF Queue!QueueNext, Queue!Pop
    <3> QED
      BY <3>1, <3>2
  <2>4. ASSUME NEW sig \in RingSignals, NEW id \in RingIds, push_signal(sig, id)
        PROVE  RingInv' /\ [Queue!QueueNext]_<<Waiting, answer>>
    <3> DEFINE e == <<sig, id>>
    <3>1. e \in RingSignals \X RingIds
      OBVIOUS
    <3>2. CASE size < RingSize
      <4>1. /\ RingInv' /\ Waiting' = Append(Waiting, e) /\ answer' = <<TRUE>>
        BY <1>2, <2>4, <3>2, PushAppends
      <4>2. <<Len(Waiting) < RingSize>> = <<TRUE>>
        BY <2>1, <3>2
      <4>3. Queue!Push(e)
        BY <2>1, <3>2, <4>1, <4>2 DEF Queue!Push
      <4> HIDE DEF e
      <4> QED
        BY <3>1, <4>1, <4>3 DEF Queue!QueueNext
    <3>3. CASE ~(size < RingSize)
      <4>1. answer' = <<FALSE>> /\ UNCHANGED <<read_offset, size, signals, client_ids>>
        BY <2>4, <3>3 DEF push_signal
      <4>2. (Len(Waiting) < RingSize) = FALSE
        BY <2>1, <3>3
      <4>3. Queue!Push(e)
        BY <2>1, <2>2, <3>3, <4>1, <4>2 DEF Queue!Push
      <4> HIDE DEF e
      <4> QED
        BY <2>2, <3>1, <4>1, <4>3 DEF Queue!QueueNext
    <3> QED
      BY <3>2, <3>3
  <2>5. CASE UNCHANGED ringVars
    BY <2>2, <2>5 DEF ringVars
  <2> QED
    BY <1>2, <2>3, <2>4, <2>5 DEF RingNext
<1> QED
  BY <1>1, <1>2, PTL DEF RingSpec, RingIsQueue, Queue!QueueSpec
-----------------------------------------------------------------------------
(* The array of samples.                                                      *)

N == SMOOTH_DOOR_STATE_SIZE

(* The place of the sample pushed k pushes ago, when the next one goes to i.  *)
PlaceOf(i, k) == (i + N - k) % N

(* The latest m samples in array a agree, and no more.                        *)
IsRun(a, i, m) ==
    /\ m \in 1 .. N
    /\ \A j \in 1 .. m : a[PlaceOf(i, j)] = a[PlaceOf(i, 1)]
    /\ m < N => a[PlaceOf(i, m + 1)] # a[PlaceOf(i, 1)]

RunOf(a, i) == Max({k \in 1 .. N : \A j \in 1 .. k : a[PlaceOf(i, j)] = a[PlaceOf(i, 1)]})

(* That number is what LatestRun is.                                          *)
LEMMA RunIsMax ==
    ASSUME NEW a, NEW i, NEW m, IsRun(a, i, m)
    PROVE  RunOf(a, i) = m
<1> DEFINE agree(j) == a[PlaceOf(i, j)] = a[PlaceOf(i, 1)]
           R == {k \in 1 .. N : \A j \in 1 .. k : agree(j)}
<1>1. N \in Nat /\ m \in 1 .. N /\ (\A j \in 1 .. m : agree(j)) /\ (m < N => ~agree(m + 1))
  BY ArrayAssumption DEF IsRun, N
<1>2. RunOf(a, i) = CHOOSE x \in R : \A y \in R : x >= y
  BY DEF RunOf, Max
<1> HIDE DEF agree
<1>3. m \in R /\ \A y \in R : m >= y
  BY <1>1
<1>4. \A x \in R : (\A y \in R : x >= y) => x = m
  BY <1>1, <1>3
<1> QED
  BY <1>2, <1>3, <1>4

(* Where the latest samples are: every place is that of one of them,          *)
LEMMA PlacesAgo ==
    ASSUME NEW i \in Places
    PROVE  /\ \A k \in 1 .. N : PlaceOf(i, k) \in Places
           /\ \A k \in 1 .. N : PlaceOf(i, k) = IF k <= i THEN i - k ELSE i + N - k
           /\ \A p \in Places : \E k \in 1 .. N : PlaceOf(i, k) = p
<1>1. N \in Nat \ {0} /\ i \in Nat /\ i < N /\ Places = 0 .. N - 1
  BY ArrayAssumption DEF Places, N
<1>2. ASSUME NEW k \in 1 .. N
      PROVE  PlaceOf(i, k) = IF k <= i THEN i - k ELSE i + N - k
  <2>1. i + N - k \in Nat /\ i + N - k < 2 * N
    BY <1>1
  <2>2. (i + N - k) % N = IF i + N - k < N THEN i + N - k ELSE (i + N - k) - N
    BY <1>1, <2>1, Wrapping
  <2> QED
    BY <1>1, <2>2 DEF PlaceOf
<1>3. \A k \in 1 .. N : PlaceOf(i, k) \in Places
  BY <1>1, <1>2
<1>4. ASSUME NEW p \in Places PROVE \E k \in 1 .. N : PlaceOf(i, k) = p
  <2> DEFINE k == IF p < i THEN i - p ELSE i + N - p
  <2>1. k \in 1 .. N /\ (IF k <= i THEN i - k ELSE i + N - k) = p
    BY <1>1
  <2> HIDE DEF k
  <2> QED
    BY <1>2, <2>1
<1> QED
  BY <1>2, <1>3, <1>4

(* The place after i.                                                         *)
PlaceAfter(i) == IF i + 1 >= N THEN 0 ELSE i + 1

(* and a push moves them all by one.                                          *)
LEMMA PushMoves ==
    ASSUME NEW i \in Places
    PROVE  /\ PlaceAfter(i) \in Places
           /\ PlaceOf(PlaceAfter(i), 1) = i
           /\ \A k \in 1 .. N - 1 :
                 PlaceOf(PlaceAfter(i), k + 1) = PlaceOf(i, k) /\ PlaceOf(i, k) # i
<1> DEFINE n == PlaceAfter(i)
<1> USE DEF PlaceAfter
<1>1. N \in Nat \ {0, 1} /\ i \in Nat /\ i < N /\ Places = 0 .. N - 1
  BY ArrayAssumption DEF Places, N
<1>2. n \in Places
  BY <1>1
<1>3. /\ \A k \in 1 .. N : PlaceOf(i, k) = IF k <= i THEN i - k ELSE i + N - k
      /\ \A k \in 1 .. N : PlaceOf(n, k) = IF k <= n THEN n - k ELSE n + N - k
  BY <1>2, PlacesAgo
<1>4. PlaceOf(n, 1) = i
  BY <1>1, <1>3
<1>5. ASSUME NEW k \in 1 .. N - 1
      PROVE  PlaceOf(n, k + 1) = PlaceOf(i, k) /\ PlaceOf(i, k) # i
  <2>1. k \in 1 .. N /\ k + 1 \in 1 .. N
    BY <1>1
  <2>2. PlaceOf(i, k) = (IF k <= i THEN i - k ELSE i + N - k)
        /\ PlaceOf(n, k + 1) = (IF k + 1 <= n THEN n - (k + 1) ELSE n + N - (k + 1))
    BY <1>3, <2>1
  <2> QED
    BY <1>1, <2>2
<1> QED
  BY <1>2, <1>4, <1>5

(* A push of s to place i, and the length it gives to a run of m.             *)
Written(a, i, s) == [a EXCEPT ![i] = s]
Longer(a, i, m, s) == IF s # a[PlaceOf(i, 1)] THEN 1 ELSE IF m < N THEN m + 1 ELSE m

(* What a push makes of the run.                                              *)
LEMMA PushRun ==
    ASSUME NEW a \in [Places -> Samples \cup {"FAULT"}], NEW i \in Places, NEW m, IsRun(a, i, m),
           NEW s \in Samples
    PROVE  /\ PlaceAfter(i) \in Places
           /\ Written(a, i, s) \in [Places -> Samples \cup {"FAULT"}]
           /\ Written(a, i, s)[PlaceOf(PlaceAfter(i), 1)] = s
           /\ IsRun(Written(a, i, s), PlaceAfter(i), Longer(a, i, m, s))
<1> DEFINE n == PlaceAfter(i)
           b == Written(a, i, s)
<1>0. b = [a EXCEPT ![i] = s]
  BY DEF Written
<1> HIDE DEF n, b
<1> SUFFICES /\ n \in Places /\ b \in [Places -> Samples \cup {"FAULT"}]
             /\ b[PlaceOf(n, 1)] = s
             /\ IsRun(b, n, IF s # a[PlaceOf(i, 1)] THEN 1 ELSE IF m < N THEN m + 1 ELSE m)
  BY DEF n, b, Longer
<1> DEFINE was(k) == a[PlaceOf(i, k)]
           is(k)  == b[PlaceOf(n, k)]
<1>1. /\ N \in Nat \ {0, 1} /\ m \in 1 .. N /\ (\A j \in 1 .. m : was(j) = was(1))
      /\ m < N => was(m + 1) # was(1)
  BY ArrayAssumption DEF IsRun, N
<1>2. n \in Places /\ PlaceOf(n, 1) = i
      /\ \A k \in 1 .. N - 1 : PlaceOf(n, k + 1) = PlaceOf(i, k) /\ PlaceOf(i, k) # i
  BY PushMoves DEF n
<1>3. \A k \in 1 .. N : PlaceOf(i, k) \in Places
  BY PlacesAgo
<1>4. is(1) = s
  BY <1>0, <1>2
<1>5. \A k \in 1 .. N - 1 : is(k + 1) = was(k)
  <2>1. \A k \in 1 .. N - 1 : k \in 1 .. N
    BY <1>1
  <2> QED
    BY <1>0, <1>2, <1>3, <2>1
<1>6. b \in [Places -> Samples \cup {"FAULT"}]
  BY <1>0
<1>7. CASE s # was(1)
  <2>1. is(2) # is(1)
    <3>1. 1 \in 1 .. N - 1 /\ 1 + 1 = 2
      BY <1>1
    <3> HIDE DEF is, was
    <3> QED
      BY <1>4, <1>5, <1>7, <3>1
  <2>2. 1 \in 1 .. N /\ 1 + 1 = 2 /\ 1 .. 1 = {1}
    BY <1>1
  <2>3. IsRun(b, n, 1)
    BY <2>1, <2>2 DEF IsRun
  <2> QED
    BY <1>2, <1>4, <1>6, <1>7, <2>3
<1>8. CASE s = was(1)
  <2> DEFINE l == IF m < N THEN m + 1 ELSE m
  <2>1. l \in 1 .. N /\ l <= m + 1
    BY <1>1
  <2>2. \A j \in 1 .. l : is(j) = is(1)
    <3> SUFFICES ASSUME NEW j \in 1 .. l, j # 1 PROVE is(j) = is(1)
      OBVIOUS
    <3>1. j - 1 \in 1 .. N - 1 /\ j - 1 \in 1 .. m /\ (j - 1) + 1 = j
      BY <1>1, <2>1
    <3> HIDE DEF is, was
    <3>2. is(j) = was(j - 1) /\ was(j - 1) = was(1)
      BY <1>1, <1>5, <3>1
    <3> QED
      BY <1>4, <1>8, <3>2
  <2>3. ASSUME l < N PROVE is(l + 1) # is(1)
    <3>1. l = m + 1 /\ m < N /\ m + 1 \in 1 .. N - 1
      BY <1>1, <2>3
    <3> HIDE DEF is, was
    <3>2. is(l + 1) = was(m + 1)
      BY <1>5, <3>1
    <3> QED
      BY <1>1, <1>4, <1>8, <3>1, <3>2
  <2> HIDE DEF l
  <2>4. IsRun(b, n, l)
    BY <2>1, <2>2, <2>3 DEF IsRun
  <2> QED
    BY <1>2, <1>4, <1>6, <1>8, <2>4 DEF l
<1> QED
  BY <1>7, <1>8

(* All entries of the array are equal when all the latest samples are.        *)
LEMMA AllEqual ==
    ASSUME NEW a, NEW i \in Places, NEW m, IsRun(a, i, m)
    PROVE  (\A p \in Places : a[p] = a[0]) <=> m = N
<1>1. N \in Nat \ {0} /\ m \in 1 .. N /\ 0 \in Places
  BY ArrayAssumption DEF IsRun, N, Places
<1>2. ASSUME m = N, NEW p \in Places PROVE a[p] = a[PlaceOf(i, 1)]
  <2>1. PICK k \in 1 .. N : PlaceOf(i, k) = p
    BY PlacesAgo
  <2> QED
    BY <1>2, <2>1 DEF IsRun
<1>3. ASSUME \A p \in Places : a[p] = a[0], m < N PROVE FALSE
  <2>1. m + 1 \in 1 .. N /\ 1 \in 1 .. N
    BY <1>1, <1>3
  <2>2. PlaceOf(i, m + 1) \in Places /\ PlaceOf(i, 1) \in Places
    BY <2>1, PlacesAgo
  <2> QED
    BY <1>3, <2>2 DEF IsRun
<1> QED
  BY <1>1, <1>2, <1>3

(* There is a latest run at all times.                                        *)
ArrayInv ==
    /\ smooth_door_state \in [Places -> Samples \cup {"FAULT"}]
    /\ smooth_door_state_i \in Places
    /\ \E m \in 1 .. N : IsRun(smooth_door_state, smooth_door_state_i, m)

(* The array of samples is the run length that the controller counts, and     *)
(* comparing its entries decides whether the reading is stable, for every     *)
(* size of the array above the four entries that the source initialises.      *)
THEOREM ArrayImplementsRun == ArraySpec => ArrayIsRunLength
<1> DEFINE a == smooth_door_state
           i == smooth_door_state_i
<1>0. /\ N \in Nat \ 0 .. 4 /\ Places = 0 .. N - 1
      /\ Ago(1) = a[PlaceOf(i, 1)] /\ LatestRun = RunOf(a, i)
      /\ Ago(1)' = a'[PlaceOf(i', 1)] /\ LatestRun' = RunOf(a', i')
  BY ArrayAssumption DEF Ago, LatestRun, PlaceOf, RunOf, N, Places
<1>1. ASSUME ArrayInit PROVE ArrayInv /\ Sensor!SensorInit
  <2>1. /\ i = 0
        /\ a = [p \in Places |-> CASE p = 0 -> "OPEN" [] p = 2 -> "LOCKED"
                                   [] p = 3 -> "FAULT" [] OTHER -> "CLOSED"]
    BY <1>1 DEF ArrayInit
  <2>2. a[3] = "FAULT" /\ \A p \in 4 .. N - 1 : a[p] = "CLOSED"
    BY <1>0, <2>1
  <2>3. a \in [Places -> Samples \cup {"FAULT"}] /\ i \in Places
    BY <1>0, <2>1 DEF Samples
  <2> HIDE DEF a, i
  <2>4. \A k \in 1 .. N : PlaceOf(i, k) = N - k
    <3>1. \A k \in 1 .. N : PlaceOf(0, k) = IF k <= 0 THEN 0 - k ELSE 0 + N - k
      BY <2>1, <2>3, PlacesAgo
    <3> QED
      BY <1>0, <2>1, <3>1
  <2>5. \A k \in 1 .. N - 4 : a[PlaceOf(i, k)] = "CLOSED"
    <3>1. \A k \in 1 .. N - 4 : k \in 1 .. N /\ N - k \in 4 .. N - 1
      BY <1>0
    <3> QED
      BY <2>2, <2>4, <3>1
  <2>6. PlaceOf(i, (N - 4) + 1) = 3 /\ N - 4 \in 1 .. N /\ 1 \in 1 .. N - 4
    BY <1>0, <2>4
  <2>7. IsRun(a, i, N - 4)
    BY <2>2, <2>5, <2>6 DEF IsRun
  <2>8. RunOf(a, i) = N - 4 /\ a[PlaceOf(i, 1)] = "CLOSED"
    BY <2>5, <2>6, <2>7, RunIsMax
  <2> QED
    BY <1>0, <2>3, <2>6, <2>7, <2>8 DEF ArrayInv, Sensor!SensorInit, N, a, i
<1>2. ASSUME ArrayInv, ArrayNext
      PROVE  ArrayInv' /\ Sensor!SensorNext
  <2>1. PICK m \in 1 .. N : IsRun(a, i, m)
    BY <1>2 DEF ArrayInv
  <2>2. PICK s \in Samples : push_door_state(s)
    BY <1>2 DEF ArrayNext
  <2> DEFINE l == Longer(a, i, m, s)
  <2>3. a' = Written(a, i, s) /\ i' = PlaceAfter(i)
    BY <2>2 DEF push_door_state, next_i, N, Written, PlaceAfter
  <2>4. a \in [Places -> Samples \cup {"FAULT"}] /\ i \in Places
    BY <1>2 DEF ArrayInv
  <2> HIDE DEF a, i
  <2>5. /\ i' \in Places /\ a' \in [Places -> Samples \cup {"FAULT"}]
        /\ a'[PlaceOf(i', 1)] = s
        /\ IsRun(a', i', l)
    BY <2>1, <2>3, <2>4, PushRun
  <2>6. RunOf(a, i) = m /\ RunOf(a', i') = l
    BY <2>1, <2>5, RunIsMax
  <2>7. l \in 1 .. N
    BY <2>5 DEF IsRun
  <2>8. ArrayInv'
    BY <2>5, <2>7 DEF ArrayInv, Places, N, a, i
  <2>9. s \in Sensor!Readings
    BY DEF Samples, Sensor!Readings
  <2>10. Sensor!push_sample(s)
    BY <1>0, <2>5, <2>6 DEF Sensor!push_sample, Longer, N
  <2> QED
    BY <2>8, <2>9, <2>10 DEF Sensor!SensorNext
<1>3. ArrayInv' => (get_smoothed_door_state_ok' <=> Sensor!system_stable)
  <2> SUFFICES ASSUME ArrayInv'
               PROVE  get_smoothed_door_state_ok' <=> Sensor!system_stable
    OBVIOUS
  <2>1. i' \in Places /\ \E m \in 1 .. N : IsRun(a', i', m)
    BY DEF ArrayInv, Places, N
  <2> HIDE DEF a, i
  <2>2. PICK m \in 1 .. N : IsRun(a', i', m)
    BY <2>1
  <2>3. RunOf(a', i') = m /\ ((\A p \in Places : a'[p] = a'[0]) <=> m = N)
    BY <2>1, <2>2, RunIsMax, AllEqual
  <2> QED
    BY <1>0, <2>3 DEF get_smoothed_door_state_ok, Sensor!system_stable, N, a, Places
<1>4. UNCHANGED arrayVars /\ ArrayInv => ArrayInv' /\ UNCHANGED <<Ago(1), LatestRun>>
  BY DEF arrayVars, ArrayInv, Ago, LatestRun
<1> QED
  BY <1>1, <1>2, <1>3, <1>4, PTL DEF ArraySpec, ArrayIsRunLength, Sensor!SensorSpec
-----------------------------------------------------------------------------
(* The controller that reports to the world.                                  *)

(* The inductive invariant: while the shack is open, the silence so far and   *)
(* the time until the next update make at most a period.                      *)
EndpointInv ==
    /\ ticks \in Nat /\ next_update_msg \in Nat /\ silence \in Nat
    /\ is_open \in BOOLEAN /\ wrapped \in BOOLEAN
    /\ line \in Seq(Bytes)
    /\ ~wrapped /\ is_open =>
          /\ silence + next_update_msg <= ticks + UPDATE_PERIOD
          /\ silence <= UPDATE_PERIOD

(* The states that the loop of a round goes through begin with is_open.       *)
LEMMA StatesTypes ==
    ASSUME EndpointInv
    PROVE  /\ Len(line) \in Nat
           /\ States(line)[1] = is_open
           /\ \A i \in 1 .. Len(line) + 1 : States(line)[i] \in BOOLEAN
<1>1. Len(line) \in Nat
  BY DEF EndpointInv
<1>2. States(line)[1] = is_open
  BY <1>1 DEF States
<1>3. ASSUME NEW i \in 1 .. Len(line) + 1
      PROVE  States(line)[i] \in BOOLEAN
  BY <1>1 DEF States, EndpointInv
<1> QED
  BY <1>1, <1>2, <1>3

(* Without a forced update the state has not changed.                         *)
LEMMA NothingForced ==
    ASSUME EndpointInv, ~force_send_notification
    PROVE  States(line)[Len(line) + 1] = is_open
<1> DEFINE s == States(line)
           n == Len(line)
           T == {i \in 1 .. n + 1 : s[i] # is_open}
<1>1. n \in Nat /\ s[1] = is_open
  BY StatesTypes
<1>2. \A i \in 1 .. n : s[i] = s[i + 1]
  BY DEF force_send_notification
<1> HIDE DEF s, n
<1>3. ASSUME T # {}
      PROVE  FALSE
  <2>1. T \in SUBSET Nat
    BY <1>1
  <2>2. PICK m \in T : \A k \in T : m <= k
    BY <1>3, <2>1, LeastNatural
  <2>3. m - 1 \in 1 .. n
    BY <1>1, <2>2
  <2>4. m - 1 \notin T
    BY <1>1, <2>1, <2>2, <2>3
  <2>5. s[m - 1] = is_open /\ s[m] # is_open /\ (m - 1) + 1 = m
    BY <1>1, <2>2, <2>3, <2>4
  <2> QED
    BY <1>2, <2>3, <2>5
<1>4. n + 1 \in 1 .. n + 1
  BY <1>1
<1>5. s[n + 1] = is_open
  BY <1>3, <1>4
<1> QED
  BY <1>5 DEF s, n

(* While the shack is open and no tick count has wrapped, the world hears of  *)
(* it at least once in a period and a round, for every period and delay.      *)
THEOREM EndpointPushesInTime == EndpointSpec => []PushedInTime
<1>0. <<>> \in Seq(Bytes)
  OBVIOUS
<1>1. ASSUME EndpointInit
      PROVE  EndpointInv
  <2>1. ticks = 0 /\ next_update_msg = 0 /\ silence = 0 /\ line = <<>>
    BY <1>1 DEF EndpointInit
  <2>2. is_open = FALSE /\ wrapped = FALSE
    BY <1>1 DEF EndpointInit
  <2> QED
    BY <1>0, <2>1, <2>2 DEF EndpointInv
<1>2. ASSUME EndpointInv, [EndpointNext]_endpointVars
      PROVE  EndpointInv'
  <2>0. /\ TickSpace \in Nat /\ UPDATE_PERIOD \in Nat /\ MaxDelay \in Nat
        /\ UPDATE_PERIOD + MaxDelay < TickSpace
    BY EndpointAssumption
  <2>1. CASE Booting
    BY <1>0, <2>1 DEF Booting, EndpointInv
  <2>2. CASE GotIp
    BY <1>2, <2>2 DEF GotIp, EndpointInv
  <2>3. CASE StaDisconnected /\ ~Booting
    <3>1. UNCHANGED <<ticks, next_update_msg, is_open, line, silence, wrapped>>
      BY <2>3, Zenon DEF StaDisconnected
    <3> QED
      BY <1>2, <3>1 DEF EndpointInv
  <2>4. CASE update_api_status
    <3>1. line' \in Seq(Bytes)
      BY <1>2, <2>4 DEF update_api_status, EndpointInv
    <3> QED
      BY <1>2, <2>4, <3>1 DEF update_api_status, EndpointInv
  <2>5. CASE Round /\ ~Booting
    <3> DEFINE now(delay)  == (ticks + delay) % TickSpace
               open == States(line)[Len(line) + 1]
               due(delay)  == force_send_notification \/ now(delay) >= next_update_msg
               next(delay) == IF due(delay)
                              THEN next_update(now(delay), force_send_notification)
                              ELSE next_update_msg
    <3>1. PICK delay \in 1 .. MaxDelay :
             /\ ticks' = now(delay)
             /\ next_update_msg' = next(delay) % TickSpace
             /\ is_open' = open
             /\ line' = <<>>
             /\ wrapped' = (wrapped \/ next(delay) >= TickSpace \/ ticks + delay >= TickSpace)
             /\ silence' = IF open /\ ~due(delay) /\ ~wrapped' THEN silence + delay ELSE 0
      BY <2>5 DEF Round
    <3>2. open \in BOOLEAN /\ (~force_send_notification => open = is_open)
      <4>1. Len(line) + 1 \in 1 .. Len(line) + 1
        BY <1>2, StatesTypes
      <4> QED
        BY <1>2, <4>1, StatesTypes, NothingForced
    <3> HIDE DEF open
    <3>3. /\ ticks \in Nat /\ next_update_msg \in Nat /\ silence \in Nat /\ delay \in Nat
          /\ delay <= MaxDelay
      BY <1>2, <2>0 DEF EndpointInv
    <3>4. \A k \in Nat : k % TickSpace \in Nat /\ (k < TickSpace => k % TickSpace = k)
      BY <2>0
    <3>5. now(delay) \in Nat
      BY <3>3, <3>4
    <3>6. next(delay) \in Nat
      BY <2>0, <3>3, <3>5 DEF next_update
    <3>7. ticks' \in Nat /\ next_update_msg' \in Nat
      BY <3>1, <3>4, <3>5, <3>6
    <3>8. silence' \in Nat
      BY <3>1, <3>3
    <3>9. is_open' \in BOOLEAN /\ wrapped' \in BOOLEAN /\ line' \in Seq(Bytes)
      BY <3>1, <3>2
    <3>10. ASSUME ~wrapped', is_open'
           PROVE  /\ silence' + next_update_msg' <= ticks' + UPDATE_PERIOD
                  /\ silence' <= UPDATE_PERIOD
      <4>1. next(delay) < TickSpace /\ ticks + delay < TickSpace /\ ~wrapped
        <5>1. ~(wrapped \/ next(delay) >= TickSpace \/ ticks + delay >= TickSpace)
          BY <3>1, <3>10
        <5> HIDE DEF next
        <5> QED
          BY <2>0, <3>3, <3>6, <5>1
      <4>2. now(delay) = ticks + delay /\ ticks' = ticks + delay
        BY <3>1, <3>3, <3>4, <4>1
      <4>3. next_update_msg' = next(delay)
        BY <3>1, <3>4, <3>6, <4>1
      <4>4. CASE due(delay)
        <5>1. silence' = 0
          BY <3>1, <4>4
        <5>2. next(delay) <= ticks + delay + UPDATE_PERIOD
          BY <2>0, <3>3, <4>2, <4>4 DEF next_update
        <5> QED
          BY <2>0, <3>3, <4>2, <4>3, <5>1, <5>2, <3>6
      <4>5. CASE ~due(delay)
        <5>1. next(delay) = next_update_msg /\ ticks + delay < next_update_msg
          BY <3>3, <4>2, <4>5
        <5>2. silence' = silence + delay
          BY <3>1, <3>10, <4>5
        <5>3. is_open
          BY <3>1, <3>2, <3>10, <4>5
        <5>4. silence + next_update_msg <= ticks + UPDATE_PERIOD
          BY <1>2, <4>1, <5>3 DEF EndpointInv
        <5> HIDE DEF next, now, due
        <5> QED
          BY <2>0, <3>3, <4>2, <4>3, <5>1, <5>2, <5>4
      <4> QED
        BY <4>4, <4>5
    <3> QED
      BY <3>7, <3>8, <3>9, <3>10 DEF EndpointInv
  <2>6. CASE UNCHANGED endpointVars
    BY <1>2, <2>6 DEF endpointVars, EndpointInv
  <2> QED
    BY <1>2, <2>1, <2>2, <2>3, <2>4, <2>5, <2>6 DEF EndpointNext
<1>3. EndpointInv => PushedInTime
  BY EndpointAssumption DEF EndpointInv, PushedInTime
<1> QED
  BY <1>1, <1>2, <1>3, PTL DEF EndpointSpec
=============================================================================
