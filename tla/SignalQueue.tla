---------------------------- MODULE SignalQueue ----------------------------
(****************************************************************************)
(* What the daemon expects of its ring buffer of signals: a queue with room   *)
(* for RingSize entries.  A signal that finds the queue full is dropped, and  *)
(* the caller is told.  PortalDaemon keeps its signals in such a queue.       *)
(****************************************************************************)
EXTENDS Naturals, Sequences

CONSTANTS
    RingSize,   \* MAX_SIGNAL_RINGBUFFER_ITEMS (64)
    Entries     \* a signal and the id of a client, as <<signal, client_id>>

VARIABLES
    queue,      \* the entries that wait
    answer      \* what the latest call returned: a flag, and the entry it popped

QueueInit == queue = <<>> /\ answer = <<FALSE>>

Push(e) ==
    /\ answer' = <<Len(queue) < RingSize>>
    /\ queue' = IF Len(queue) < RingSize THEN Append(queue, e) ELSE queue

Pop ==
    \/ queue = <<>> /\ answer' = <<FALSE>> /\ UNCHANGED queue
    \/ queue # <<>> /\ answer' = <<TRUE>> \o Head(queue) /\ queue' = Tail(queue)

QueueNext == Pop \/ \E e \in Entries : Push(e)

QueueSpec == QueueInit /\ [][QueueNext]_<<queue, answer>>
=============================================================================
