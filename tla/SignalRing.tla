----------------------------- MODULE SignalRing -----------------------------
(****************************************************************************)
(* signal_ring_buffer of the portal daemon (software/src/portal-daemon.c):    *)
(* two parallel arrays, a read offset and a size.  SignalQueue is the queue   *)
(* it implements.                                                             *)
(****************************************************************************)
EXTENDS Naturals, Sequences

CONSTANTS
    RingSize,    \* MAX_SIGNAL_RINGBUFFER_ITEMS (64)
    RingSignals, \* enum SM_Signal
    RingIds      \* client ids, the invalid one included

ASSUME RingAssumption == RingSize \in Nat \ {0}

VARIABLES
    read_offset, size,
    signals, client_ids,   \* the arrays, indexed from 0
    answer                 \* what the latest call returned: a flag, and what
                           \* it stored through its pointers

ringVars == <<read_offset, size, signals, client_ids, answer>>

Cells == 0 .. RingSize - 1

(* Static memory: the arrays hold the value that is zero, which nobody reads. *)
RingInit ==
    /\ read_offset = 0
    /\ size = 0
    /\ signals \in [Cells -> RingSignals] /\ \A c \in Cells : signals[c] = signals[0]
    /\ client_ids \in [Cells -> RingIds] /\ \A c \in Cells : client_ids[c] = client_ids[0]
    /\ answer = <<FALSE>>

(* Mutation: the index to write to is not taken modulo the size of the ring   *)
(* before it is used, but kept inside it.                                     *)
MutWriteAtEnd ==
    IF read_offset + size >= RingSize THEN RingSize - 1 ELSE read_offset + size

write_index == (read_offset + size) % RingSize

push_signal(sig, client_id) ==
    \/ /\ size >= RingSize
       /\ answer' = <<FALSE>>
       /\ UNCHANGED <<read_offset, size, signals, client_ids>>
    \/ /\ size < RingSize
       /\ signals' = [signals EXCEPT ![write_index] = sig]
       /\ client_ids' = [client_ids EXCEPT ![write_index] = client_id]
       /\ size' = size + 1
       /\ answer' = <<TRUE>>
       /\ UNCHANGED read_offset

pop_signal ==
    \/ /\ size = 0
       /\ answer' = <<FALSE>>
       /\ UNCHANGED <<read_offset, size, signals, client_ids>>
    \/ /\ size # 0
       /\ answer' = <<TRUE, signals[read_offset], client_ids[read_offset]>>
       /\ size' = size - 1
       /\ read_offset' = (read_offset + 1) % RingSize
       /\ UNCHANGED <<signals, client_ids>>

RingNext ==
    \/ pop_signal
    \/ \E sig \in RingSignals, id \in RingIds : push_signal(sig, id)

RingSpec == RingInit /\ [][RingNext]_ringVars

-----------------------------------------------------------------------------
(* The entries from the read offset on, in the order of pushing.              *)
Waiting == [k \in 1 .. size |->
              LET c == (read_offset + k - 1) % RingSize IN <<signals[c], client_ids[c]>>]

Queue == INSTANCE SignalQueue WITH
            Entries <- RingSignals \X RingIds, queue <- Waiting

(* The ring buffer is a bounded queue: signals come out in the order in which *)
(* they went in, each with its own client id, none twice and none lost but    *)
(* those that the caller was told about, wherever the offsets wrap around     *)
(* (push_signal, pop_signal).                                                 *)
RingIsQueue == Queue!QueueSpec
=============================================================================
