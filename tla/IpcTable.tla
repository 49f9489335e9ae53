------------------------------ MODULE IpcTable ------------------------------
(****************************************************************************)
(* The daemon's table of IPC clients (software/src/portal-daemon.c): the part *)
(* of pollfds and ipc_client_info_storage from POLLFD_FIRST_IPC on, and the   *)
(* counter that gives every client an id.  A client is removed by moving the  *)
(* last entry into its place, so an index does not identify a client for      *)
(* long; signals of the state machine name clients by id.                     *)
(****************************************************************************)
EXTENDS Naturals, Sequences, FiniteSets

CONSTANTS
    IdSpace,   \* number of uint32_t values (2^32)
    Slots,     \* POLLFD_LIMIT - POLLFD_FIRST_IPC (29)
    Garbage,   \* what client_id may hold in an entry not in use (0, 0xAAAAAAAA)
    Peers      \* the processes that connect

INVALID_IPC_CLIENT == IdSpace - 1

Ids == 0 .. IdSpace - 2

(* There are more ids than entries, the entry being filled included.          *)
ASSUME TableAssumption ==
    /\ IdSpace \in Nat
    /\ Slots \in Nat
    /\ Slots + 2 < IdSpace

VARIABLES
    clients,             \* the entries in use, in the order of the table
    next_ipc_client_id

tableVars == <<clients, next_ipc_client_id>>

-----------------------------------------------------------------------------
UsedIds == {clients[i].client_id : i \in 1 .. Len(clients)}

(* How many increments lead from n to v; n itself comes last.                 *)
Distance(n, v) == IF v > n THEN v - n ELSE v + IdSpace - n

(* Mutation: the id after n is taken without looking at the table.            *)
MutNextUnchecked(n, used) == IF n + 1 = INVALID_IPC_CLIENT THEN 0 ELSE n + 1

(* The loop of fetch_next_client_id: increment, skipping INVALID_IPC_CLIENT   *)
(* and every id in use, until one is free.                                    *)
next_free_id(n, used) ==
    CHOOSE v \in Ids \ used : \A w \in Ids \ used : Distance(n, v) <= Distance(n, w)

(* The id given out is the one found last time; the loop runs while the new   *)
(* entry is already counted and still holds garbage g.                        *)
fetch_next_client_id(g) ==
    next_ipc_client_id' = next_free_id(next_ipc_client_id, UsedIds \cup {g})

(* add_ipc_client, with the fields of a fresh entry.                          *)
add_ipc_client(entry) ==
    /\ Len(clients) < Slots
    /\ \E g \in Garbage : fetch_next_client_id(g)
    /\ clients' = Append(clients, entry)

(* Mutation: pollfds_size is decremented before the last entry is moved.      *)
MutMoveLater(table, i) ==
    [k \in 1 .. Len(table) - 1 |-> IF k = i THEN table[Len(table) - 1] ELSE table[k]]

(* remove_ipc_client: the table without entry i.                              *)
swap_remove(table, i) ==
    [k \in 1 .. Len(table) - 1 |-> IF k = i THEN table[Len(table)] ELSE table[k]]

(* Mutation: the id is taken for an index.                                    *)
MutFindByIndex(client_id) == {client_id} \cap 1 .. Len(clients)

(* find_ipc_client_by_id: the indices it may return, none for                 *)
(* INVALID_IPC_CLIENT.  The loop takes the first one.                         *)
find_ipc_client_by_id(client_id) ==
    {i \in 1 .. Len(clients) : clients[i].client_id = client_id}

(* remove_all_ipc_clients: one entry is tested in each round; a moved entry   *)
(* is tested next.                                                            *)
remove_round(r, flag) ==
    IF flag \in r.table[r.i].flags
    THEN [i |-> r.i, table |-> swap_remove(r.table, r.i)]
    ELSE [i |-> r.i + 1, table |-> r.table]

(* After as many rounds as there were entries it is over.                     *)
remove_rounds(table, flag) ==
    LET round[k \in 0 .. Len(table)] ==
          IF k = 0 THEN [i |-> 1, table |-> table] ELSE remove_round(round[k - 1], flag)
    IN  round[Len(table)].table

-----------------------------------------------------------------------------
(* The table on its own: clients come and go.                                 *)

TableInit ==
    /\ clients = <<>>
    /\ next_ipc_client_id = 0

Add(p) ==
    /\ \A i \in 1 .. Len(clients) : clients[i].peer # p
    /\ add_ipc_client([client_id |-> next_ipc_client_id, peer |-> p])

Remove(i) ==
    /\ clients' = swap_remove(clients, i)
    /\ UNCHANGED next_ipc_client_id

TableNext ==
    \/ \E p \in Peers : Add(p)
    \/ \E i \in 1 .. Len(clients) : Remove(i)

TableSpec == TableInit /\ [][TableNext]_tableVars

TableTypeOK ==
    /\ clients \in Seq([client_id: Ids, peer: Peers])
    /\ Len(clients) <= Slots
    /\ next_ipc_client_id \in Ids

(* No two clients have the same id, also after the counter has wrapped        *)
(* around, and the id that the next client will get is not in use: a signal   *)
(* can not reach a client it is not meant for (fetch_next_client_id).         *)
IdsUnique ==
    /\ next_ipc_client_id \notin UsedIds
    /\ \A i, j \in 1 .. Len(clients) :
          clients[i].client_id = clients[j].client_id => i = j

Entries == {clients[i] : i \in 1 .. Len(clients)}

(* A step adds one entry or removes one: no other connection is dropped, and  *)
(* none gets another id, when the last entry is moved (remove_ipc_client).    *)
OthersKept ==
    [][\/ \E e \in Entries' : Entries = Entries' \ {e}
       \/ \E e \in Entries : Entries' = Entries \ {e}]_tableVars
=============================================================================
