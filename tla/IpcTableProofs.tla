--------------------------- MODULE IpcTableProofs ---------------------------
(****************************************************************************)
(* Theorems about the daemon's table of clients, for every number of entries  *)
(* and every width of the id counter: ids are unique although the counter     *)
(* wraps around, and a removal drops nobody else.                             *)
(****************************************************************************)
EXTENDS IpcTable, FiniteSetTheorems, SequenceTheorems, WellFoundedInduction, TLAPS

(* The inductive invariant.                                                   *)
TableInv == TableTypeOK /\ IdsUnique

-----------------------------------------------------------------------------
(* A set of naturals that is not empty has a least element.                   *)
LEMMA LeastNatural ==
    ASSUME NEW T \in SUBSET Nat, T # {}
    PROVE  \E m \in T : \A k \in T : m <= k
<1> DEFINE R == OpToRel(<, Nat)
<1>1. IsWellFoundedOn(R, Nat)
  BY NatLessThanWellFounded
<1>2. \E m \in T : \A k \in T : <<k, m>> \notin R
  <2> HIDE DEF R
  <2> QED
    BY <1>1, WFMin
<1>3. \A k, m \in Nat : <<k, m>> \in R <=> k < m
  BY DEF OpToRel
<1> HIDE DEF R
<1>4. PICK m \in T : \A k \in T : <<k, m>> \notin R
  BY <1>2
<1>5. \A k \in T : m <= k
  <2> SUFFICES ASSUME NEW k \in T PROVE m <= k
    OBVIOUS
  <2>1. ~(k < m)
    BY <1>3, <1>4
  <2> QED
    BY <2>1
<1> QED
  BY <1>5

(* One more element adds at most one.                                         *)
LEMMA AddOne ==
    ASSUME NEW S, NEW x, NEW c \in Nat, IsFiniteSet(S), Cardinality(S) <= c
    PROVE  IsFiniteSet(S \cup {x}) /\ Cardinality(S \cup {x}) <= c + 1
<1>1. Cardinality(S) \in Nat
  BY FS_CardinalityType
<1>2. /\ IsFiniteSet(S \cup {x})
      /\ Cardinality(S \cup {x}) = IF x \in S THEN Cardinality(S) ELSE Cardinality(S) + 1
  BY FS_AddElement
<1> QED
  BY <1>1, <1>2

(* The entries in use hold no more ids than there are entries.                *)
LEMMA UsedIdsFinite ==
    ASSUME Len(clients) \in Nat
    PROVE  IsFiniteSet(UsedIds) /\ Cardinality(UsedIds) <= Len(clients)
<1> DEFINE f == [i \in 1 .. Len(clients) |-> clients[i].client_id]
<1>1. IsFiniteSet(1 .. Len(clients)) /\ Cardinality(1 .. Len(clients)) = Len(clients)
  <2>1. /\ IsFiniteSet(1 .. Len(clients))
        /\ Cardinality(1 .. Len(clients)) =
              IF 1 > Len(clients) THEN 0 ELSE Len(clients) - 1 + 1
    <3>1. 1 \in Int /\ Len(clients) \in Int
      OBVIOUS
    <3> QED
      BY ONLY <3>1, FS_Interval
  <2> QED
    BY <2>1
<1>2. f \in Surjection(1 .. Len(clients), UsedIds)
  <2>1. f \in [1 .. Len(clients) -> UsedIds]
    BY DEF UsedIds
  <2>2. \A x \in UsedIds : \E i \in 1 .. Len(clients) : f[i] = x
    BY DEF UsedIds
  <2> HIDE DEF f
  <2> QED
    BY <2>1, <2>2 DEF Surjection
<1> QED
  BY <1>1, <1>2, FS_Surjection

(* With fewer clients than entries there is an id that is neither in use, nor *)
(* the one about to be given out, nor the garbage of the new entry.           *)
LEMMA FreeIdExists ==
    ASSUME Len(clients) \in Nat, Len(clients) < Slots, NEW g
    PROVE  \E v \in Ids \ (UsedIds \cup {g}) : v # next_ipc_client_id
<1> DEFINE U == (UsedIds \cup {g}) \cup {next_ipc_client_id}
<1>1. IsFiniteSet(UsedIds) /\ Cardinality(UsedIds) <= Len(clients)
  BY UsedIdsFinite
<1>2. Len(clients) \in Nat
  OBVIOUS
<1>3. /\ IsFiniteSet(UsedIds \cup {g})
      /\ Cardinality(UsedIds \cup {g}) <= Len(clients) + 1
  BY <1>1, <1>2, AddOne
<1>4. IsFiniteSet(U) /\ Cardinality(U) <= Len(clients) + 2
  <2>1. Len(clients) + 1 \in Nat
    BY <1>2
  <2>2. IsFiniteSet(U) /\ Cardinality(U) <= (Len(clients) + 1) + 1
    BY <1>3, <2>1, AddOne
  <2> QED
    BY <1>2, <2>2
<1>5. Cardinality(Ids) = IdSpace - 1
  BY TableAssumption, FS_Interval DEF Ids
<1>6. ~(Ids \subseteq U)
  <2> SUFFICES ASSUME Ids \subseteq U PROVE FALSE
    OBVIOUS
  <2>1. Cardinality(Ids) <= Cardinality(U)
    BY <1>4, FS_Subset
  <2>2. Cardinality(U) \in Nat
    BY <1>4, FS_CardinalityType
  <2> QED
    BY <1>2, <1>4, <1>5, <2>1, <2>2, TableAssumption
<1> QED
  BY <1>6

(* What the loop of fetch_next_client_id ends with.                           *)
LEMMA NextIdIsFree ==
    ASSUME Len(clients) \in Nat, Len(clients) < Slots, next_ipc_client_id \in Ids,
           NEW g, fetch_next_client_id(g)
    PROVE  /\ next_ipc_client_id' \in Ids
           /\ next_ipc_client_id' \notin UsedIds
           /\ next_ipc_client_id' # next_ipc_client_id
<1> DEFINE n == next_ipc_client_id
           F == Ids \ (UsedIds \cup {g})
           D == {Distance(n, v) : v \in F}
           Nearest(v) == \A w \in F : Distance(n, v) <= Distance(n, w)
<1>1. n \in Ids /\ IdSpace \in Nat
  BY TableAssumption
<1>2. PICK u \in F : u # n
  BY FreeIdExists
<1>3. \A v \in Ids : /\ Distance(n, v) \in Nat
                     /\ v # n => Distance(n, v) < IdSpace
  BY <1>1 DEF Distance, Ids
<1>4. Distance(n, n) = IdSpace
  BY <1>1 DEF Distance, Ids
<1>5. D \in SUBSET Nat /\ D # {}
  BY <1>2, <1>3
<1>6. PICK m \in D : \A k \in D : m <= k
  BY <1>5, LeastNatural
<1>7. \E v \in F : Nearest(v)
  BY <1>6
<1>8. n' \in F /\ Nearest(n')
  <2>1. n' = CHOOSE v \in F : Nearest(v)
    BY DEF fetch_next_client_id, next_free_id
  <2> QED
    BY <1>7, <2>1, Zenon
<1>9. n' # n
  BY <1>1, <1>2, <1>3, <1>4, <1>8
<1> QED
  BY <1>8, <1>9

-----------------------------------------------------------------------------
(* The two operations.                                                        *)

(* add_ipc_client keeps the invariant of the table.                           *)
LEMMA AddKeeps ==
    ASSUME TableInv, NEW p \in Peers, Add(p)
    PROVE  TableInv' /\ \E e \in Entries' : Entries = Entries' \ {e}
<1> DEFINE e == [client_id |-> next_ipc_client_id, peer |-> p]
           n == Len(clients)
<1>1. /\ clients \in Seq([client_id: Ids, peer: Peers])
      /\ n \in Nat
      /\ next_ipc_client_id \in Ids
      /\ n < Slots /\ Slots \in Nat
  BY TableAssumption DEF TableInv, TableTypeOK, Add, add_ipc_client
<1>2. e \in [client_id: Ids, peer: Peers]
  BY <1>1
<1>3. clients' = Append(clients, e)
  BY DEF Add, add_ipc_client
<1>4. /\ clients' \in Seq([client_id: Ids, peer: Peers])
      /\ Len(clients') = n + 1
      /\ \A i \in 1 .. n : clients'[i] = clients[i]
      /\ clients'[n + 1] = e
  <2> HIDE DEF e
  <2> QED
    BY <1>1, <1>2, <1>3
<1>5. /\ next_ipc_client_id' \in Ids
      /\ next_ipc_client_id' \notin UsedIds
      /\ next_ipc_client_id' # next_ipc_client_id
  BY <1>1, NextIdIsFree DEF TableInv, Add, add_ipc_client
<1>6. TableTypeOK'
  BY <1>1, <1>4, <1>5 DEF TableTypeOK
<1>7. \A i \in 1 .. n : clients[i].client_id # next_ipc_client_id
  BY DEF TableInv, IdsUnique, UsedIds
<1>8. IdsUnique'
  <2>1. next_ipc_client_id' \notin UsedIds'
    BY <1>1, <1>4, <1>5 DEF UsedIds
  <2>2. ASSUME NEW i \in 1 .. n + 1, NEW j \in 1 .. n + 1,
               clients'[i].client_id = clients'[j].client_id
        PROVE  i = j
    <3>1. /\ i \in 1 .. n \/ i = n + 1
          /\ j \in 1 .. n \/ j = n + 1
      BY <1>1
    <3>2. clients'[n + 1].client_id = next_ipc_client_id
      BY <1>4
    <3>3. \A k, l \in 1 .. n : clients[k].client_id = clients[l].client_id => k = l
      BY DEF TableInv, IdsUnique
    <3> HIDE DEF e, n
    <3> QED
      BY <1>4, <1>7, <2>2, <3>1, <3>2, <3>3
  <2> QED
    BY <1>4, <2>1, <2>2 DEF IdsUnique
<1>9. \A i \in 1 .. n : clients[i] # e
  BY <1>7
<1>10. e \in Entries' /\ Entries = Entries' \ {e}
  <2> HIDE DEF e
  <2> QED
    BY <1>1, <1>4, <1>9 DEF Entries
<1> QED
  BY <1>6, <1>8, <1>10 DEF TableInv

(* remove_ipc_client keeps it: the entries after it are entries before it.    *)
LEMMA RemoveKeeps ==
    ASSUME TableInv, NEW i \in 1 .. Len(clients), Remove(i)
    PROVE  TableInv' /\ Entries' = Entries \ {clients[i]}
<1> DEFINE E == [client_id: Ids, peer: Peers]
           n == Len(clients)
<1>1. clients \in Seq(E) /\ n \in Nat /\ n > 0 /\ n <= Slots /\ Slots \in Nat
  BY TableAssumption DEF TableInv, TableTypeOK
<1>2. clients' = [k \in 1 .. n - 1 |-> IF k = i THEN clients[n] ELSE clients[k]]
  BY DEF Remove, swap_remove
<1>3. \A k \in 1 .. n : clients[k] \in E
  <2> HIDE DEF E
  <2> QED
    BY <1>1, LenProperties
<1>4. clients' \in [1 .. n - 1 -> E]
  <2> HIDE DEF E
  <2> QED
    BY <1>1, <1>2, <1>3
<1>5. n - 1 \in Nat
  BY <1>1
<1>6. clients' \in Seq(E) /\ Len(clients') = n - 1
  <2> HIDE DEF E
  <2> QED
    BY <1>4, <1>5, LenProperties
<1>7. TableTypeOK'
  BY <1>1, <1>6 DEF TableInv, TableTypeOK, Remove
<1>8. \A k \in 1 .. n - 1 : clients'[k] = IF k = i THEN clients[n] ELSE clients[k]
  BY <1>2
<1>9. \A j, k \in 1 .. n : clients[j].client_id = clients[k].client_id => j = k
  BY DEF TableInv, IdsUnique
<1>10. IdsUnique'
  <2>1. UsedIds' \subseteq UsedIds
    BY <1>1, <1>6, <1>8 DEF UsedIds
  <2>2. next_ipc_client_id' \notin UsedIds'
    BY <2>1 DEF TableInv, IdsUnique, Remove
  <2>3. ASSUME NEW j \in 1 .. n - 1, NEW k \in 1 .. n - 1,
               clients'[j].client_id = clients'[k].client_id
        PROVE  j = k
    BY <1>1, <1>8, <1>9, <2>3
  <2> QED
    BY <1>6, <2>2, <2>3 DEF IdsUnique
<1>11. Entries' = Entries \ {clients[i]}
  <2>1. Entries' = {clients'[k] : k \in 1 .. n - 1}
    BY <1>6 DEF Entries
  <2>2. ASSUME NEW k \in 1 .. n - 1
        PROVE  clients'[k] \in Entries \ {clients[i]}
    <3>1. PICK j \in 1 .. n : clients'[k] = clients[j] /\ j # i
      BY <1>1, <1>8
    <3> QED
      BY <1>9, <3>1 DEF Entries
  <2>3. ASSUME NEW k \in 1 .. n, clients[k] # clients[i]
        PROVE  \E j \in 1 .. n - 1 : clients'[j] = clients[k]
    <3>1. CASE k = n
      BY <1>1, <1>8, <2>3, <3>1
    <3>2. CASE k # n
      BY <1>1, <1>8, <2>3, <3>2
    <3> QED
      BY <3>1, <3>2
  <2>4. Entries' \subseteq Entries \ {clients[i]}
    BY <2>1, <2>2
  <2>5. ASSUME NEW x \in Entries, x # clients[i]
        PROVE  x \in Entries'
    <3>1. PICK k \in 1 .. n : x = clients[k]
      BY DEF Entries
    <3> QED
      BY <2>1, <2>3, <2>5, <3>1
  <2> QED
    BY <2>4, <2>5
<1> QED
  BY <1>7, <1>10, <1>11 DEF TableInv

-----------------------------------------------------------------------------
(* remove_all_ipc_clients.                                                    *)

(* f is the sequence of the first n rounds of its loop.                       *)
IsRounds(t, flag, n, f) ==
    f = [k \in 0 .. n |-> IF k = 0 THEN [i |-> 1, table |-> t]
                                   ELSE remove_round(f[k - 1], flag)]

(* The loop can go on for any number of rounds.                               *)
LEMMA RoundsExist ==
    ASSUME NEW t, NEW flag, NEW n \in Nat
    PROVE  \E f : IsRounds(t, flag, n, f)
<1> DEFINE T == {m \in Nat : ~\E f : IsRounds(t, flag, m, f)}
<1> SUFFICES ASSUME T # {} PROVE FALSE
  OBVIOUS
<1>1. PICK m \in T : \A k \in T : m <= k
  BY LeastNatural
<1>2. CASE m = 0
  <2> DEFINE f == [k \in 0 .. 0 |-> [i |-> 1, table |-> t]]
  <2>1. IsRounds(t, flag, 0, f)
    BY DEF IsRounds
  <2> QED
    BY <1>1, <1>2, <2>1
<1>3. CASE m # 0
  <2>1. m - 1 \in Nat /\ m - 1 \notin T
    BY <1>1, <1>3
  <2>2. PICK g : IsRounds(t, flag, m - 1, g)
    BY <2>1
  <2> DEFINE f == [k \in 0 .. m |-> IF k = m THEN remove_round(g[m - 1], flag) ELSE g[k]]
  <2>3. m \in Nat /\ m > 0
    BY <1>1, <1>3
  <2>4. ASSUME NEW k \in 0 .. m
        PROVE  f[k] = IF k = 0 THEN [i |-> 1, table |-> t] ELSE remove_round(f[k - 1], flag)
    <3>1. CASE k = m
      <4>1. m - 1 \in 0 .. m /\ m - 1 # m
        BY <2>3
      <4>2. f[m - 1] = g[m - 1] /\ f[k] = remove_round(g[m - 1], flag)
        BY <3>1, <4>1
      <4> QED
        BY <2>3, <3>1, <4>2
    <3>2. CASE k # m
      <4>1. k \in 0 .. m - 1 /\ f[k] = g[k]
        BY <2>3, <3>2
      <4>2. g[k] = IF k = 0 THEN [i |-> 1, table |-> t] ELSE remove_round(g[k - 1], flag)
        <5> HIDE DEF f
        <5> QED
          BY <2>2, <4>1 DEF IsRounds
      <4>3. k # 0 => f[k - 1] = g[k - 1]
        BY <2>3, <3>2, <4>1
      <4> QED
        BY <4>1, <4>2, <4>3
    <3> QED
      BY <3>1, <3>2
  <2>5. f = [k \in 0 .. m |-> f[k]]
    OBVIOUS
  <2>6. IsRounds(t, flag, m, f)
    <3> HIDE DEF f
    <3> QED
      BY <2>4, <2>5, Zenon DEF IsRounds
  <2> QED
    BY <1>1, <2>6
<1> QED
  BY <1>2, <1>3

(* The table without entry i: the last entry has taken its place.             *)
LEMMA SwapRemoved ==
    ASSUME NEW E, NEW u \in Seq(E), NEW i \in 1 .. Len(u)
    PROVE  /\ swap_remove(u, i) \in Seq(E)
           /\ Len(swap_remove(u, i)) = Len(u) - 1
           /\ \A k \in 1 .. Len(u) - 1 :
                 swap_remove(u, i)[k] = u[IF k = i THEN Len(u) ELSE k]
<1> DEFINE n == Len(u)
           v == swap_remove(u, i)
<1>1. n \in Nat /\ n > 0 /\ n - 1 \in Nat /\ \A k \in 1 .. n : u[k] \in E
  BY LenProperties
<1>2. v = [k \in 1 .. n - 1 |-> IF k = i THEN u[n] ELSE u[k]]
  BY DEF swap_remove
<1>3. v \in [1 .. n - 1 -> E]
  BY <1>1, <1>2
<1>4. v \in Seq(E) /\ Len(v) = n - 1
  <2> HIDE DEF v, n
  <2> QED
    BY <1>1, <1>3, LenProperties
<1>5. \A k \in 1 .. n - 1 : v[k] = u[IF k = i THEN n ELSE k]
  BY <1>2
<1> QED
  BY <1>4, <1>5

(* Table u consists of different entries of table t, those at h.              *)
Picks(h, u, t) ==
    /\ h \in [1 .. Len(u) -> 1 .. Len(t)]
    /\ \A j \in 1 .. Len(u) : u[j] = t[h[j]]
    /\ \A j, k \in 1 .. Len(u) : h[j] = h[k] => j = k

(* Every entry of t without the flag is among them.                           *)
Keeps(h, u, t, flag) ==
    \A j \in 1 .. Len(t) : flag \notin t[j].flags => \E m \in 1 .. Len(u) : h[m] = j

(* The state of the loop after k rounds: the entries before r.i have been     *)
(* tested and stay, nobody without the flag has been lost.                    *)
RoundOK(E, t, flag, k, r) ==
    /\ r.table \in Seq(E)
    /\ r.i \in Nat /\ r.i >= 1 /\ r.i <= Len(r.table) + 1
    /\ Len(r.table) <= Len(t)
    /\ (r.i - 1) + (Len(t) - Len(r.table)) = k
    /\ \A j \in 1 .. Len(r.table) : j < r.i => flag \notin r.table[j].flags
    /\ \E h : Picks(h, r.table, t) /\ Keeps(h, r.table, t, flag)

(* A round of the loop.                                                       *)
LEMMA RoundKeeps ==
    ASSUME NEW E, NEW t \in Seq(E), NEW flag, NEW k \in Nat, k < Len(t), NEW r,
           RoundOK(E, t, flag, k, r)
    PROVE  RoundOK(E, t, flag, k + 1, remove_round(r, flag))
<1> DEFINE u == r.table
           i == r.i
           N == Len(t)
           n == Len(u)
           q == remove_round(r, flag)
<1>1. /\ u \in Seq(E) /\ n \in Nat /\ N \in Nat /\ i \in Nat
      /\ i >= 1 /\ (i - 1) + (N - n) = k /\ n <= N
      /\ \A j \in 1 .. n : j < i => flag \notin u[j].flags
  BY LenProperties DEF RoundOK
<1>2. PICK h : Picks(h, u, t) /\ Keeps(h, u, t, flag)
  BY DEF RoundOK
<1>3. i \in 1 .. n
  BY <1>1
<1>4. CASE flag \in u[i].flags
  <2> DEFINE v == swap_remove(u, i)
             g == [j \in 1 .. n - 1 |-> h[IF j = i THEN n ELSE j]]
  <2>1. q.i = i /\ q.table = v
    BY <1>4 DEF remove_round
  <2>2. /\ v \in Seq(E) /\ Len(v) = n - 1
        /\ \A j \in 1 .. n - 1 : v[j] = u[IF j = i THEN n ELSE j]
    BY <1>1, <1>3, SwapRemoved
  <2> HIDE DEF v, q
  <2>3. i <= Len(v) + 1 /\ (i - 1) + (N - Len(v)) = k + 1 /\ Len(v) <= N
    <3> HIDE DEF i, n, N
    <3> QED
      BY <1>1, <1>3, <2>2
  <2>4. ASSUME NEW j \in 1 .. Len(v), j < i PROVE flag \notin v[j].flags
    <3>1. j \in 1 .. n - 1 /\ j # i /\ j \in 1 .. n
      <4> HIDE DEF i, n
      <4> QED
        BY <1>1, <1>3, <2>2, <2>4
    <3>2. v[j] = u[j]
      BY <2>2, <3>1
    <3> QED
      BY <1>1, <2>4, <3>1, <3>2
  <2>5. Picks(g, v, t)
    <3>1. \A j \in 1 .. n - 1 : (IF j = i THEN n ELSE j) \in 1 .. n
      BY <1>1, <1>3
    <3>2. g \in [1 .. Len(v) -> 1 .. Len(t)]
      BY <1>2, <2>2, <3>1 DEF Picks
    <3>3. \A j \in 1 .. n - 1 : v[j] = t[g[j]]
      BY <1>2, <2>2, <3>1 DEF Picks
    <3>4. ASSUME NEW j \in 1 .. n - 1, NEW m \in 1 .. n - 1, g[j] = g[m]
          PROVE  j = m
      <4>1. (IF j = i THEN n ELSE j) = (IF m = i THEN n ELSE m)
        BY <1>2, <3>1, <3>4 DEF Picks
      <4> QED
        BY <1>1, <4>1
    <3> HIDE DEF g
    <3> QED
      BY <2>2, <3>2, <3>3, <3>4 DEF Picks
  <2>6. Keeps(g, v, t, flag)
    <3> SUFFICES ASSUME NEW j \in 1 .. Len(t), flag \notin t[j].flags
                 PROVE  \E m \in 1 .. Len(v) : g[m] = j
      BY DEF Keeps
    <3>1. PICK m \in 1 .. n : h[m] = j
      BY <1>2 DEF Keeps
    <3>2. u[m] = t[j]
      BY <1>2, <3>1 DEF Picks
    <3>3. m # i
      BY <1>4, <3>2
    <3>4. CASE m = n
      <4>1. i \in 1 .. n - 1 /\ g[i] = j
        BY <1>1, <1>3, <3>1, <3>3, <3>4
      <4> QED
        BY <2>2, <4>1
    <3>5. CASE m # n
      <4>1. m \in 1 .. n - 1 /\ g[m] = j
        BY <1>1, <3>1, <3>3, <3>5
      <4> QED
        BY <2>2, <4>1
    <3> QED
      BY <3>4, <3>5
  <2> HIDE DEF g, u, i
  <2>7. RoundOK(E, t, flag, k + 1, q)
    BY <1>1, <2>1, <2>2, <2>3, <2>4, <2>5, <2>6 DEF RoundOK
  <2> QED
    BY <2>7 DEF q
<1>5. CASE flag \notin u[i].flags
  <2>1. q.i = i + 1 /\ q.table = u
    BY <1>5 DEF remove_round
  <2>2. i + 1 \in Nat /\ i + 1 >= 1 /\ i + 1 <= n + 1 /\ ((i + 1) - 1) + (N - n) = k + 1
    <3> HIDE DEF i, n, N
    <3> QED
      BY <1>1, <1>3
  <2>3. ASSUME NEW j \in 1 .. n, j < i + 1 PROVE flag \notin u[j].flags
    <3>1. j < i \/ j = i
      <4> HIDE DEF i, n
      <4> QED
        BY <1>1, <1>3, <2>3
    <3> QED
      BY <1>1, <1>5, <3>1
  <2> HIDE DEF q, u, i
  <2>4. RoundOK(E, t, flag, k + 1, q)
    BY <1>1, <1>2, <2>1, <2>2, <2>3 DEF RoundOK
  <2> QED
    BY <2>4 DEF q
<1> QED
  BY <1>4, <1>5

(* The whole loop: whoever has the flag is removed, everybody else stays, and *)
(* nobody twice, although removals move entries under the loop's index.       *)
THEOREM RemoveAll ==
    ASSUME NEW E, NEW t \in Seq(E), NEW flag
    PROVE  LET u == remove_rounds(t, flag)
           IN  /\ u \in Seq(E)
               /\ Len(u) <= Len(t)
               /\ \A j \in 1 .. Len(u) : flag \notin u[j].flags
               /\ \E h : Picks(h, u, t) /\ Keeps(h, u, t, flag)
<1> DEFINE N == Len(t)
           f == CHOOSE g : IsRounds(t, flag, N, g)
<1>1. N \in Nat
  BY LenProperties
<1>2. IsRounds(t, flag, N, f)
  BY <1>1, RoundsExist
<1>3. remove_rounds(t, flag) = f[N].table
  BY DEF remove_rounds, IsRounds
<1> HIDE DEF f
<1>4. /\ f[0] = [i |-> 1, table |-> t]
      /\ \A k \in 1 .. N : f[k] = remove_round(f[k - 1], flag)
  <2> DEFINE F(k) == IF k = 0 THEN [i |-> 1, table |-> t] ELSE remove_round(f[k - 1], flag)
  <2>1. f = [k \in 0 .. N |-> F(k)]
    BY <1>2, Zenon DEF IsRounds
  <2>2. \A k \in 0 .. N : f[k] = F(k)
    <3> HIDE DEF F
    <3> QED
      BY <2>1
  <2> QED
    BY <1>1, <2>2
<1>5. RoundOK(E, t, flag, 0, f[0])
  <2> DEFINE h == [j \in 1 .. N |-> j]
             r == f[0]
  <2>1. r.i = 1 /\ r.table = t
    BY <1>4
  <2>2. Picks(h, t, t) /\ Keeps(h, t, t, flag)
    BY DEF Picks, Keeps
  <2> HIDE DEF h, r
  <2>3. RoundOK(E, t, flag, 0, r)
    BY <1>1, <2>1, <2>2 DEF RoundOK
  <2> QED
    BY <2>3 DEF r
<1>6. \A k \in 0 .. N : RoundOK(E, t, flag, k, f[k])
  <2> DEFINE T == {k \in 0 .. N : ~RoundOK(E, t, flag, k, f[k])}
  <2> SUFFICES ASSUME T # {} PROVE FALSE
    OBVIOUS
  <2>1. PICK m \in T : \A k \in T : m <= k
    <3>1. T \in SUBSET Nat
      BY <1>1
    <3> QED
      BY <3>1, LeastNatural
  <2>2. m \in Nat /\ m > 0 /\ m <= N /\ m - 1 \in 0 .. N /\ m - 1 \in Nat /\ m - 1 < N
    BY <1>1, <1>5, <2>1
  <2>3. m - 1 \notin T
    BY <2>1, <2>2
  <2>4. RoundOK(E, t, flag, m - 1, f[m - 1])
    BY <2>2, <2>3
  <2>5. f[m] = remove_round(f[m - 1], flag)
    BY <1>4, <2>2
  <2>6. RoundOK(E, t, flag, (m - 1) + 1, f[m])
    BY <2>2, <2>4, <2>5, RoundKeeps
  <2>7. (m - 1) + 1 = m
    BY <2>2
  <2> QED
    BY <2>1, <2>6, <2>7
<1>7. RoundOK(E, t, flag, N, f[N])
  BY <1>1, <1>6
<1> DEFINE r == f[N]
<1>8. RoundOK(E, t, flag, N, r)
  BY <1>7
<1> HIDE DEF r
<1>9. /\ r.table \in Seq(E) /\ Len(r.table) \in Nat
      /\ r.i = Len(r.table) + 1 /\ Len(r.table) <= N
  <2> DEFINE a == r.i
             b == Len(r.table)
  <2>1. /\ r.table \in Seq(E) /\ a \in Nat /\ a <= b + 1
        /\ (a - 1) + (N - b) = N
    BY <1>8 DEF RoundOK
  <2>2. b \in Nat
    BY <2>1, LenProperties
  <2>3. b <= N
    BY <1>8 DEF RoundOK
  <2>4. a = b + 1
    <3> HIDE DEF a, b, N
    <3> QED
      BY <1>1, <2>1, <2>2
  <2> QED
    BY <2>1, <2>2, <2>3, <2>4
<1>10. \A j \in 1 .. Len(r.table) : flag \notin r.table[j].flags
  BY <1>8, <1>9 DEF RoundOK
<1>11. \E h : Picks(h, r.table, t) /\ Keeps(h, r.table, t, flag)
  BY <1>8 DEF RoundOK
<1>12. remove_rounds(t, flag) = r.table
  BY <1>3 DEF r
<1> QED
  BY <1>9, <1>10, <1>11, <1>12

(* No two clients ever share an id, and the next client's is not in use.      *)
THEOREM TableSafe == TableSpec => []TableInv
<1>1. TableInit => TableInv
  BY TableAssumption DEF TableInit, TableInv, TableTypeOK, IdsUnique, UsedIds, Ids
<1>2. TableInv /\ [TableNext]_tableVars => TableInv'
  <2> SUFFICES ASSUME TableInv, [TableNext]_tableVars PROVE TableInv'
    OBVIOUS
  <2>1. CASE TableNext
    BY <2>1, AddKeeps, RemoveKeeps DEF TableNext
  <2>2. CASE UNCHANGED tableVars
    BY <2>2 DEF tableVars, TableInv, TableTypeOK, IdsUnique, UsedIds
  <2> QED
    BY <2>1, <2>2
<1> QED
  BY <1>1, <1>2, PTL DEF TableSpec

(* Two connected clients never have the same id (fetch_next_client_id).       *)
THEOREM IdsAlwaysUnique == TableSpec => []IdsUnique
<1>1. TableInv => IdsUnique
  BY DEF TableInv
<1> QED
  BY <1>1, TableSafe, PTL

(* Adding or removing a client leaves all the others in the table             *)
(* (add_ipc_client, remove_ipc_client).                                       *)
THEOREM OthersAlwaysKept == TableSpec => OthersKept
<1> DEFINE OneAtATime == \/ \E e \in Entries' : Entries = Entries' \ {e}
                         \/ \E e \in Entries : Entries' = Entries \ {e}
<1>1. TableInv /\ [TableNext]_tableVars => [OneAtATime]_tableVars
  <2> SUFFICES ASSUME TableInv, TableNext PROVE OneAtATime
    OBVIOUS
  <2>1. CASE \E p \in Peers : Add(p)
    BY <2>1, AddKeeps
  <2>2. ASSUME NEW i \in 1 .. Len(clients), Remove(i)
        PROVE  OneAtATime
    <3>1. Entries' = Entries \ {clients[i]} /\ clients[i] \in Entries
      BY <2>2, RemoveKeeps DEF Entries
    <3> QED
      BY <3>1
  <2> QED
    BY <2>1, <2>2 DEF TableNext
<1> QED
  BY <1>1, TableSafe, PTL DEF TableSpec, OthersKept
=============================================================================
