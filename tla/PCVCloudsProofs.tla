-------------------------- MODULE PCVCloudsProofs --------------------------
(****************************************************************************)
(* The clouds of a scene, for any objects, names, uuids, frames and lengths   *)
(* of sequences: what is drawn can be erased, what waits has its handler, an  *)
(* edit restores what it changed, its indexes are right, and a frame change   *)
(* shows the file of the frame.                                               *)
(****************************************************************************)
EXTENDS PCVClouds, SequenceTheorems, WellFoundedInduction, TLAPS

(* An entry of the cache, the properties of an object, an edit mesh and an    *)
(* item of PCVSequence.cache.  While an edit runs, the alpha to go back to is *)
(* the chosen one.                                                            *)
IsCloud(e) == DOMAIN e = {"obj", "name", "draw"} /\ e.obj \in Objects

IsCache(c) == DOMAIN c \subseteq 1 .. MaxUuid /\ \A u \in DOMAIN c : IsCloud(c[u])

IsPcv(p) ==
    /\ DOMAIN p = {"uuid", "file", "runtime", "edit_initialized", "alpha", "pre"}
    /\ p.uuid \in 0 .. MaxUuid
    /\ p.edit_initialized => p.pre = "chosen"
    /\ ~p.edit_initialized => p.alpha = "chosen"

IsHelper(h) == /\ DOMAIN h = {"parent", "uuid", "synced"}
               /\ h.parent \in Objects /\ h.uuid \in 1 .. MaxUuid

Items == [uuid : 1 .. MaxUuid, obj : Objects, items : Nat, shown : Nat]

CloudTypes ==
    /\ IsCache(cache)
    /\ DOMAIN pcv = Objects /\ pcv = [o \in Objects |-> pcv[o]]
    /\ \A o \in Objects : IsPcv(pcv[o])
    /\ name \in [Objects -> Names \union {0}]
    /\ \A h \in helpers : IsHelper(h)
    /\ seq \in Seq(Items)
    /\ DOMAIN sequence = {"initialized", "registered"}

(* A name means one object, also to the entries of the cache.                 *)
NamesMean ==
    /\ \A o, q \in Alive : name[o] = name[q] => o = q
    /\ \A u \in DOMAIN cache, o \in Alive : name[o] = cache[u].name => cache[u].obj = o

(* The entry that an object names is an entry of that object, and the only    *)
(* one of its entries that is drawn.                                          *)
EntriesOwned ==
    /\ \A o \in Objects : pcv[o].uuid \in DOMAIN cache => cache[pcv[o].uuid].obj = o
    /\ \A u \in DOMAIN cache : cache[u].draw /\ cache[u].obj \in Alive =>
                                  pcv[cache[u].obj].uuid = u
    /\ redrawn => \A u \in DOMAIN cache : cache[u].draw => cache[u].obj \in Alive

(* The entry that an edit mesh or a sequence names is one of their object.    *)
LinksOwned ==
    /\ \A h \in helpers : h.uuid \in DOMAIN cache => cache[h.uuid].obj = h.parent
    /\ \A i \in DOMAIN seq : seq[i].uuid \in DOMAIN cache => cache[seq[i].uuid].obj = seq[i].obj

(* The handlers: a sequence is there only while the manager is, and what      *)
(* PCVSequence.init finds initialized is registered.                          *)
HandlersRun ==
    /\ Handled
    /\ seq # << >> => manager
    /\ sequence.initialized => manager /\ sequence.registered

(* An object has at most one edit mesh, only during an edit, and it is one of *)
(* the cloud that the object names.                                           *)
MeshesOwned ==
    /\ \A h \in helpers : h.parent \in Alive =>
           pcv[h.parent].edit_initialized /\ pcv[h.parent].uuid = h.uuid
    /\ \A h, k \in helpers : h.parent = k.parent /\ h.parent \in Alive => h = k

(* The inductive invariant.                                                   *)
CloudsInv ==
    /\ CloudTypes /\ NamesMean /\ EntriesOwned /\ LinksOwned
    /\ HandlersRun /\ MeshesOwned /\ EditIndexes
-----------------------------------------------------------------------------
(* A set of naturals that is not empty has a least element.                   *)
LEMMA LeastOf ==
    ASSUME NEW T \in SUBSET Nat, T # {}
    PROVE  \E m \in T : \A k \in T : m <= k
<1> DEFINE R == OpToRel(<, Nat)
<1>1. IsWellFoundedOn(R, Nat)
  BY NatLessThanWellFounded DEF OpToRel
<1>2. \E m \in T : \A k \in T : <<k, m>> \notin R
  <2> HIDE DEF R
  <2> QED
    BY <1>1, WFMin
<1>3. \A k, m \in Nat : <<k, m>> \in R <=> k < m
  BY DEF OpToRel
<1> HIDE DEF R
<1>4. PICK m \in T : \A k \in T : <<k, m>> \notin R
  BY <1>2
<1>5. ASSUME NEW k \in T PROVE m <= k
  <2>1. ~(k < m)
    BY <1>3, <1>4
  <2> QED
    BY <2>1
<1> QED
  BY <1>5

(* The uuids that nothing but object o and the cache mentions.                *)
Fresh(o) == {u \in 1 .. MaxUuid :
                /\ \A q \in Objects \ {o} : pcv[q].uuid # u
                /\ \A h \in helpers : h.uuid # u
                /\ \A i \in DOMAIN seq : seq[i].uuid # u}

(* A new uuid is one of them, and not in the cache.                           *)
LEMMA NewUuidIsFresh ==
    ASSUME NEW c, NEW o, Unused(c, o) # {}
    PROVE  NewUuid(c, o) \in Fresh(o) /\ NewUuid(c, o) \notin DOMAIN c
<1> DEFINE U == Unused(c, o)
<1>1. U \in SUBSET Nat
  BY CloudsAssumption DEF Unused
<1>2. \E u \in U : \A v \in U : u <= v
  <2> HIDE DEF U
  <2>1. U # {}
    BY DEF U
  <2> QED
    BY <1>1, <2>1, LeastOf
<1>3. NewUuid(c, o) \in U
  BY <1>2, Zenon DEF NewUuid
<1> QED
  BY <1>3 DEF Unused, Fresh

(* What an operator may make of the cache and of the properties of its object *)
(* o while m says whether the manager runs: entries are kept or belong to o   *)
(* under a fresh uuid, and of the entries of o none but the one that the new  *)
(* properties name is drawn.                                                  *)
IsChange(o, c, p, m) ==
    /\ IsCache(c) /\ IsPcv(p)
    /\ \A v \in DOMAIN c :
          \/ v \in DOMAIN cache /\ c[v].obj = cache[v].obj /\ c[v].name = cache[v].name
          \/ v \in Fresh(o) /\ c[v].obj = o /\ c[v].name = name[o]
    /\ p.uuid \in DOMAIN c => c[p.uuid].obj = o
    /\ \A v \in DOMAIN c : c[v].draw =>
          /\ m
          /\ \/ c[v].obj = o /\ p.uuid = v
             \/ c[v].obj # o /\ v \in DOMAIN cache /\ cache[v].draw

(* Such a change keeps what the invariant says of the objects.                *)
LEMMA ChangeKeeps ==
    ASSUME CloudsInv, NEW o \in Alive, NEW c, NEW p, IsChange(o, c, p, manager'),
           cache' = c, pcv' = [pcv EXCEPT ![o] = p], name' = name, redrawn' = redrawn
    PROVE  /\ IsCache(cache') /\ DOMAIN pcv' = Objects /\ pcv' = [q \in Objects |-> pcv'[q]]
           /\ \A q \in Objects : IsPcv(pcv'[q])
           /\ NamesMean' /\ EntriesOwned'
           /\ \A u \in DOMAIN cache' : cache'[u].draw => manager'
<1>1. o \in Objects /\ Alive' = Alive /\ Alive \subseteq Objects
  BY DEF Alive
<1>2. /\ DOMAIN pcv = Objects /\ \A q \in Objects : IsPcv(pcv[q])
  BY DEF CloudsInv, CloudTypes
<1>3. /\ DOMAIN pcv' = Objects /\ pcv' = [q \in Objects |-> pcv'[q]]
      /\ pcv'[o] = p /\ \A q \in Objects \ {o} : pcv'[q] = pcv[q]
  BY <1>1, <1>2
<1>4. \A q \in Objects : IsPcv(pcv'[q])
  BY <1>1, <1>2, <1>3 DEF IsChange
<1>5. NamesMean'
  BY <1>1 DEF CloudsInv, NamesMean, IsChange
<1>6. EntriesOwned'
  <2>1. ASSUME NEW q \in Objects, pcv'[q].uuid \in DOMAIN cache'
        PROVE  cache'[pcv'[q].uuid].obj = q
    BY <1>3, <2>1 DEF CloudsInv, EntriesOwned, IsChange, Fresh
  <2>2. ASSUME NEW u \in DOMAIN cache', cache'[u].draw
        PROVE  /\ cache'[u].obj \in Alive => pcv'[cache'[u].obj].uuid = u
               /\ redrawn => cache'[u].obj \in Alive
    <3>1. CASE cache'[u].obj = o /\ p.uuid = u
      BY <1>3, <3>1
    <3>2. CASE cache'[u].obj # o /\ u \in DOMAIN cache /\ cache[u].draw
      <4>1. cache'[u].obj = cache[u].obj
        BY <3>2 DEF IsChange
      <4>2. cache[u].obj \in Alive => pcv[cache[u].obj].uuid = u
        BY <3>2 DEF CloudsInv, EntriesOwned
      <4>3. redrawn => cache[u].obj \in Alive
        BY <3>2 DEF CloudsInv, EntriesOwned
      <4> QED
        BY <1>1, <1>3, <3>2, <4>1, <4>2, <4>3
    <3> QED
      BY <2>2, <3>1, <3>2 DEF IsChange
  <2> QED
    BY <1>1, <2>1, <2>2 DEF EntriesOwned
<1> QED
  BY <1>3, <1>4, <1>5, <1>6 DEF IsChange

(* And, when the panel of o was used and the meshes and sequences are left    *)
(* alone, the whole invariant.                                                *)
LEMMA PanelChangeKeeps ==
    ASSUME CloudsInv, NEW o, Panel(o), NEW c, NEW p, IsChange(o, c, p, manager'),
           ~p.edit_initialized, manager => manager',
           cache' = c, pcv' = [pcv EXCEPT ![o] = p], UNCHANGED <<Rest, helpers, seq>>
    PROVE  CloudsInv'
<1>0. /\ o \in Alive /\ ~pcv[o].edit_initialized /\ o \in Objects
      /\ name' = name /\ redrawn' = redrawn /\ helpers' = helpers /\ seq' = seq
      /\ sequence' = sequence
  BY DEF Panel, Alive, Rest
<1>1. /\ IsCache(cache') /\ DOMAIN pcv' = Objects /\ pcv' = [q \in Objects |-> pcv'[q]]
      /\ \A q \in Objects : IsPcv(pcv'[q])
      /\ NamesMean' /\ EntriesOwned'
      /\ \A u \in DOMAIN cache' : cache'[u].draw => manager'
  BY <1>0, ChangeKeeps
<1>2. CloudTypes'
  BY <1>0, <1>1 DEF CloudsInv, CloudTypes
<1>3. LinksOwned'
  BY <1>0 DEF CloudsInv, LinksOwned, IsChange, Fresh
<1>4. HandlersRun'
  BY <1>0, <1>1 DEF CloudsInv, HandlersRun, Handled
<1>5. Alive' = Alive /\ DOMAIN pcv = Objects
  BY <1>0 DEF Alive, CloudsInv, CloudTypes
<1>6. \A h \in helpers : h.parent \in Alive => h.parent # o
  BY <1>0 DEF CloudsInv, MeshesOwned
<1>7. MeshesOwned'
  BY <1>0, <1>5, <1>6 DEF CloudsInv, MeshesOwned, Alive
<1>8. EditIndexes'
  BY <1>0 DEF CloudsInv, EditIndexes, Cached, IsChange, Fresh
<1> QED
  BY <1>1, <1>2, <1>3, <1>4, <1>7, <1>8 DEF CloudsInv
-----------------------------------------------------------------------------
(* The cache without an entry.                                                *)
LEMMA WithoutIs ==
    ASSUME NEW c, NEW u
    PROVE  /\ DOMAIN Without(c, u) = DOMAIN c \ {u}
           /\ \A v \in DOMAIN c \ {u} : Without(c, u)[v] = c[v]
  BY DEF Without

(* The cache c with entry u drawn or erased.                                  *)
SetDraw(c, u, b) == [c EXCEPT ![u].draw = b]

LEMMA SetDrawIs ==
    ASSUME NEW c, IsCache(c), NEW u, NEW b
    PROVE  /\ IsCache(SetDraw(c, u, b)) /\ DOMAIN SetDraw(c, u, b) = DOMAIN c
           /\ \A v \in DOMAIN c :
                 /\ SetDraw(c, u, b)[v].obj = c[v].obj
                 /\ SetDraw(c, u, b)[v].name = c[v].name
                 /\ SetDraw(c, u, b)[v].draw = IF v = u THEN b ELSE c[v].draw
<1> DEFINE d == SetDraw(c, u, b)
<1>1. DOMAIN d = DOMAIN c
  BY DEF SetDraw
<1>2. ASSUME NEW v \in DOMAIN c
      PROVE  /\ IsCloud(d[v]) /\ d[v].obj = c[v].obj /\ d[v].name = c[v].name
             /\ d[v].draw = IF v = u THEN b ELSE c[v].draw
  <2>1. IsCloud(c[v])
    BY DEF IsCache
  <2>2. CASE v = u
    <3>1. d[v] = [c[v] EXCEPT !.draw = b]
      BY <2>2 DEF SetDraw
    <3> HIDE DEF d
    <3> QED
      BY <2>1, <2>2, <3>1 DEF IsCloud
  <2>3. CASE v # u
    <3>1. d[v] = c[v]
      BY <2>3 DEF SetDraw
    <3> HIDE DEF d
    <3> QED
      BY <2>1, <2>3, <3>1
  <2> QED
    BY <2>2, <2>3
<1> HIDE DEF d
<1>3. IsCache(d)
  BY <1>1, <1>2 DEF IsCache
<1> QED
  BY <1>1, <1>2, <1>3 DEF d

(* An entry for object o under a fresh uuid, drawn or not, in a cache with    *)
(* which the entries of o that are left are not drawn.                        *)
LEMMA AddChanges ==
    ASSUME CloudsInv, NEW o \in Alive, NEW c, IsCache(c), NEW u \in Fresh(o), NEW b, NEW m,
           b => m, NEW p, IsPcv(p), p.uuid = u,
           \A v \in DOMAIN c : /\ v \in DOMAIN cache
                               /\ c[v].obj = cache[v].obj /\ c[v].name = cache[v].name
                               /\ c[v].draw => m /\ c[v].obj # o /\ cache[v].draw
    PROVE  IsChange(o, add(c, u, Entry(o, b)), p, m)
<1> DEFINE d == add(c, u, Entry(o, b))
<1>1. /\ DOMAIN d = DOMAIN c \union {u} /\ d[u] = Entry(o, b)
      /\ \A v \in DOMAIN c \ {u} : d[v] = c[v]
  BY DEF add
<1>2. /\ IsCloud(d[u]) /\ d[u].obj = o /\ d[u].name = name[o] /\ d[u].draw = b
  BY <1>1 DEF Entry, IsCloud, Alive
<1>3. u \in 1 .. MaxUuid
  BY DEF Fresh
<1> HIDE DEF d
<1>4. IsCache(d)
  BY <1>1, <1>2, <1>3 DEF IsCache
<1>5. IsChange(o, d, p, m)
  BY <1>1, <1>2, <1>4 DEF IsChange
<1> QED
  BY <1>5 DEF d

(* load: the old entry goes, a new one may come.                              *)
LEMMA LoadChanges ==
    ASSUME CloudsInv, NEW o \in Alive, NEW p, IsPcv(p), p.uuid = pcv[o].uuid,
           Unused(Without(cache, p.uuid), o) # {},
           NEW r \in load(cache, p, o)
    PROVE  /\ IsChange(o, r[1], r[2], manager) /\ r[2].edit_initialized = p.edit_initialized
           /\ r[2].runtime = p.runtime
           /\ \A v \in DOMAIN r[1] : r[1][v].draw => r[1][v].obj # o
<1> DEFINE c1 == Without(cache, p.uuid)
           p1 == [p EXCEPT !.file = "ply"]
           u  == NewUuid(c1, o)
           p2 == [p1 EXCEPT !.uuid = u]
           d  == add(c1, u, Entry(o, FALSE))
<1>1. u \in Fresh(o) /\ u \notin DOMAIN c1 /\ u \in 1 .. MaxUuid
  BY NewUuidIsFresh DEF Fresh
<1>2. /\ DOMAIN c1 = DOMAIN cache \ {p.uuid} /\ \A v \in DOMAIN c1 : c1[v] = cache[v]
  BY WithoutIs
<1>3. r = <<c1, p1>> \/ r = <<d, p2>>
  BY DEF load
<1> HIDE DEF c1, u
<1>4. /\ IsPcv(p1) /\ p1.uuid = p.uuid
      /\ p1.edit_initialized = p.edit_initialized /\ p1.runtime = p.runtime
  BY DEF IsPcv
<1> HIDE DEF p1
<1>5. /\ IsPcv(p2) /\ p2.uuid = u
      /\ p2.edit_initialized = p.edit_initialized /\ p2.runtime = p.runtime
  <2>1. u \in 0 .. MaxUuid
    BY <1>1, CloudsAssumption
  <2> QED
    BY <1>4, <2>1 DEF IsPcv
<1> HIDE DEF p2
<1>6. IsCache(c1)
  BY <1>2 DEF IsCache, CloudsInv, CloudTypes
<1>7. o \in Objects
  BY DEF Alive
<1>8. ASSUME NEW v \in DOMAIN c1
      PROVE  /\ v \in DOMAIN cache /\ c1[v].obj = cache[v].obj /\ c1[v].name = cache[v].name
             /\ c1[v].draw => manager /\ c1[v].obj # o /\ cache[v].draw
  BY <1>2 DEF CloudsInv, EntriesOwned, HandlersRun, Handled
<1>9. CASE r = <<c1, p1>>
  <2>1. IsChange(o, c1, p1, manager)
    BY <1>2, <1>4, <1>6, <1>8 DEF IsChange
  <2> QED
    BY <1>4, <1>8, <1>9, <2>1
<1>10. CASE r = <<d, p2>>
  <2>1. IsChange(o, d, p2, manager)
    BY <1>1, <1>5, <1>6, <1>8, AddChanges
  <2>2. \A v \in DOMAIN d : d[v].draw => d[v].obj # o
    <3>1. /\ DOMAIN d = DOMAIN c1 \union {u} /\ d[u] = Entry(o, FALSE)
          /\ \A v \in DOMAIN c1 \ {u} : d[v] = c1[v]
      BY DEF add
    <3>2. d[u].draw = FALSE
      BY <3>1 DEF Entry
    <3> HIDE DEF d
    <3> QED
      BY <1>8, <3>1, <3>2
  <2> HIDE DEF d
  <2> QED
    BY <1>5, <1>10, <2>1, <2>2
<1> QED
  BY <1>3, <1>9, <1>10

(* Drawing the entry that the properties of o name.                           *)
LEMMA SetDrawChanges ==
    ASSUME NEW o, NEW c, NEW p, NEW m, NEW b, b => m, IsChange(o, c, p, m)
    PROVE  IsChange(o, SetDraw(c, p.uuid, b), p, m)
<1> DEFINE d == SetDraw(c, p.uuid, b)
<1>1. /\ IsCache(d) /\ DOMAIN d = DOMAIN c
      /\ \A v \in DOMAIN c : /\ d[v].obj = c[v].obj /\ d[v].name = c[v].name
                             /\ d[v].draw = IF v = p.uuid THEN b ELSE c[v].draw
  BY SetDrawIs DEF IsChange
<1> HIDE DEF d
<1>2. IsChange(o, d, p, m)
  BY <1>1 DEF IsChange
<1> QED
  BY <1>2 DEF d

(* The state itself is a change.                                              *)
LEMMA NoChange ==
    ASSUME CloudsInv, NEW o \in Alive, NEW p, IsPcv(p), p.uuid = pcv[o].uuid, NEW m, manager => m
    PROVE  IsChange(o, cache, p, m)
<1>1. IsCache(cache)
  BY DEF CloudsInv, CloudTypes
<1>2. \A v \in DOMAIN cache : cache[v].draw => m
  BY DEF CloudsInv, HandlersRun, Handled
<1>3. p.uuid \in DOMAIN cache => cache[p.uuid].obj = o
  BY DEF CloudsInv, EntriesOwned, Alive
<1>4. \A v \in DOMAIN cache : cache[v].draw /\ cache[v].obj \in Alive => pcv[cache[v].obj].uuid = v
  BY DEF CloudsInv, EntriesOwned
<1> QED
  BY <1>1, <1>2, <1>3, <1>4, Zenon DEF IsChange
(* draw: the entry is drawn, loaded, or not to be had.                        *)
LEMMA DrawChanges ==
    ASSUME CloudsInv, NEW o \in Alive, Unused(cache, o) # {}, NEW r \in draw(cache, pcv[o], o)
    PROVE  IsChange(o, r[1], r[2], TRUE) /\ r[2].edit_initialized = pcv[o].edit_initialized
<1> DEFINE p == pcv[o]
           u == NewUuid(cache, o)
           p1 == [p EXCEPT !.uuid = 0]
           p2 == [p EXCEPT !.uuid = u]
<1>1. u \in Fresh(o) /\ u \in 0 .. MaxUuid
  BY NewUuidIsFresh, CloudsAssumption DEF Fresh
<1>2. o \in Objects /\ IsPcv(p) /\ IsCache(cache)
  BY DEF Alive, CloudsInv, CloudTypes
<1>3. 0 \in 0 .. MaxUuid /\ 0 \notin DOMAIN cache
  BY <1>2, CloudsAssumption DEF IsCache
<1>4. \/ Cached(cache, p.uuid) /\ r = <<SetDraw(cache, p.uuid, TRUE), p>>
      \/ ~Cached(cache, p.uuid) /\ r = <<cache, p1>>
      \/ ~Cached(cache, p.uuid) /\ r = <<add(cache, u, Entry(o, TRUE)), p2>>
  BY DEF draw, SetDraw
<1> HIDE DEF u
<1>5. /\ IsPcv(p1) /\ p1.uuid = 0 /\ p1.edit_initialized = p.edit_initialized
      /\ IsPcv(p2) /\ p2.uuid = u /\ p2.edit_initialized = p.edit_initialized
  BY <1>1, <1>2, <1>3 DEF IsPcv
<1> HIDE DEF p1, p2
<1>6. ASSUME ~Cached(cache, p.uuid), NEW v \in DOMAIN cache, cache[v].draw
      PROVE  cache[v].obj # o
  BY <1>6 DEF Cached, CloudsInv, EntriesOwned
<1>7. CASE Cached(cache, p.uuid) /\ r = <<SetDraw(cache, p.uuid, TRUE), p>>
  <2>1. IsChange(o, cache, p, TRUE)
    BY <1>2, NoChange
  <2>2. IsChange(o, SetDraw(cache, p.uuid, TRUE), p, TRUE)
    BY <2>1, SetDrawChanges
  <2> QED
    BY <1>7, <2>2
<1>8. CASE ~Cached(cache, p.uuid) /\ r = <<cache, p1>>
  <2>1. IsChange(o, cache, p1, TRUE)
    BY <1>2, <1>3, <1>5, <1>6, <1>8 DEF IsChange
  <2> QED
    BY <1>5, <1>8, <2>1
<1>9. CASE ~Cached(cache, p.uuid) /\ r = <<add(cache, u, Entry(o, TRUE)), p2>>
  <2>1. IsChange(o, add(cache, u, Entry(o, TRUE)), p2, TRUE)
    BY <1>1, <1>2, <1>5, <1>6, <1>9, AddChanges
  <2> QED
    BY <1>5, <1>9, <2>1
<1> QED
  BY <1>4, <1>7, <1>8, <1>9

(* reload: a load, drawn if the old entry was.                                *)
LEMMA ReloadChanges ==
    ASSUME CloudsInv, NEW o \in Alive, NEW p, IsPcv(p), p.uuid = pcv[o].uuid,
           Unused(cache, o) # {}, NEW r \in reload(cache, p, o)
    PROVE  IsChange(o, r[1], r[2], manager) /\ r[2].edit_initialized = p.edit_initialized
<1>1. CASE p.runtime
  <2>1. r = <<cache, p>>
    BY <1>1 DEF reload
  <2>2. IsChange(o, cache, p, manager)
    BY NoChange
  <2> QED
    BY <2>1, <2>2
<1>2. CASE ~p.runtime
  <2>1. PICK q \in load(cache, p, o) :
           r = IF Drawn(cache, p.uuid) /\ Cached(q[1], q[2].uuid)
               THEN <<SetDraw(q[1], q[2].uuid, TRUE), q[2]>> ELSE q
    BY <1>2 DEF reload, SetDraw
  <2>2. Unused(Without(cache, p.uuid), o) # {}
    <3>1. PICK v : v \in Unused(cache, o)
      OBVIOUS
    <3>2. DOMAIN Without(cache, p.uuid) \subseteq DOMAIN cache
      BY DEF Without
    <3>3. v \in Unused(Without(cache, p.uuid), o)
      BY <3>1, <3>2 DEF Unused
    <3> QED
      BY <3>3
  <2>3. IsChange(o, q[1], q[2], manager) /\ q[2].edit_initialized = p.edit_initialized
    BY <2>2, LoadChanges
  <2>4. CASE Drawn(cache, p.uuid) /\ Cached(q[1], q[2].uuid)
    <3>1. manager
      BY <2>4 DEF Drawn, CloudsInv, HandlersRun, Handled
    <3>2. IsChange(o, SetDraw(q[1], q[2].uuid, TRUE), q[2], manager)
      BY <2>3, <3>1, SetDrawChanges
    <3> QED
      BY <2>1, <2>3, <2>4, <3>2
  <2>5. CASE ~(Drawn(cache, p.uuid) /\ Cached(q[1], q[2].uuid))
    BY <2>1, <2>3, <2>5
  <2> QED
    BY <2>4, <2>5
<1> QED
  BY <1>1, <1>2

(* erase: after it no entry of o is drawn.                                    *)
LEMMA EraseChanges ==
    ASSUME CloudsInv, NEW o \in Alive, NEW m, manager => m
    PROVE  LET e == erase(cache, pcv[o].uuid)
           IN  /\ IsChange(o, e, pcv[o], m) /\ DOMAIN e = DOMAIN cache
               /\ \A v \in DOMAIN e : /\ e[v].obj = cache[v].obj /\ e[v].name = cache[v].name
                                      /\ e[v].draw => m /\ e[v].obj # o /\ cache[v].draw
<1> DEFINE u == pcv[o].uuid
           e == erase(cache, u)
<1>1. o \in Objects /\ IsPcv(pcv[o]) /\ IsCache(cache)
  BY DEF Alive, CloudsInv, CloudTypes
<1>2. IsChange(o, cache, pcv[o], m)
  BY <1>1, NoChange
<1>3. \A v \in DOMAIN cache : /\ cache[v].draw /\ cache[v].obj = o => v = u
                              /\ cache[v].draw => m
  BY DEF CloudsInv, EntriesOwned, HandlersRun, Handled
<1>4. CASE Drawn(cache, u)
  <2>1. e = SetDraw(cache, u, FALSE)
    BY <1>4 DEF erase, SetDraw
  <2>2. IsChange(o, e, pcv[o], m)
    BY <1>2, <2>1, SetDrawChanges
  <2>3. /\ DOMAIN e = DOMAIN cache
        /\ \A v \in DOMAIN cache : /\ e[v].obj = cache[v].obj /\ e[v].name = cache[v].name
                                   /\ e[v].draw = IF v = u THEN FALSE ELSE cache[v].draw
    <3> DEFINE b == FALSE
               d == SetDraw(cache, u, b)
    <3> HIDE DEF b
    <3>1. /\ DOMAIN d = DOMAIN cache
          /\ \A v \in DOMAIN cache : /\ d[v].obj = cache[v].obj /\ d[v].name = cache[v].name
                                     /\ d[v].draw = IF v = u THEN b ELSE cache[v].draw
      BY <1>1, SetDrawIs
    <3> HIDE DEF d, e
    <3> QED
      BY <2>1, <3>1 DEF d, b
  <2> HIDE DEF e
  <2> QED
    BY <1>3, <2>2, <2>3 DEF e
<1>5. CASE ~Drawn(cache, u)
  <2>1. e = cache
    BY <1>5 DEF erase
  <2> QED
    BY <1>2, <1>3, <1>5, <2>1 DEF Drawn
<1> QED
  BY <1>4, <1>5

(* generate: the old cloud is erased, the new one is drawn.                   *)
LEMMA GenerateChanges ==
    ASSUME CloudsInv, NEW o \in Alive, Unused(cache, o) # {}
    PROVE  LET r == generate(cache, pcv[o], o)
           IN  IsChange(o, r[1], r[2], TRUE) /\ r[2].edit_initialized = pcv[o].edit_initialized
<1> DEFINE p == pcv[o]
           e == erase(cache, p.uuid)
           u == NewUuid(e, o)
           p2 == [p EXCEPT !.uuid = u, !.file = "runtime", !.runtime = TRUE]
           r == generate(cache, p, o)
<1>1. /\ IsChange(o, e, p, TRUE) /\ DOMAIN e = DOMAIN cache
      /\ \A v \in DOMAIN e : /\ e[v].obj = cache[v].obj /\ e[v].name = cache[v].name
                             /\ e[v].draw => TRUE /\ e[v].obj # o /\ cache[v].draw
  BY EraseChanges
<1>2. \/ r = <<SetDraw(e, p.uuid, TRUE), p>>
      \/ r = <<add(e, u, Entry(o, TRUE)), p2>>
  BY DEF generate, SetDraw
<1> HIDE DEF r, e
<1>3. Unused(e, o) # {}
  BY <1>1 DEF Unused
<1>4. u \in Fresh(o) /\ u \in 0 .. MaxUuid
  BY <1>3, NewUuidIsFresh, CloudsAssumption DEF Fresh
<1> HIDE DEF u
<1>5. IsPcv(p2) /\ p2.uuid = u /\ p2.edit_initialized = p.edit_initialized
  <2>1. IsPcv(p)
    BY DEF CloudsInv, CloudTypes, Alive
  <2> QED
    BY <1>4, <2>1 DEF IsPcv
<1> HIDE DEF p2
<1>6. CASE r = <<SetDraw(e, p.uuid, TRUE), p>>
  <2>1. IsChange(o, SetDraw(e, p.uuid, TRUE), p, TRUE)
    BY <1>1, SetDrawChanges
  <2>2. IsChange(o, r[1], r[2], TRUE) /\ r[2].edit_initialized = p.edit_initialized
    BY <1>6, <2>1
  <2> QED
    BY <2>2, Zenon DEF r
<1>7. CASE r = <<add(e, u, Entry(o, TRUE)), p2>>
  <2>1. IsChange(o, add(e, u, Entry(o, TRUE)), p2, TRUE)
    <3>1. IsCache(e)
      BY <1>1 DEF IsChange
    <3> QED
      BY <1>1, <1>4, <1>5, <3>1, AddChanges
  <2>2. IsChange(o, r[1], r[2], TRUE) /\ r[2].edit_initialized = p.edit_initialized
    BY <1>5, <1>7, <2>1
  <2> QED
    BY <2>2, Zenon DEF r
<1> QED
  BY <1>2, <1>6, <1>7

(* reset_runtime: the erased entry is dropped.                                *)
LEMMA ResetChanges ==
    ASSUME CloudsInv, NEW o \in Alive
    PROVE  LET r == reset(erase(cache, pcv[o].uuid), pcv[o])
           IN  IsChange(o, r[1], r[2], TRUE) /\ r[2].edit_initialized = pcv[o].edit_initialized
<1> DEFINE p == pcv[o]
           e == erase(cache, p.uuid)
           w == Without(e, p.uuid)
           p2 == [p EXCEPT !.uuid = 0, !.file = "none", !.runtime = FALSE]
           r == reset(e, p)
<1>1. /\ IsChange(o, e, p, TRUE) /\ DOMAIN e = DOMAIN cache
      /\ \A v \in DOMAIN e : /\ e[v].obj = cache[v].obj /\ e[v].name = cache[v].name
                             /\ e[v].draw => TRUE /\ e[v].obj # o /\ cache[v].draw
  BY EraseChanges
<1>2. r = <<e, p>> \/ r = <<w, p2>>
  BY DEF reset
<1> HIDE DEF r, e
<1>3. DOMAIN w = DOMAIN e \ {p.uuid} /\ \A v \in DOMAIN w : w[v] = e[v]
  BY WithoutIs
<1> HIDE DEF w
<1>4. IsPcv(p2) /\ p2.uuid = 0 /\ p2.edit_initialized = p.edit_initialized
  <2>1. IsPcv(p) /\ 0 \in 0 .. MaxUuid
    BY CloudsAssumption DEF CloudsInv, CloudTypes, Alive
  <2> QED
    BY <2>1 DEF IsPcv
<1> HIDE DEF p2
<1>5. 0 \notin DOMAIN e
  BY <1>1, CloudsAssumption DEF IsChange, IsCache
<1>6. IsCache(w)
  BY <1>1, <1>3 DEF IsChange, IsCache
<1>7. IsChange(o, w, p2, TRUE)
  BY <1>1, <1>3, <1>4, <1>5, <1>6 DEF IsChange
<1>8. IsChange(o, r[1], r[2], TRUE) /\ r[2].edit_initialized = p.edit_initialized
  <2>1. CASE r = <<e, p>>
    BY <1>1, <2>1
  <2>2. CASE r = <<w, p2>>
    BY <1>4, <1>7, <2>2
  <2> QED
    BY <1>2, <2>1, <2>2
<1> QED
  BY <1>8, Zenon DEF r, e
-----------------------------------------------------------------------------
(* Init.                                                                      *)
LEMMA CloudsStart == CloudsInit => CloudsInv
<1> SUFFICES ASSUME CloudsInit PROVE CloudsInv
  OBVIOUS
<1>1. DOMAIN cache = {} /\ seq = << >> /\ helpers = {} /\ DOMAIN seq = {}
  BY DEF CloudsInit
<1>2. IsPcv(Default)
  BY CloudsAssumption DEF IsPcv, Default
<1>3. /\ pcv = [o \in Objects |-> Default] /\ name = [o \in Objects |-> o]
      /\ DOMAIN sequence = {"initialized", "registered"} /\ ~sequence.initialized
  BY DEF CloudsInit
<1>4. CloudTypes
  BY <1>1, <1>2, <1>3, CloudsAssumption DEF CloudTypes, IsCache
<1>5. NamesMean
  BY <1>1, <1>3 DEF NamesMean, Alive
<1> QED
  BY <1>1, <1>3, <1>4, <1>5 DEF CloudsInv, EntriesOwned, LinksOwned, HandlersRun, Handled, MeshesOwned,
                          EditIndexes

(* The operators that load, draw and erase clouds.                            *)
LEMMA LoadOperatorsKeep ==
    ASSUME CloudsInv, NEW o \in Objects,
           \/ PCV_OT_load(o) \/ PCV_OT_draw(o) \/ PCV_OT_erase(o) \/ PCV_OT_convert(o)
           \/ PCV_OT_reload(o) \/ PCV_OT_generate_point_cloud(o) \/ PCV_OT_reset_runtime(o)
    PROVE  CloudsInv'
<1>1. Panel(o) /\ o \in Alive /\ ~pcv[o].edit_initialized
  BY DEF PCV_OT_load, PCV_OT_draw, PCV_OT_erase, PCV_OT_convert, PCV_OT_reload,
         PCV_OT_generate_point_cloud, PCV_OT_reset_runtime, Panel
<1>2. IsPcv(pcv[o]) /\ pcv = [q \in Objects |-> pcv[q]] /\ DOMAIN pcv = Objects
  BY DEF CloudsInv, CloudTypes
<1>3. UNCHANGED <<Rest, helpers, seq>>
  BY DEF PCV_OT_load, PCV_OT_draw, PCV_OT_erase, PCV_OT_convert, PCV_OT_reload,
         PCV_OT_generate_point_cloud, PCV_OT_reset_runtime
<1>4. CASE PCV_OT_load(o)
  <2>1. manager' = manager /\ Unused(Without(cache, pcv[o].uuid), o) # {}
    BY <1>4 DEF PCV_OT_load
  <2>2. PICK r \in load(cache, pcv[o], o) : cache' = r[1] /\ pcv' = [pcv EXCEPT ![o] = r[2]]
    BY <1>4 DEF PCV_OT_load, Becomes
  <2>3. IsChange(o, r[1], r[2], manager) /\ ~r[2].edit_initialized
    BY <1>1, <1>2, <2>1, LoadChanges
  <2> QED
    BY <1>1, <1>3, <2>1, <2>2, <2>3, PanelChangeKeeps
<1>5. CASE PCV_OT_draw(o)
  <2>1. manager' = TRUE /\ Unused(cache, o) # {}
    BY <1>5 DEF PCV_OT_draw
  <2>2. PICK r \in draw(cache, pcv[o], o) : cache' = r[1] /\ pcv' = [pcv EXCEPT ![o] = r[2]]
    BY <1>5 DEF PCV_OT_draw, Becomes
  <2>3. IsChange(o, r[1], r[2], manager') /\ ~r[2].edit_initialized
    BY <1>1, <2>1, DrawChanges
  <2> QED
    BY <1>1, <1>3, <2>1, <2>2, <2>3, PanelChangeKeeps
<1>6. CASE PCV_OT_erase(o) \/ PCV_OT_convert(o)
  <2>1. manager' = manager /\ cache' = erase(cache, pcv[o].uuid) /\ pcv' = pcv
    BY <1>6 DEF PCV_OT_erase, PCV_OT_convert
  <2>2. pcv' = [pcv EXCEPT ![o] = pcv[o]]
    BY <1>2, <2>1
  <2>3. IsChange(o, cache', pcv[o], manager')
    BY <1>1, <2>1, EraseChanges
  <2> QED
    BY <1>1, <1>3, <2>1, <2>2, <2>3, PanelChangeKeeps
<1>7. CASE PCV_OT_reload(o)
  <2>1. manager' = manager /\ Unused(cache, o) # {}
    BY <1>7 DEF PCV_OT_reload
  <2>2. PICK r \in reload(cache, pcv[o], o) : cache' = r[1] /\ pcv' = [pcv EXCEPT ![o] = r[2]]
    BY <1>7 DEF PCV_OT_reload, Becomes
  <2>3. IsChange(o, r[1], r[2], manager) /\ ~r[2].edit_initialized
    BY <1>1, <1>2, <2>1, ReloadChanges
  <2> QED
    BY <1>1, <1>3, <2>1, <2>2, <2>3, PanelChangeKeeps
<1>8. CASE PCV_OT_generate_point_cloud(o)
  <2> DEFINE r == generate(cache, pcv[o], o)
  <2>1. /\ manager' = TRUE /\ Unused(cache, o) # {}
        /\ cache' = r[1] /\ pcv' = [pcv EXCEPT ![o] = r[2]]
    BY <1>8 DEF PCV_OT_generate_point_cloud, Becomes
  <2>2. IsChange(o, r[1], r[2], manager') /\ ~r[2].edit_initialized
    BY <1>1, <2>1, GenerateChanges
  <2> HIDE DEF r
  <2> QED
    BY <1>1, <1>3, <2>1, <2>2, PanelChangeKeeps
<1>9. CASE PCV_OT_reset_runtime(o)
  <2> DEFINE r == reset(erase(cache, pcv[o].uuid), pcv[o])
  <2>1. manager' = TRUE /\ cache' = r[1] /\ pcv' = [pcv EXCEPT ![o] = r[2]]
    BY <1>9 DEF PCV_OT_reset_runtime, Becomes
  <2>2. IsChange(o, r[1], r[2], manager') /\ ~r[2].edit_initialized
    BY <1>1, <2>1, ResetChanges
  <2> HIDE DEF r
  <2> QED
    BY <1>1, <1>3, <2>1, <2>2, PanelChangeKeeps
<1> QED
  BY <1>4, <1>5, <1>6, <1>7, <1>8, <1>9

(* New arrays for an entry leave the edit meshes theirs, but for the indexes. *)
LEMMA ReplacedIs ==
    ASSUME NEW hs, \A h \in hs : IsHelper(h), NEW u
    PROVE  /\ \A h \in Replaced(hs, u) : IsHelper(h)
           /\ \A h \in Replaced(hs, u) : \E k \in hs :
                 /\ h.parent = k.parent /\ h.uuid = k.uuid
                 /\ h = IF k.uuid = u THEN [k EXCEPT !.synced = FALSE] ELSE k
<1>1. ASSUME NEW h \in Replaced(hs, u)
      PROVE  /\ IsHelper(h)
             /\ \E k \in hs : /\ h.parent = k.parent /\ h.uuid = k.uuid
                              /\ h = IF k.uuid = u THEN [k EXCEPT !.synced = FALSE] ELSE k
  <2>1. PICK k \in hs : h = IF k.uuid = u THEN [k EXCEPT !.synced = FALSE] ELSE k
    BY DEF Replaced
  <2>2. IsHelper(k)
    OBVIOUS
  <2>3. IsHelper(h) /\ h.parent = k.parent /\ h.uuid = k.uuid
    BY <2>1, <2>2 DEF IsHelper
  <2> QED
    BY <2>1, <2>3
<1> QED
  BY <1>1

(* The filters replace the arrays of a cloud that is not being edited.        *)
LEMMA FiltersKeepClouds ==
    ASSUME CloudsInv, NEW o \in Objects,
           Filter(o) \/ \E q \in Objects : PCV_OT_filter_join(o, q)
    PROVE  CloudsInv'
<1>1. /\ Panel(o) /\ o \in Alive /\ ~pcv[o].edit_initialized
      /\ pcv[o].uuid \in DOMAIN cache /\ helpers' = Replaced(helpers, pcv[o].uuid)
      /\ pcv' = pcv /\ seq' = seq /\ manager' = manager
      /\ name' = name /\ sequence' = sequence /\ redrawn' = redrawn
  BY DEF Filter, PCV_OT_filter_join, Panel, Drawn, Rest
<1>2. IsCache(cache) /\ \A h \in helpers : IsHelper(h)
  BY DEF CloudsInv, CloudTypes
<1>3. /\ IsCache(cache') /\ DOMAIN cache' = DOMAIN cache
      /\ \A v \in DOMAIN cache : /\ cache'[v].obj = cache[v].obj /\ cache'[v].name = cache[v].name
                                 /\ cache'[v].draw => cache[v].draw
  <2>1. CASE Filter(o)
    BY <1>2, <2>1 DEF Filter
  <2>2. CASE \E q \in Objects : PCV_OT_filter_join(o, q)
    <3>0. PICK q \in Objects : PCV_OT_filter_join(o, q)
      BY <2>2
    <3> DEFINE b == FALSE
    <3>1. cache' = SetDraw(cache, pcv[q].uuid, b)
      BY <3>0 DEF PCV_OT_filter_join, SetDraw
    <3>2. ~b
      OBVIOUS
    <3> HIDE DEF b
    <3> QED
      BY <1>2, <3>1, <3>2, SetDrawIs
  <2> QED
    BY <2>1, <2>2
<1>4. /\ \A h \in helpers' : IsHelper(h)
      /\ \A h \in helpers' : \E k \in helpers :
            /\ h.parent = k.parent /\ h.uuid = k.uuid
            /\ h = IF k.uuid = pcv[o].uuid THEN [k EXCEPT !.synced = FALSE] ELSE k
  BY <1>1, <1>2, ReplacedIs
<1>5. Alive' = Alive
  BY <1>1 DEF Alive
<1>6. CloudTypes'
  BY <1>1, <1>3, <1>4 DEF CloudsInv, CloudTypes
<1>7. NamesMean' /\ EntriesOwned'
  BY <1>1, <1>3, <1>5 DEF CloudsInv, NamesMean, EntriesOwned
<1>8. LinksOwned'
  BY <1>1, <1>3, <1>4 DEF CloudsInv, LinksOwned
<1>9. HandlersRun'
  BY <1>1, <1>3 DEF CloudsInv, HandlersRun, Handled
<1>10. MeshesOwned'
  <2>1. ASSUME NEW h \in helpers', h.parent \in Alive
        PROVE  pcv[h.parent].edit_initialized /\ pcv[h.parent].uuid = h.uuid
    BY <1>4, <2>1 DEF CloudsInv, MeshesOwned
  <2>2. ASSUME NEW h \in helpers', NEW k \in helpers', h.parent = k.parent, h.parent \in Alive
        PROVE  h = k
    <3>1. PICK h0 \in helpers : /\ h.parent = h0.parent /\ h.uuid = h0.uuid
                                /\ h = IF h0.uuid = pcv[o].uuid
                                       THEN [h0 EXCEPT !.synced = FALSE] ELSE h0
      BY <1>4
    <3>2. PICK k0 \in helpers : /\ k.parent = k0.parent /\ k.uuid = k0.uuid
                                /\ k = IF k0.uuid = pcv[o].uuid
                                       THEN [k0 EXCEPT !.synced = FALSE] ELSE k0
      BY <1>4
    <3>3. h0 = k0
      BY <2>2, <3>1, <3>2 DEF CloudsInv, MeshesOwned
    <3> QED
      BY <3>1, <3>2, <3>3
  <2> QED
    BY <1>1, <1>5, <2>1, <2>2 DEF MeshesOwned
<1>11. \A k \in helpers : k.uuid # pcv[o].uuid
  BY <1>1 DEF CloudsInv, MeshesOwned, EntriesOwned, LinksOwned
<1>12. EditIndexes'
  BY <1>1, <1>3, <1>4, <1>11 DEF CloudsInv, EditIndexes, Cached
<1> QED
  BY <1>6, <1>7, <1>8, <1>9, <1>10, <1>12 DEF CloudsInv
(* Steps that only change edit meshes: they keep their objects and uuids, and *)
(* an object still has at most one.                                           *)
LEMMA MeshStepKeeps ==
    ASSUME CloudsInv, UNCHANGED <<Rest, cache, pcv, seq, manager>>,
           \A h \in helpers' : IsHelper(h) /\ \E k \in helpers :
                 h.parent = k.parent /\ h.uuid = k.uuid /\ (h.synced \/ h = k),
           \A h, k \in helpers' : h.parent = k.parent /\ h.parent \in Alive => h = k
    PROVE  CloudsInv'
<1>1. /\ cache' = cache /\ pcv' = pcv /\ seq' = seq /\ manager' = manager
      /\ name' = name /\ sequence' = sequence /\ redrawn' = redrawn /\ Alive' = Alive
  BY DEF Rest, Alive
<1>2. CloudTypes'
  BY <1>1 DEF CloudsInv, CloudTypes
<1>3. NamesMean' /\ EntriesOwned' /\ HandlersRun'
  BY <1>1 DEF CloudsInv, NamesMean, EntriesOwned, HandlersRun, Handled
<1>4. LinksOwned'
  BY <1>1 DEF CloudsInv, LinksOwned
<1>5. MeshesOwned'
  BY <1>1 DEF CloudsInv, MeshesOwned
<1>6. EditIndexes'
  BY <1>1 DEF CloudsInv, EditIndexes, Cached
<1> QED
  BY <1>2, <1>3, <1>4, <1>5, <1>6 DEF CloudsInv

(* An edit mesh is removed by the user, or its indexes are written again.     *)
LEMMA MeshesKeep ==
    ASSUME CloudsInv, NEW h \in helpers, PCV_OT_edit_update(h) \/ RemoveHelper(h)
    PROVE  CloudsInv'
<1>1. UNCHANGED <<Rest, cache, pcv, seq, manager>>
  BY DEF PCV_OT_edit_update, RemoveHelper
<1>2. IsHelper(h) /\ \A k \in helpers : IsHelper(k)
  BY DEF CloudsInv, CloudTypes
<1>3. \A g, k \in helpers : g.parent = k.parent /\ g.parent \in Alive => g = k
  BY DEF CloudsInv, MeshesOwned
<1>4. CASE helpers' \subseteq helpers
  BY <1>1, <1>2, <1>3, <1>4, MeshStepKeeps
<1>5. CASE helpers' = (helpers \ {h}) \union {[h EXCEPT !.synced = TRUE]}
  <2> DEFINE n == [h EXCEPT !.synced = TRUE]
  <2>1. IsHelper(n) /\ n.parent = h.parent /\ n.uuid = h.uuid /\ n.synced
    BY <1>2 DEF IsHelper
  <2> HIDE DEF n
  <2>2. helpers' = (helpers \ {h}) \union {n}
    BY <1>5 DEF n
  <2>3. \A g \in helpers' : IsHelper(g) /\ \E k \in helpers :
                 g.parent = k.parent /\ g.uuid = k.uuid /\ (g.synced \/ g = k)
    BY <1>2, <2>1, <2>2
  <2>4. \A g, k \in helpers' : g.parent = k.parent /\ g.parent \in Alive => g = k
    BY <1>3, <2>1, <2>2
  <2> QED
    BY <1>1, <2>3, <2>4, MeshStepKeeps
<1> QED
  BY <1>4, <1>5 DEF PCV_OT_edit_update, RemoveHelper

(* An edit begins.                                                            *)
LEMMA EditStartKeeps ==
    ASSUME CloudsInv, NEW o \in Objects, PCV_OT_edit_start(o)
    PROVE  CloudsInv'
<1> DEFINE p == [pcv[o] EXCEPT !.edit_initialized = TRUE, !.pre = pcv[o].alpha,
                               !.alpha = "overlay"]
           n == [parent |-> o, uuid |-> pcv[o].uuid, synced |-> TRUE]
<1>1. /\ o \in Alive /\ ~pcv[o].edit_initialized /\ pcv[o].uuid \in DOMAIN cache
      /\ cache' = cache /\ seq' = seq /\ manager' = manager
      /\ name' = name /\ sequence' = sequence /\ redrawn' = redrawn /\ Alive' = Alive
  BY DEF PCV_OT_edit_start, Panel, Drawn, Rest, Alive
<1>2. /\ DOMAIN pcv = Objects /\ IsPcv(pcv[o]) /\ IsCache(cache)
  BY DEF CloudsInv, CloudTypes
<1>3. helpers' = helpers \union {n}
  BY DEF PCV_OT_edit_start
<1>4. IsHelper(n) /\ n.parent = o /\ n.uuid = pcv[o].uuid /\ n.synced
  BY <1>1, <1>2 DEF IsHelper, IsCache
<1>5. pcv' = [pcv EXCEPT ![o] = p]
  BY <1>2 DEF PCV_OT_edit_start
<1>6. IsPcv(p) /\ p.uuid = pcv[o].uuid /\ p.edit_initialized
  BY <1>1, <1>2 DEF IsPcv
<1> HIDE DEF p, n
<1>7. IsChange(o, cache, p, manager')
  BY <1>1, <1>2, <1>6, NoChange
<1>8. /\ IsCache(cache') /\ DOMAIN pcv' = Objects /\ pcv' = [q \in Objects |-> pcv'[q]]
      /\ \A q \in Objects : IsPcv(pcv'[q])
      /\ NamesMean' /\ EntriesOwned'
      /\ \A u \in DOMAIN cache' : cache'[u].draw => manager'
  BY <1>1, <1>5, <1>7, ChangeKeeps
<1>9. CloudTypes'
  BY <1>1, <1>3, <1>4, <1>8 DEF CloudsInv, CloudTypes
<1>10. LinksOwned'
  BY <1>1, <1>3, <1>4 DEF CloudsInv, LinksOwned, EntriesOwned
<1>11. HandlersRun'
  BY <1>1 DEF CloudsInv, HandlersRun, Handled
<1>12. \A h \in helpers : h.parent # o
  BY <1>1 DEF CloudsInv, MeshesOwned
<1>13. pcv'[o] = p /\ \A q \in Objects \ {o} : pcv'[q] = pcv[q]
  BY <1>2, <1>5
<1>14. MeshesOwned'
  BY <1>1, <1>3, <1>4, <1>6, <1>12, <1>13 DEF CloudsInv, MeshesOwned, Alive
<1>15. EditIndexes'
  BY <1>1, <1>3, <1>4 DEF CloudsInv, EditIndexes, Cached
<1> QED
  BY <1>8, <1>9, <1>10, <1>11, <1>14, <1>15 DEF CloudsInv

(* The properties after an edit.                                              *)
LEMMA RestoredIs ==
    ASSUME NEW p, IsPcv(p), p.edit_initialized
    PROVE  IsPcv(Restored(p)) /\ Restored(p).uuid = p.uuid /\ ~Restored(p).edit_initialized
  BY DEF IsPcv, Restored

(* An edit ends.                                                              *)
LEMMA EditEndKeeps ==
    ASSUME CloudsInv, NEW h \in helpers, PCV_OT_edit_end(h)
    PROVE  CloudsInv'
<1> DEFINE o == h.parent
           p == Restored(pcv[o])
<1>0. UNCHANGED <<Rest, cache, seq, manager>>
  BY DEF PCV_OT_edit_end
<1>1. /\ cache' = cache /\ seq' = seq /\ manager' = manager
      /\ name' = name /\ sequence' = sequence /\ redrawn' = redrawn /\ Alive' = Alive
  BY <1>0 DEF Rest, Alive
<1>2. helpers' \subseteq helpers
  BY DEF PCV_OT_edit_end
<1>3. CASE pcv' = pcv
  <2>1. UNCHANGED <<Rest, cache, pcv, seq, manager>>
    BY <1>0, <1>3
  <2>2. \A k \in helpers : IsHelper(k)
    BY DEF CloudsInv, CloudTypes
  <2>3. \A g, k \in helpers : g.parent = k.parent /\ g.parent \in Alive => g = k
    BY DEF CloudsInv, MeshesOwned
  <2> QED
    BY <1>2, <2>1, <2>2, <2>3, MeshStepKeeps
<1>4. CASE o \in Alive /\ helpers' = helpers \ {h} /\ pcv' = [pcv EXCEPT ![o] = p]
  <2>1. /\ o \in Objects /\ DOMAIN pcv = Objects /\ IsPcv(pcv[o])
        /\ pcv[o].edit_initialized /\ pcv[o].uuid = h.uuid
    BY <1>4 DEF Alive, CloudsInv, CloudTypes, MeshesOwned
  <2>2. IsPcv(p) /\ p.uuid = pcv[o].uuid /\ ~p.edit_initialized
    BY <2>1, RestoredIs
  <2> HIDE DEF p
  <2>3. IsChange(o, cache, p, manager')
    BY <1>1, <1>4, <2>2, NoChange
  <2>4. /\ IsCache(cache') /\ DOMAIN pcv' = Objects /\ pcv' = [q \in Objects |-> pcv'[q]]
        /\ \A q \in Objects : IsPcv(pcv'[q])
        /\ NamesMean' /\ EntriesOwned'
        /\ \A u \in DOMAIN cache' : cache'[u].draw => manager'
    BY <1>1, <1>4, <2>3, ChangeKeeps
  <2>5. CloudTypes'
    BY <1>1, <1>2, <2>4 DEF CloudsInv, CloudTypes
  <2>6. LinksOwned' /\ HandlersRun'
    BY <1>1, <1>2 DEF CloudsInv, LinksOwned, HandlersRun, Handled
  <2>7. \A k \in helpers' : k.parent # o
    BY <1>4 DEF CloudsInv, MeshesOwned
  <2>8. \A q \in Objects \ {o} : pcv'[q] = pcv[q]
    BY <1>4, <2>1
  <2>9. MeshesOwned'
    BY <1>1, <1>2, <2>7, <2>8 DEF CloudsInv, MeshesOwned, Alive
  <2>10. EditIndexes'
    BY <1>1, <1>2 DEF CloudsInv, EditIndexes, Cached
  <2> QED
    BY <2>4, <2>5, <2>6, <2>9, <2>10 DEF CloudsInv
<1> QED
  BY <1>3, <1>4 DEF PCV_OT_edit_end

(* An edit is cancelled: its mesh goes, the cloud may be loaded again.        *)
LEMMA EditCancelKeeps ==
    ASSUME CloudsInv, NEW o \in Objects, PCV_OT_edit_cancel(o)
    PROVE  CloudsInv'
<1> DEFINE p == Restored(pcv[o])
           hs == {h \in helpers : ~(h.parent = o /\ h.uuid = pcv[o].uuid)}
<1>1. /\ o \in Alive /\ pcv[o].edit_initialized /\ Unused(cache, o) # {}
      /\ seq' = seq /\ manager' = manager
      /\ name' = name /\ sequence' = sequence /\ redrawn' = redrawn /\ Alive' = Alive
      /\ helpers' = Replaced(hs, pcv[o].uuid)
  BY DEF PCV_OT_edit_cancel, Rest, Alive
<1>2. /\ DOMAIN pcv = Objects /\ IsPcv(pcv[o]) /\ \A k \in hs : k \in helpers /\ IsHelper(k)
  BY DEF CloudsInv, CloudTypes
<1>3. IsPcv(p) /\ p.uuid = pcv[o].uuid /\ ~p.edit_initialized
  BY <1>1, <1>2, RestoredIs
<1>4. PICK r : /\ r \in reload(cache, p, o) \/ r = <<cache, p>>
               /\ cache' = r[1] /\ pcv' = [pcv EXCEPT ![o] = r[2]]
  BY DEF PCV_OT_edit_cancel, Becomes
<1> HIDE DEF p
<1>5. IsChange(o, r[1], r[2], manager) /\ ~r[2].edit_initialized
  <2>1. CASE r \in reload(cache, p, o)
    BY <1>1, <1>3, <2>1, ReloadChanges
  <2>2. CASE r = <<cache, p>>
    <3>1. IsChange(o, cache, p, manager)
      BY <1>1, <1>3, NoChange
    <3> QED
      BY <1>3, <2>2, <3>1
  <2> QED
    BY <1>4, <2>1, <2>2
<1>6. /\ IsCache(cache') /\ DOMAIN pcv' = Objects /\ pcv' = [q \in Objects |-> pcv'[q]]
      /\ \A q \in Objects : IsPcv(pcv'[q])
      /\ NamesMean' /\ EntriesOwned'
      /\ \A u \in DOMAIN cache' : cache'[u].draw => manager'
  BY <1>1, <1>4, <1>5, ChangeKeeps
<1>7. \A k \in hs : k.parent # o
  BY <1>1 DEF CloudsInv, MeshesOwned
<1>8. /\ \A h \in helpers' : IsHelper(h)
      /\ \A h \in helpers' : \E k \in hs :
            /\ h.parent = k.parent /\ h.uuid = k.uuid
            /\ h = IF k.uuid = pcv[o].uuid THEN [k EXCEPT !.synced = FALSE] ELSE k
  BY <1>1, <1>2, ReplacedIs
<1> HIDE DEF hs
<1>9. CloudTypes'
  BY <1>1, <1>6, <1>8 DEF CloudsInv, CloudTypes
<1>10. LinksOwned'
  BY <1>1, <1>2, <1>4, <1>5, <1>8 DEF CloudsInv, LinksOwned, IsChange, Fresh
<1>11. HandlersRun'
  BY <1>1, <1>6 DEF CloudsInv, HandlersRun, Handled
<1>12. \A q \in Objects \ {o} : pcv'[q] = pcv[q]
  BY <1>2, <1>4
<1>13. MeshesOwned'
  <2>1. ASSUME NEW h \in helpers', h.parent \in Alive
        PROVE  pcv'[h.parent].edit_initialized /\ pcv'[h.parent].uuid = h.uuid
    <3>1. PICK k \in hs : h.parent = k.parent /\ h.uuid = k.uuid
      BY <1>8
    <3> QED
      BY <1>2, <1>7, <1>12, <2>1, <3>1 DEF CloudsInv, MeshesOwned, Alive
  <2>2. ASSUME NEW h \in helpers', NEW k \in helpers', h.parent = k.parent, h.parent \in Alive
        PROVE  h = k
    <3>1. PICK h0 \in hs : /\ h.parent = h0.parent /\ h.uuid = h0.uuid
                           /\ h = IF h0.uuid = pcv[o].uuid
                                  THEN [h0 EXCEPT !.synced = FALSE] ELSE h0
      BY <1>8
    <3>2. PICK k0 \in hs : /\ k.parent = k0.parent /\ k.uuid = k0.uuid
                           /\ k = IF k0.uuid = pcv[o].uuid
                                  THEN [k0 EXCEPT !.synced = FALSE] ELSE k0
      BY <1>8
    <3>3. h0 = k0
      <4>1. h0 \in helpers /\ k0 \in helpers /\ h0.parent = k0.parent /\ h0.parent \in Alive
        BY <1>2, <2>2, <3>1, <3>2
      <4> QED
        BY <4>1 DEF CloudsInv, MeshesOwned
    <3> QED
      BY <3>1, <3>2, <3>3
  <2> QED
    BY <1>1, <2>1, <2>2 DEF MeshesOwned
<1>14. EditIndexes'
  <2> SUFFICES ASSUME NEW h \in helpers', h.uuid \in DOMAIN cache'
               PROVE  h.synced \/ \E i \in DOMAIN seq : seq[i].uuid = h.uuid
    BY <1>1 DEF EditIndexes, Cached
  <2>1. PICK k \in hs : /\ h.parent = k.parent /\ h.uuid = k.uuid
                        /\ h = IF k.uuid = pcv[o].uuid THEN [k EXCEPT !.synced = FALSE] ELSE k
    BY <1>8
  <2>2. k \in helpers /\ k.uuid \in DOMAIN cache
    BY <1>2, <1>4, <1>5, <2>1 DEF IsChange, Fresh
  <2>3. k.uuid # pcv[o].uuid
    BY <1>7, <2>2 DEF CloudsInv, EntriesOwned, LinksOwned
  <2> QED
    BY <2>1, <2>2, <2>3 DEF CloudsInv, EditIndexes, Cached
<1> QED
  BY <1>6, <1>9, <1>10, <1>11, <1>13, <1>14 DEF CloudsInv
-----------------------------------------------------------------------------
(* The draw handler drops the entries of objects that are gone or renamed.    *)
LEMMA HandlerKeeps ==
    ASSUME CloudsInv, handler
    PROVE  CloudsInv'
<1> DEFINE D == {v \in DOMAIN cache : \E o \in Alive : name[o] = cache[v].name}
<1>1. /\ manager /\ pcv' = pcv /\ name' = name /\ helpers' = helpers /\ seq' = seq
      /\ manager' = manager /\ sequence' = sequence /\ Alive' = Alive
  BY DEF handler, Alive
<1>2. cache' = [u \in D |-> cache[u]]
  BY DEF handler
<1>3. DOMAIN cache' = D /\ \A u \in D : cache'[u] = cache[u]
  BY <1>2
<1>4. \A u \in D : u \in DOMAIN cache /\ cache[u].obj \in Alive
  BY DEF CloudsInv, NamesMean
<1> HIDE DEF D
<1>5. CloudTypes'
  BY <1>1, <1>3, <1>4 DEF CloudsInv, CloudTypes, IsCache
<1>6. NamesMean'
  BY <1>1, <1>3, <1>4 DEF CloudsInv, NamesMean
<1>7. EntriesOwned'
  BY <1>1, <1>3, <1>4 DEF CloudsInv, EntriesOwned
<1>8. LinksOwned' /\ HandlersRun' /\ MeshesOwned'
  BY <1>1, <1>3, <1>4 DEF CloudsInv, LinksOwned, HandlersRun, Handled, MeshesOwned
<1>9. EditIndexes'
  BY <1>1, <1>3, <1>4 DEF CloudsInv, EditIndexes, Cached
<1> QED
  BY <1>5, <1>6, <1>7, <1>8, <1>9 DEF CloudsInv

(* An object is removed: its entries wait for the next redraw.                *)
LEMMA RemoveKeeps ==
    ASSUME CloudsInv, NEW o \in Objects, RemoveObject(o)
    PROVE  CloudsInv'
<1>1. /\ o \in Alive /\ redrawn /\ redrawn' = ~manager
      /\ name' = [name EXCEPT ![o] = 0] /\ pcv' = [pcv EXCEPT ![o] = Default]
      /\ cache' = cache /\ helpers' = helpers /\ seq' = seq
      /\ manager' = manager /\ sequence' = sequence
  BY DEF RemoveObject
<1>2. /\ DOMAIN pcv = Objects /\ name \in [Objects -> Names \union {0}] /\ IsCache(cache)
  BY DEF CloudsInv, CloudTypes
<1>3. Alive' = Alive \ {o}
  BY <1>1, <1>2 DEF Alive
<1>4. /\ IsPcv(Default) /\ Default.uuid = 0 /\ 0 \notin DOMAIN cache
  BY <1>2, CloudsAssumption DEF IsPcv, Default, IsCache
<1>5. pcv'[o] = Default /\ \A q \in Objects \ {o} : pcv'[q] = pcv[q] /\ name'[q] = name[q]
  BY <1>1, <1>2
<1>6. CloudTypes'
  <2>1. DOMAIN pcv' = Objects /\ pcv' = [q \in Objects |-> pcv'[q]]
    BY <1>1, <1>2
  <2>2. \A q \in Objects : IsPcv(pcv'[q])
    BY <1>4, <1>5 DEF CloudsInv, CloudTypes
  <2>3. name' \in [Objects -> Names \union {0}]
    BY <1>1, <1>2
  <2> QED
    BY <1>1, <2>1, <2>2, <2>3 DEF CloudsInv, CloudTypes
<1>7. NamesMean'
  BY <1>1, <1>3, <1>5 DEF CloudsInv, NamesMean, Alive
<1>8. EntriesOwned'
  <2>1. \A q \in Objects : pcv'[q].uuid \in DOMAIN cache => cache[pcv'[q].uuid].obj = q
    BY <1>4, <1>5 DEF CloudsInv, EntriesOwned
  <2>2. \A u \in DOMAIN cache : cache[u].draw /\ cache[u].obj \in Alive \ {o} =>
                                   pcv'[cache[u].obj].uuid = u
    BY <1>5 DEF CloudsInv, EntriesOwned, Alive
  <2>3. ~manager => \A u \in DOMAIN cache : ~cache[u].draw
    BY DEF CloudsInv, HandlersRun, Handled
  <2> QED
    BY <1>1, <1>3, <2>1, <2>2, <2>3 DEF EntriesOwned
<1>9. LinksOwned' /\ HandlersRun'
  BY <1>1 DEF CloudsInv, LinksOwned, HandlersRun, Handled
<1>10. MeshesOwned'
  BY <1>1, <1>3, <1>5 DEF CloudsInv, MeshesOwned, Alive
<1>11. EditIndexes'
  BY <1>1 DEF CloudsInv, EditIndexes, Cached
<1> QED
  BY <1>6, <1>7, <1>8, <1>9, <1>10, <1>11 DEF CloudsInv

(* An object is renamed.                                                      *)
LEMMA RenameKeeps ==
    ASSUME CloudsInv, NEW o \in Objects, RenameObject(o)
    PROVE  CloudsInv'
<1>1. /\ o \in Alive /\ redrawn /\ redrawn' = ~manager
      /\ cache' = cache /\ pcv' = pcv /\ helpers' = helpers /\ seq' = seq
      /\ manager' = manager /\ sequence' = sequence
  BY DEF RenameObject
<1>2. PICK n \in Names :
         /\ \A q \in Alive : name[q] # n
         /\ \A u \in DOMAIN cache : cache[u].name = n => cache[u].obj = o
         /\ name' = [name EXCEPT ![o] = n]
  BY DEF RenameObject
<1>3. name \in [Objects -> Names \union {0}] /\ n # 0
  BY CloudsAssumption DEF CloudsInv, CloudTypes
<1>4. /\ name' \in [Objects -> Names \union {0}] /\ name'[o] = n
      /\ \A q \in Objects \ {o} : name'[q] = name[q]
  BY <1>2, <1>3
<1>5. Alive' = Alive
  BY <1>1, <1>3, <1>4 DEF Alive
<1>6. CloudTypes'
  BY <1>1, <1>4 DEF CloudsInv, CloudTypes
<1>7. NamesMean'
  BY <1>1, <1>2, <1>4, <1>5 DEF CloudsInv, NamesMean, Alive
<1>8. EntriesOwned' /\ LinksOwned' /\ HandlersRun' /\ MeshesOwned' /\ EditIndexes'
  BY <1>1, <1>5 DEF CloudsInv, EntriesOwned, LinksOwned, HandlersRun, Handled, MeshesOwned,
                    EditIndexes, Cached
<1> QED
  BY <1>6, <1>7, <1>8 DEF CloudsInv

(* The file is opened again: without the manager there was nothing drawn and  *)
(* no sequence, with it both caches are emptied.                              *)
LEMMA ReopenKeeps ==
    ASSUME CloudsInv, Reopen
    PROVE  CloudsInv'
<1>1. /\ pcv' = pcv /\ name' = name /\ helpers' = helpers /\ redrawn' = redrawn /\ Alive' = Alive
  BY DEF Reopen, Alive
<1>2. DOMAIN sequence' = {"initialized", "registered"}
  BY DEF Reopen, watcher, SequenceOff, CloudsInv, CloudTypes
<1>3. CASE manager
  <2>1. cache' = << >> /\ seq' = << >> /\ DOMAIN cache' = {} /\ DOMAIN seq' = {}
    BY <1>3 DEF Reopen, watcher
  <2>2. CloudTypes'
    BY <1>1, <1>2, <2>1 DEF CloudsInv, CloudTypes, IsCache
  <2>3. ~sequence'.initialized
    BY <1>3 DEF Reopen, watcher, SequenceOff
  <2> QED
    BY <1>1, <2>1, <2>2, <2>3 DEF CloudsInv, NamesMean, EntriesOwned, LinksOwned, HandlersRun, Handled,
                            MeshesOwned, EditIndexes, Cached
<1>4. CASE ~manager
  <2>1. cache' = cache /\ seq' = seq /\ manager' = manager
    BY <1>4 DEF Reopen, watcher
  <2>2. seq = << >> /\ \A u \in DOMAIN cache : ~cache[u].draw
    BY <1>4 DEF CloudsInv, HandlersRun, Handled
  <2>3. CloudTypes'
    BY <1>1, <1>2, <2>1 DEF CloudsInv, CloudTypes
  <2>4. HandlersRun'
    <3>1. sequence' = [sequence EXCEPT !.registered = FALSE] /\ ~sequence.initialized
      BY <1>4 DEF Reopen, watcher, CloudsInv, HandlersRun
    <3>2. ~sequence'.initialized
      BY <3>1 DEF CloudsInv, CloudTypes
    <3> QED
      BY <2>1, <2>2, <3>2 DEF HandlersRun, Handled
  <2> QED
    BY <1>1, <2>1, <2>3, <2>4 DEF CloudsInv, NamesMean, EntriesOwned, LinksOwned, MeshesOwned,
                                  EditIndexes, Cached
<1> QED
  BY <1>3, <1>4
-----------------------------------------------------------------------------
(* A sequence without its i-th element.                                       *)
LEMMA RemoveAtIs ==
    ASSUME NEW S, NEW c \in Seq(S), NEW i \in 1 .. Len(c)
    PROVE  /\ RemoveAt(c, i) \in Seq(S) /\ Len(RemoveAt(c, i)) = Len(c) - 1
           /\ \A k \in 1 .. Len(c) - 1 : RemoveAt(c, i)[k] = c[IF k < i THEN k ELSE k + 1]
<1> DEFINE a == SubSeq(c, 1, i - 1)
           b == SubSeq(c, i + 1, Len(c))
<1>1. a \in Seq(S) /\ Len(a) = i - 1 /\ \A k \in 1 .. i - 1 : a[k] = c[k]
  OBVIOUS
<1>2. b \in Seq(S) /\ Len(b) = Len(c) - i /\ \A k \in 1 .. Len(c) - i : b[k] = c[i + k]
  OBVIOUS
<1>3. RemoveAt(c, i) = a \o b
  BY DEF RemoveAt
<1> HIDE DEF a, b
<1>4. /\ a \o b \in Seq(S) /\ Len(a \o b) = Len(c) - 1
      /\ \A k \in 1 .. Len(c) - 1 : (a \o b)[k] = IF k < i THEN a[k] ELSE b[k - (i - 1)]
  <2>1. /\ a \o b \in Seq(S) /\ Len(a \o b) = Len(a) + Len(b)
        /\ \A k \in 1 .. Len(a) + Len(b) : (a \o b)[k] = IF k <= Len(a) THEN a[k] ELSE b[k - Len(a)]
    BY <1>1, <1>2, ConcatProperties
  <2>2. Len(a) + Len(b) = Len(c) - 1 /\ \A k \in Int : k <= Len(a) <=> k < i
    BY <1>1, <1>2
  <2>3. ASSUME NEW k \in 1 .. Len(c) - 1
        PROVE  (a \o b)[k] = IF k < i THEN a[k] ELSE b[k - (i - 1)]
    <3>1. k \in 1 .. Len(a) + Len(b)
      BY <2>2
    <3>2. (a \o b)[k] = IF k <= Len(a) THEN a[k] ELSE b[k - Len(a)]
      BY <2>1, <3>1
    <3>3. Len(a) = i - 1 /\ (k <= Len(a) <=> k < i)
      BY <1>1, <2>2
    <3> QED
      BY <3>2, <3>3
  <2> QED
    BY <2>1, <2>2, <2>3
<1>5. ASSUME NEW k \in 1 .. Len(c) - 1
      PROVE  (a \o b)[k] = c[IF k < i THEN k ELSE k + 1]
  <2>1. CASE k < i
    BY <1>1, <1>4, <2>1
  <2>2. CASE ~(k < i)
    <3>1. k - (i - 1) \in 1 .. Len(c) - i /\ i + (k - (i - 1)) = k + 1
      BY <2>2
    <3> QED
      BY <1>2, <1>4, <2>2, <3>1
  <2> QED
    BY <2>1, <2>2
<1> QED
  BY <1>3, <1>4, <1>5

(* The same in terms of its elements: nothing new, the others still there,    *)
(* and those before it at their places.                                       *)
LEMMA RemoveAtKeeps ==
    ASSUME NEW S, NEW c \in Seq(S), NEW i \in 1 .. Len(c)
    PROVE  LET d == RemoveAt(c, i)
           IN  /\ d \in Seq(S) /\ Len(d) = Len(c) - 1
               /\ \A k \in DOMAIN d : \E j \in DOMAIN c : d[k] = c[j]
               /\ \A j \in DOMAIN c \ {i} : \E k \in DOMAIN d : d[k] = c[j]
               /\ \A j \in 1 .. i - 1 : j \in DOMAIN d /\ d[j] = c[j]
<1> DEFINE d == RemoveAt(c, i)
<1>1. /\ d \in Seq(S) /\ Len(d) = Len(c) - 1
      /\ \A k \in 1 .. Len(c) - 1 : d[k] = c[IF k < i THEN k ELSE k + 1]
  BY RemoveAtIs
<1> HIDE DEF d
<1>2. DOMAIN d = 1 .. Len(c) - 1 /\ DOMAIN c = 1 .. Len(c) /\ Len(c) \in Nat
  BY <1>1
<1>3. ASSUME NEW k \in DOMAIN d PROVE \E j \in DOMAIN c : d[k] = c[j]
  <2>1. (IF k < i THEN k ELSE k + 1) \in DOMAIN c
    BY <1>2
  <2> QED
    BY <1>1, <1>2, <2>1
<1>4. ASSUME NEW j \in DOMAIN c \ {i} PROVE \E k \in DOMAIN d : d[k] = c[j]
  <2>1. CASE j < i
    <3>1. j \in 1 .. Len(c) - 1
      BY <1>2, <2>1
    <3>2. d[j] = c[j]
      BY <1>1, <2>1, <3>1
    <3> QED
      BY <1>2, <3>1, <3>2
  <2>2. CASE j > i
    <3>1. j - 1 \in DOMAIN d /\ ~(j - 1 < i) /\ (j - 1) + 1 = j
      BY <1>2, <2>2
    <3>2. d[j - 1] = c[j]
      BY <1>1, <1>2, <3>1
    <3> QED
      BY <3>1, <3>2
  <2> QED
    BY <1>2, <2>1, <2>2
<1>5. ASSUME NEW j \in 1 .. i - 1 PROVE j \in DOMAIN d /\ d[j] = c[j]
  BY <1>1, <1>2
<1> QED
  BY <1>1, <1>3, <1>4, <1>5 DEF d

(* f are the states of the loop of PCVSequence.handler up to round n.         *)
IsLoop(frame, n, f) ==
    f = [i \in 0 .. n |-> IF i = 0 THEN HandlerStart(frame) ELSE HandlerStep(f[i - 1], i)]

(* The rounds can be run one after the other.                                 *)
LEMMA LoopExists ==
    ASSUME NEW frame, NEW n \in Nat
    PROVE  \E f : IsLoop(frame, n, f)
<1> DEFINE T == {m \in Nat : ~\E f : IsLoop(frame, m, f)}
<1> SUFFICES ASSUME T # {} PROVE FALSE
  OBVIOUS
<1>1. PICK m \in T : \A k \in T : m <= k
  BY LeastOf
<1>2. CASE m = 0
  <2> DEFINE f == [i \in 0 .. 0 |-> HandlerStart(frame)]
  <2>1. IsLoop(frame, 0, f)
    BY DEF IsLoop
  <2> QED
    BY <1>1, <1>2, <2>1
<1>3. CASE m # 0
  <2>1. m - 1 \in Nat /\ m - 1 \notin T
    BY <1>1, <1>3
  <2>2. PICK g : IsLoop(frame, m - 1, g)
    BY <2>1
  <2> DEFINE f == [i \in 0 .. m |-> IF i = m THEN HandlerStep(g[m - 1], m) ELSE g[i]]
  <2>3. m \in Nat /\ m > 0
    BY <1>1, <1>3
  <2>4. ASSUME NEW i \in 0 .. m
        PROVE  f[i] = IF i = 0 THEN HandlerStart(frame) ELSE HandlerStep(f[i - 1], i)
    <3>1. CASE i = m
      <4>1. m - 1 \in 0 .. m /\ m - 1 # m
        BY <2>3
      <4>2. f[m - 1] = g[m - 1] /\ f[i] = HandlerStep(g[m - 1], m)
        BY <3>1, <4>1
      <4> QED
        BY <2>3, <3>1, <4>2
    <3>2. CASE i # m
      <4>1. i \in 0 .. m - 1 /\ f[i] = g[i]
        BY <2>3, <3>2
      <4>2. g[i] = IF i = 0 THEN HandlerStart(frame) ELSE HandlerStep(g[i - 1], i)
        <5> HIDE DEF f
        <5> QED
          BY <2>2, <4>1 DEF IsLoop
      <4>3. i # 0 => f[i - 1] = g[i - 1]
        BY <2>3, <3>2, <4>1
      <4> QED
        BY <4>1, <4>2, <4>3
    <3> QED
      BY <3>1, <3>2
  <2>5. f = [i \in 0 .. m |-> f[i]]
    OBVIOUS
  <2>6. IsLoop(frame, m, f)
    <3> HIDE DEF f
    <3> QED
      BY <2>4, <2>5, Zenon DEF IsLoop
  <2> QED
    BY <1>1, <2>6
<1> QED
  BY <1>2, <1>3
(* Two items of the same sequence of clouds, whatever file they show.         *)
SameItem(a, b) == a.uuid = b.uuid /\ a.obj = b.obj /\ a.items = b.items

(* Sequence n and all before it can be played, and those before it are not    *)
(* cyclic: the precondition of FrameShown.                                    *)
Plays(n) == \A j \in 1 .. n : Playable(j) /\ (j < n => seq[j].obj \notin Cyclic)

(* What is true of the loop st after i rounds.  While it runs, every item is  *)
(* at its place.  Later an item may be missing, but only one whose object     *)
(* names another cloud.  The items that were played show the right file.      *)
RoundOK(frame, i, st) ==
    /\ DOMAIN st = {"cf", "seq", "ended", "init", "replaced"}
    /\ st.cf \in Nat /\ st.seq \in Seq(Items)
    /\ ~st.ended => /\ Len(st.seq) = Len(seq)
                    /\ \A j \in 1 .. Len(seq) : SameItem(st.seq[j], seq[j])
    /\ \A k \in DOMAIN st.seq : \E j \in DOMAIN seq : SameItem(st.seq[k], seq[j])
    /\ \A j \in DOMAIN seq : (seq[j].obj \in Alive => pcv[seq[j].obj].uuid = seq[j].uuid) =>
           \E k \in DOMAIN st.seq : st.seq[k].uuid = seq[j].uuid
    /\ \A u \in st.replaced : /\ u \in DOMAIN cache /\ pcv[cache[u].obj].uuid = u
                              /\ \E k \in DOMAIN st.seq : st.seq[k].uuid = u
    /\ \A n \in 1 .. i : Plays(n) =>
           /\ n \in DOMAIN st.seq
           /\ st.seq[n].shown = FileOfFrame(frame, seq[n].obj, seq[n].items)
    /\ (\A j \in 1 .. i : Playable(j) /\ seq[j].obj \notin Cyclic) => ~st.ended /\ st.cf = frame

(* Before the first round.                                                    *)
LEMMA LoopStarts ==
    ASSUME CloudsInv, NEW frame \in 1 .. MaxFrame
    PROVE  RoundOK(frame, 0, HandlerStart(frame))
<1> DEFINE st == HandlerStart(frame)
<1>1. /\ st = [cf |-> frame, seq |-> seq, ended |-> FALSE, init |-> FALSE, replaced |-> {}]
      /\ seq \in Seq(Items)
  BY DEF HandlerStart, CloudsInv, CloudTypes
<1> HIDE DEF st
<1>2. /\ DOMAIN st = {"cf", "seq", "ended", "init", "replaced"}
      /\ st.cf = frame /\ st.seq = seq /\ ~st.ended /\ st.replaced = {}
  BY <1>1
<1>3. frame \in Nat
  BY CloudsAssumption
<1>4. RoundOK(frame, 0, st)
  BY <1>1, <1>2, <1>3 DEF RoundOK, SameItem
<1> QED
  BY <1>4 DEF st

(* A round that ends the loop: by an exception, or dropping its item.         *)
LEMMA EndingRound ==
    ASSUME CloudsInv, NEW frame \in 1 .. MaxFrame, NEW i \in 1 .. Len(seq),
           NEW st, RoundOK(frame, i - 1, st), NEW q,
           DOMAIN q = {"cf", "seq", "ended", "init", "replaced"}, q.ended,
           q.cf = st.cf, q.replaced = st.replaced, ~Playable(i),
           \/ q.seq = st.seq
           \/ /\ ~st.ended /\ q.seq = RemoveAt(st.seq, i)
              /\ seq[i].obj \in Alive /\ pcv[seq[i].obj].uuid # seq[i].uuid
    PROVE  RoundOK(frame, i, q)
<1>1. ~Plays(i)
  BY DEF Plays
<1>2. \A n \in 1 .. i : n \in 1 .. i - 1 \/ n = i
  OBVIOUS
<1>3. ~(\A j \in 1 .. i : Playable(j) /\ seq[j].obj \notin Cyclic)
  OBVIOUS
<1>4. /\ st.cf \in Nat /\ st.seq \in Seq(Items)
      /\ \A k \in DOMAIN st.seq : \E j \in DOMAIN seq : SameItem(st.seq[k], seq[j])
      /\ \A j \in DOMAIN seq : (seq[j].obj \in Alive => pcv[seq[j].obj].uuid = seq[j].uuid) =>
             \E k \in DOMAIN st.seq : st.seq[k].uuid = seq[j].uuid
      /\ \A u \in st.replaced : /\ u \in DOMAIN cache /\ pcv[cache[u].obj].uuid = u
                                /\ \E k \in DOMAIN st.seq : st.seq[k].uuid = u
      /\ \A n \in 1 .. i - 1 : Plays(n) =>
             /\ n \in DOMAIN st.seq
             /\ st.seq[n].shown = FileOfFrame(frame, seq[n].obj, seq[n].items)
  BY DEF RoundOK
<1>5. CASE q.seq = st.seq
  <2>1. \A n \in 1 .. i : Plays(n) =>
             /\ n \in DOMAIN q.seq
             /\ q.seq[n].shown = FileOfFrame(frame, seq[n].obj, seq[n].items)
    BY <1>1, <1>2, <1>4, <1>5
  <2> QED
    BY <1>3, <1>4, <1>5, <2>1 DEF RoundOK
<1>6. CASE /\ ~st.ended /\ q.seq = RemoveAt(st.seq, i)
           /\ seq[i].obj \in Alive /\ pcv[seq[i].obj].uuid # seq[i].uuid
  <2> DEFINE d == q.seq
  <2>1. Len(st.seq) = Len(seq) /\ \A j \in 1 .. Len(seq) : SameItem(st.seq[j], seq[j])
    BY <1>6 DEF RoundOK
  <2>2. /\ d \in Seq(Items)
        /\ \A k \in DOMAIN d : \E j \in DOMAIN st.seq : d[k] = st.seq[j]
        /\ \A j \in DOMAIN st.seq \ {i} : \E k \in DOMAIN d : d[k] = st.seq[j]
        /\ \A j \in 1 .. i - 1 : j \in DOMAIN d /\ d[j] = st.seq[j]
    <3> DEFINE c == st.seq
               e == RemoveAt(c, i)
    <3>1. c \in Seq(Items) /\ i \in 1 .. Len(c)
      BY <1>4, <2>1
    <3> HIDE DEF c
    <3>2. /\ e \in Seq(Items)
          /\ \A k \in DOMAIN e : \E j \in DOMAIN c : e[k] = c[j]
          /\ \A j \in DOMAIN c \ {i} : \E k \in DOMAIN e : e[k] = c[j]
          /\ \A j \in 1 .. i - 1 : j \in DOMAIN e /\ e[j] = c[j]
      BY <3>1, RemoveAtKeeps
    <3>3. d = e
      BY <1>6 DEF c
    <3> HIDE DEF e, d
    <3> QED
      BY <3>2, <3>3 DEF c
  <2>3. DOMAIN st.seq = 1 .. Len(seq) /\ DOMAIN seq = 1 .. Len(seq)
    BY <1>4, <2>1 DEF CloudsInv, CloudTypes
  <2> HIDE DEF d
  <2>4. \A k \in DOMAIN d : \E j \in DOMAIN seq : SameItem(d[k], seq[j])
    BY <1>4, <2>2
  <2>5. ASSUME NEW j \in DOMAIN seq, seq[j].obj \in Alive => pcv[seq[j].obj].uuid = seq[j].uuid
        PROVE  \E k \in DOMAIN d : d[k].uuid = seq[j].uuid
    <3>1. j # i
      BY <1>6, <2>5
    <3>2. PICK k \in DOMAIN d : d[k] = st.seq[j]
      BY <2>2, <2>3, <3>1
    <3> QED
      BY <2>1, <2>3, <3>2 DEF SameItem
  <2>6. ASSUME NEW u \in st.replaced PROVE \E k \in DOMAIN d : d[k].uuid = u
    <3>1. PICK k \in DOMAIN st.seq : st.seq[k].uuid = u
      BY <1>4
    <3>2. k # i
      <4>1. u \in DOMAIN cache /\ pcv[cache[u].obj].uuid = u
        BY <1>4
      <4>2. ASSUME k = i PROVE FALSE
        <5>1. seq[i].uuid = u
          BY <2>1, <3>1, <4>2 DEF SameItem
        <5>2. cache[u].obj = seq[i].obj
          BY <2>3, <4>1, <5>1 DEF CloudsInv, LinksOwned
        <5> QED
          BY <1>6, <4>1, <5>1, <5>2
      <4> QED
        BY <4>2
    <3> QED
      BY <2>2, <3>1, <3>2
  <2>7. ASSUME NEW n \in 1 .. i, Plays(n)
        PROVE  n \in DOMAIN d /\ d[n].shown = FileOfFrame(frame, seq[n].obj, seq[n].items)
    BY <1>1, <1>2, <1>4, <2>2, <2>7
  <2> QED
    BY <1>3, <1>4, <2>2, <2>4, <2>5, <2>6, <2>7 DEF RoundOK, d
<1> QED
  BY <1>5, <1>6
(* The file that a round shows is the file of the frame.                      *)
LEMMA FileIsShown ==
    ASSUME NEW frame \in Nat \ {0}, NEW o, NEW items \in Nat \ {0}
    PROVE  LET cf == IF o \in Cyclic /\ items > 0 THEN frame % items ELSE frame
           IN  (IF cf > items THEN 0 ELSE ItemAt(cf, items)) = FileOfFrame(frame, o, items)
<1>1. CASE o \in Cyclic
  <2>1. frame % items \in Nat /\ frame % items < items
    OBVIOUS
  <2> QED
    BY <1>1, <2>1 DEF ItemAt, FileOfFrame
<1>2. CASE o \notin Cyclic
  BY <1>2 DEF ItemAt, FileOfFrame
<1> QED
  BY <1>1, <1>2

(* The loop after a round that shows item i.                                  *)
Played(st, i) ==
    LET items == seq[i].items
        cf == IF seq[i].obj \in Cyclic /\ items > 0 THEN st.cf % items ELSE st.cf
    IN [st EXCEPT !.cf = cf, !.init = TRUE,
                  !.seq[i].shown = IF cf > items THEN 0 ELSE ItemAt(cf, items),
                  !.replaced = @ \union {seq[i].uuid}]

(* Such a round.                                                              *)
LEMMA PlayingRound ==
    ASSUME CloudsInv, NEW frame \in 1 .. MaxFrame, NEW i \in 1 .. Len(seq),
           NEW st, RoundOK(frame, i - 1, st), ~st.ended,
           seq[i].uuid \in DOMAIN cache, pcv[seq[i].obj].uuid = seq[i].uuid
    PROVE  RoundOK(frame, i, Played(st, i))
<1> DEFINE cf == IF seq[i].obj \in Cyclic /\ seq[i].items > 0 THEN st.cf % seq[i].items
                 ELSE st.cf
           x == IF cf > seq[i].items THEN 0 ELSE ItemAt(cf, seq[i].items)
           q == Played(st, i)
<1>0. q = [st EXCEPT !.cf = cf, !.init = TRUE, !.seq[i].shown = x,
                     !.replaced = st.replaced \union {seq[i].uuid}]
  BY Zenon DEF Played
<1> HIDE DEF q
<1>1. /\ DOMAIN st = {"cf", "seq", "ended", "init", "replaced"}
      /\ st.cf \in Nat /\ st.seq \in Seq(Items) /\ Len(st.seq) = Len(seq)
      /\ \A j \in 1 .. Len(seq) : SameItem(st.seq[j], seq[j])
      /\ \A u \in st.replaced : /\ u \in DOMAIN cache /\ pcv[cache[u].obj].uuid = u
                                /\ \E k \in DOMAIN st.seq : st.seq[k].uuid = u
      /\ \A n \in 1 .. i - 1 : Plays(n) =>
             /\ n \in DOMAIN st.seq
             /\ st.seq[n].shown = FileOfFrame(frame, seq[n].obj, seq[n].items)
      /\ (\A j \in 1 .. i - 1 : Playable(j) /\ seq[j].obj \notin Cyclic) => st.cf = frame
  BY DEF RoundOK
<1>2. seq \in Seq(Items) /\ DOMAIN seq = 1 .. Len(seq) /\ DOMAIN st.seq = 1 .. Len(seq)
  BY <1>1 DEF CloudsInv, CloudTypes
<1>3. seq[i] \in Items /\ seq[i].items \in Nat /\ seq[i].obj \in Objects
  <2>1. seq[i] \in Items
    BY <1>2
  <2> QED
    BY <2>1 DEF Items
<1>4. cf \in Nat
  BY <1>1, <1>3
<1> HIDE DEF cf
<1>5. x \in Nat
  BY <1>3, <1>4 DEF ItemAt
<1> HIDE DEF x
<1> DEFINE e == [st.seq[i] EXCEPT !.shown = x]
           d == [st.seq EXCEPT ![i] = e]
<1>6. /\ DOMAIN q = {"cf", "seq", "ended", "init", "replaced"}
      /\ q.cf = cf /\ q.seq = d /\ q.ended = st.ended
      /\ q.replaced = st.replaced \union {seq[i].uuid}
  BY <1>0, <1>1
<1>7. e \in Items /\ SameItem(e, seq[i]) /\ e.shown = x
  <2>1. st.seq[i] \in Items /\ SameItem(st.seq[i], seq[i])
    BY <1>1, <1>2
  <2> QED
    BY <1>5, <2>1 DEF Items, SameItem
<1> HIDE DEF e
<1>8. d \in Seq(Items) /\ Len(d) = Len(seq) /\ DOMAIN d = 1 .. Len(seq)
  BY <1>1, <1>2, <1>7
<1>9. d[i] = e /\ \A j \in 1 .. Len(seq) : j # i => d[j] = st.seq[j]
  BY <1>1, <1>2
<1> HIDE DEF d
<1>10. \A j \in 1 .. Len(seq) : SameItem(d[j], seq[j])
  BY <1>1, <1>7, <1>9
<1>11. /\ \A k \in DOMAIN d : \E j \in DOMAIN seq : SameItem(d[k], seq[j])
       /\ \A j \in DOMAIN seq : \E k \in DOMAIN d : d[k].uuid = seq[j].uuid
  BY <1>2, <1>8, <1>10 DEF SameItem
<1>12. ASSUME NEW u \in q.replaced
       PROVE  /\ u \in DOMAIN cache /\ pcv[cache[u].obj].uuid = u
              /\ \E k \in DOMAIN d : d[k].uuid = u
  <2>1. CASE u \in st.replaced
    <3>1. PICK k \in DOMAIN st.seq : st.seq[k].uuid = u
      BY <1>1, <2>1
    <3>2. d[k].uuid = u
      BY <1>1, <1>2, <1>10, <3>1 DEF SameItem
    <3> QED
      BY <1>1, <1>2, <1>8, <2>1, <3>2
  <2>2. CASE u = seq[i].uuid
    <3>1. cache[u].obj = seq[i].obj
      BY <1>2, <2>2 DEF CloudsInv, LinksOwned
    <3> QED
      BY <1>2, <1>11, <2>2, <3>1
  <2> QED
    BY <1>6, <2>1, <2>2
<1>13. ASSUME NEW n \in 1 .. i, Plays(n)
       PROVE  n \in DOMAIN d /\ d[n].shown = FileOfFrame(frame, seq[n].obj, seq[n].items)
  <2>1. CASE n # i
    <3>1. n \in 1 .. i - 1 /\ n \in 1 .. Len(seq)
      BY <1>2, <2>1
    <3> QED
      BY <1>1, <1>8, <1>9, <1>13, <2>1, <3>1
  <2>2. CASE n = i
    <3>1. Playable(i) /\ \A j \in 1 .. i - 1 : Playable(j) /\ seq[j].obj \notin Cyclic
      BY <1>13, <2>2 DEF Plays
    <3>2. st.cf = frame /\ seq[i].items \in Nat \ {0} /\ frame \in Nat \ {0}
      BY <1>1, <1>3, <3>1, CloudsAssumption DEF Playable
    <3>3. x = FileOfFrame(frame, seq[i].obj, seq[i].items)
      BY <3>2, FileIsShown DEF cf, x
    <3> QED
      BY <1>7, <1>8, <1>9, <2>2, <3>3
  <2> QED
    BY <2>1, <2>2
<1>14. (\A j \in 1 .. i : Playable(j) /\ seq[j].obj \notin Cyclic) => ~q.ended /\ q.cf = frame
  BY <1>1, <1>6 DEF cf
<1> QED
  <2>1. /\ q.cf \in Nat /\ q.seq \in Seq(Items) /\ Len(q.seq) = Len(seq)
        /\ \A j \in 1 .. Len(seq) : SameItem(q.seq[j], seq[j])
    BY <1>4, <1>6, <1>8, <1>10
  <2>2. /\ \A k \in DOMAIN q.seq : \E j \in DOMAIN seq : SameItem(q.seq[k], seq[j])
        /\ \A j \in DOMAIN seq : \E k \in DOMAIN q.seq : q.seq[k].uuid = seq[j].uuid
    BY <1>6, <1>11
  <2>3. \A u \in q.replaced : /\ u \in DOMAIN cache /\ pcv[cache[u].obj].uuid = u
                              /\ \E k \in DOMAIN q.seq : q.seq[k].uuid = u
    <3> SUFFICES ASSUME NEW u \in q.replaced
                 PROVE  /\ u \in DOMAIN cache /\ pcv[cache[u].obj].uuid = u
                        /\ \E k \in DOMAIN q.seq : q.seq[k].uuid = u
      OBVIOUS
    <3>1. /\ u \in DOMAIN cache /\ pcv[cache[u].obj].uuid = u
          /\ \E k \in DOMAIN d : d[k].uuid = u
      BY <1>12
    <3> QED
      BY <1>6, <3>1
  <2>4. \A n \in 1 .. i : Plays(n) =>
           /\ n \in DOMAIN q.seq
           /\ q.seq[n].shown = FileOfFrame(frame, seq[n].obj, seq[n].items)
    BY <1>6, <1>13
  <2>5. RoundOK(frame, i, q)
    BY <1>6, <1>14, <2>1, <2>2, <2>3, <2>4, Zenon DEF RoundOK
  <2> QED
    BY <2>5 DEF q

(* Every round.                                                               *)
LEMMA RoundKeeps ==
    ASSUME CloudsInv, NEW frame \in 1 .. MaxFrame, NEW i \in 1 .. Len(seq),
           NEW st, RoundOK(frame, i - 1, st)
    PROVE  RoundOK(frame, i, HandlerStep(st, i))
<1> DEFINE item == seq[i]
           items == item.items
           cf == IF item.obj \in Cyclic /\ items > 0 THEN st.cf % items ELSE st.cf
           q == HandlerStep(st, i)
           raises == \/ item.obj \in Cyclic /\ items = 0
                     \/ ~Cached(cache, item.uuid)
                     \/ cf = 0 /\ items = 0
<1>1. DOMAIN st = {"cf", "seq", "ended", "init", "replaced"}
  BY DEF RoundOK
<1>2. seq \in Seq(Items) /\ items \in Nat /\ DOMAIN seq = 1 .. Len(seq)
  <2>1. seq \in Seq(Items) /\ DOMAIN seq = 1 .. Len(seq)
    BY DEF CloudsInv, CloudTypes
  <2>2. item \in Items
    BY <2>1
  <2> QED
    BY <2>1, <2>2 DEF Items
<1>3. CASE st.ended
  <2>1. q = st
    BY <1>3 DEF HandlerStep
  <2>2. ~(\A j \in 1 .. i - 1 : Playable(j) /\ seq[j].obj \notin Cyclic)
    BY <1>3 DEF RoundOK
  <2>3. ~(\A j \in 1 .. i : Playable(j) /\ seq[j].obj \notin Cyclic) /\ ~Plays(i)
    BY <2>2 DEF Plays
  <2>4. \A n \in 1 .. i : n \in 1 .. i - 1 \/ n = i
    OBVIOUS
  <2>5. \A n \in 1 .. i : Plays(n) =>
           /\ n \in DOMAIN st.seq
           /\ st.seq[n].shown = FileOfFrame(frame, seq[n].obj, seq[n].items)
    BY <2>3, <2>4 DEF RoundOK
  <2>6. RoundOK(frame, i, st)
    BY <1>3, <2>3, <2>5 DEF RoundOK
  <2> QED
    BY <2>1, <2>6
<1>4. CASE ~st.ended /\ item.obj \notin Alive
  <2>1. q = [st EXCEPT !.ended = TRUE]
    BY <1>4 DEF HandlerStep
  <2>2. ~Playable(i)
    BY <1>4 DEF Playable
  <2> HIDE DEF q
  <2>3. /\ DOMAIN q = {"cf", "seq", "ended", "init", "replaced"} /\ q.ended
        /\ q.cf = st.cf /\ q.replaced = st.replaced /\ q.seq = st.seq
    BY <1>1, <2>1
  <2>4. RoundOK(frame, i, q)
    BY <2>2, <2>3, EndingRound
  <2> QED
    BY <2>4 DEF q
<1>5. CASE ~st.ended /\ item.obj \in Alive /\ pcv[item.obj].uuid # item.uuid
  <2>1. q = [st EXCEPT !.ended = TRUE, !.seq = RemoveAt(st.seq, i)]
    BY <1>5 DEF HandlerStep
  <2>2. ~Playable(i)
    BY <1>5 DEF Playable
  <2> HIDE DEF q
  <2>3. /\ DOMAIN q = {"cf", "seq", "ended", "init", "replaced"} /\ q.ended
        /\ q.cf = st.cf /\ q.replaced = st.replaced /\ q.seq = RemoveAt(st.seq, i)
    BY <1>1, <2>1
  <2>4. RoundOK(frame, i, q)
    BY <1>5, <2>2, <2>3, EndingRound
  <2> QED
    BY <2>4 DEF q
<1>6. CASE ~st.ended /\ item.obj \in Alive /\ pcv[item.obj].uuid = item.uuid /\ raises
  <2>1. q = [st EXCEPT !.ended = TRUE, !.init = TRUE]
    BY <1>6 DEF HandlerStep
  <2>2. ~Playable(i)
    BY <1>2, <1>6 DEF Playable
  <2> HIDE DEF q
  <2>3. /\ DOMAIN q = {"cf", "seq", "ended", "init", "replaced"} /\ q.ended
        /\ q.cf = st.cf /\ q.replaced = st.replaced /\ q.seq = st.seq
    BY <1>1, <2>1
  <2>4. RoundOK(frame, i, q)
    BY <2>2, <2>3, EndingRound
  <2> QED
    BY <2>4 DEF q
<1>7. CASE ~st.ended /\ item.obj \in Alive /\ pcv[item.obj].uuid = item.uuid /\ ~raises
  <2>1. q = Played(st, i)
    BY <1>7, Zenon DEF HandlerStep, Played
  <2>2. item.uuid \in DOMAIN cache
    BY <1>7 DEF Cached
  <2> QED
    BY <1>7, <2>1, <2>2, PlayingRound
<1> QED
  BY <1>3, <1>4, <1>5, <1>6, <1>7

(* The whole loop.                                                            *)
LEMMA LoopEnds ==
    ASSUME CloudsInv, NEW frame \in 1 .. MaxFrame
    PROVE  RoundOK(frame, Len(seq), HandlerLoop(frame))
<1> DEFINE N == Len(seq)
           f == CHOOSE g : IsLoop(frame, N, g)
           OK(i) == RoundOK(frame, i, f[i])
<1>1. N \in Nat
  BY DEF CloudsInv, CloudTypes
<1>2. IsLoop(frame, N, f)
  <2> HIDE DEF N
  <2> QED
    BY <1>1, LoopExists
<1>3. HandlerLoop(frame) = f[N]
  BY DEF HandlerLoop, IsLoop
<1> HIDE DEF f
<1>4. f[0] = HandlerStart(frame) /\ \A i \in 1 .. N : f[i] = HandlerStep(f[i - 1], i)
  <2> DEFINE F(i) == IF i = 0 THEN HandlerStart(frame) ELSE HandlerStep(f[i - 1], i)
  <2> HIDE DEF N
  <2>1. f = [i \in 0 .. N |-> F(i)]
    BY <1>2, Zenon DEF IsLoop
  <2>2. \A i \in 0 .. N : f[i] = F(i)
    <3> HIDE DEF F
    <3> QED
      BY <2>1
  <2> QED
    BY <1>1, <2>2
<1>5. OK(0)
  BY <1>4, LoopStarts
<1>6. ASSUME NEW i \in 1 .. N, OK(i - 1)
      PROVE  OK(i)
  BY <1>4, <1>6, RoundKeeps
<1> HIDE DEF OK, N
<1>7. \A i \in 0 .. N : OK(i)
  <2> DEFINE T == {i \in 0 .. N : ~OK(i)}
  <2> SUFFICES ASSUME T # {} PROVE FALSE
    OBVIOUS
  <2>1. PICK m \in T : \A k \in T : m <= k
    <3>1. T \in SUBSET Nat
      BY <1>1
    <3> QED
      BY <3>1, LeastOf
  <2>2. m \in 1 .. N /\ m - 1 \in 0 .. N /\ ~(m <= m - 1)
    BY <1>1, <1>5, <2>1
  <2>3. OK(m - 1)
    BY <2>1, <2>2
  <2> QED
    BY <1>6, <2>1, <2>2, <2>3
<1>8. OK(N)
  BY <1>1, <1>7
<1> QED
  BY <1>3, <1>8 DEF OK, N
(* A frame change: an item that is dropped is one whose edit mesh, if there   *)
(* is one, belongs to no entry; the meshes whose arrays change have items.    *)
LEMMA FrameKeeps ==
    ASSUME CloudsInv, NEW frame \in 1 .. MaxFrame, FrameChange(frame)
    PROVE  CloudsInv'
<1> DEFINE st == HandlerLoop(frame)
<1>1. /\ sequence.registered /\ redrawn
      /\ seq' = st.seq /\ manager' = (manager \/ st.init)
      /\ sequence' = IF seq # << >> /\ st.seq = << >> THEN SequenceOff ELSE sequence
      /\ helpers' = {IF h.uuid \in st.replaced THEN [h EXCEPT !.synced = FALSE] ELSE h : h \in helpers}
      /\ cache' = cache /\ pcv' = pcv /\ name' = name /\ redrawn' = redrawn /\ Alive' = Alive
  BY DEF FrameChange, Alive
<1>2. RoundOK(frame, Len(seq), st)
  BY LoopEnds
<1> HIDE DEF st
<1>3. /\ seq' \in Seq(Items)
      /\ \A k \in DOMAIN seq' : \E j \in DOMAIN seq : SameItem(seq'[k], seq[j])
      /\ \A j \in DOMAIN seq : (seq[j].obj \in Alive => pcv[seq[j].obj].uuid = seq[j].uuid) =>
             \E k \in DOMAIN seq' : seq'[k].uuid = seq[j].uuid
      /\ \A u \in st.replaced : \E k \in DOMAIN seq' : seq'[k].uuid = u
  BY <1>1, <1>2 DEF RoundOK
<1>4. ASSUME NEW h \in helpers'
      PROVE  /\ IsHelper(h)
             /\ \E k \in helpers :
                   /\ h.parent = k.parent /\ h.uuid = k.uuid
                   /\ h = IF k.uuid \in st.replaced THEN [k EXCEPT !.synced = FALSE] ELSE k
  <2>1. PICK k \in helpers : h = IF k.uuid \in st.replaced THEN [k EXCEPT !.synced = FALSE] ELSE k
    BY <1>1
  <2>2. IsHelper(k)
    BY DEF CloudsInv, CloudTypes
  <2>3. IsHelper(h) /\ h.parent = k.parent /\ h.uuid = k.uuid
    BY <2>1, <2>2 DEF IsHelper
  <2> QED
    BY <2>1, <2>3
<1>5. CloudTypes'
  <2>1. DOMAIN sequence' = {"initialized", "registered"}
    BY <1>1 DEF SequenceOff, CloudsInv, CloudTypes
  <2> QED
    BY <1>1, <1>3, <1>4, <2>1 DEF CloudsInv, CloudTypes
<1>6. NamesMean' /\ EntriesOwned'
  BY <1>1 DEF CloudsInv, NamesMean, EntriesOwned
<1>7. LinksOwned'
  <2>1. \A h \in helpers' : h.uuid \in DOMAIN cache => cache[h.uuid].obj = h.parent
    BY <1>4 DEF CloudsInv, LinksOwned
  <2>2. ASSUME NEW k \in DOMAIN seq', seq'[k].uuid \in DOMAIN cache
        PROVE  cache[seq'[k].uuid].obj = seq'[k].obj
    BY <1>3, <2>2 DEF CloudsInv, LinksOwned, SameItem
  <2> QED
    BY <1>1, <2>1, <2>2 DEF LinksOwned
<1>8. HandlersRun'
  <2>1. seq' # << >> => seq # << >>
    <3>1. seq = << >> => DOMAIN seq = {}
      OBVIOUS
    <3>2. seq' # << >> => 1 \in DOMAIN seq'
      BY <1>3
    <3> QED
      BY <1>3, <3>1, <3>2
  <2>2. (seq # << >> => manager) /\ \A u \in DOMAIN cache : cache[u].draw => manager
    BY DEF CloudsInv, HandlersRun, Handled
  <2>3. seq' # << >> => sequence'.registered
    BY <1>1
  <2>4. sequence'.initialized => manager /\ sequence'.registered
    BY <1>1 DEF SequenceOff, CloudsInv, HandlersRun
  <2> QED
    BY <1>1, <2>1, <2>2, <2>3, <2>4 DEF HandlersRun, Handled
<1>9. MeshesOwned'
  <2>1. ASSUME NEW h \in helpers', h.parent \in Alive
        PROVE  pcv[h.parent].edit_initialized /\ pcv[h.parent].uuid = h.uuid
    BY <1>4, <2>1 DEF CloudsInv, MeshesOwned
  <2>2. ASSUME NEW h \in helpers', NEW k \in helpers', h.parent = k.parent, h.parent \in Alive
        PROVE  h = k
    <3>1. PICK h0 \in helpers : /\ h.parent = h0.parent /\ h.uuid = h0.uuid
                                /\ h = IF h0.uuid \in st.replaced
                                       THEN [h0 EXCEPT !.synced = FALSE] ELSE h0
      BY <1>4
    <3>2. PICK k0 \in helpers : /\ k.parent = k0.parent /\ k.uuid = k0.uuid
                                /\ k = IF k0.uuid \in st.replaced
                                       THEN [k0 EXCEPT !.synced = FALSE] ELSE k0
      BY <1>4
    <3>3. h0 = k0
      BY <2>2, <3>1, <3>2 DEF CloudsInv, MeshesOwned
    <3> QED
      BY <3>1, <3>2, <3>3
  <2> QED
    BY <1>1, <2>1, <2>2 DEF MeshesOwned
<1>10. EditIndexes'
  <2> SUFFICES ASSUME NEW h \in helpers', h.uuid \in DOMAIN cache, ~h.synced
               PROVE  \E i \in DOMAIN seq' : seq'[i].uuid = h.uuid
    BY <1>1 DEF EditIndexes, Cached
  <2>1. PICK k \in helpers : /\ h.parent = k.parent /\ h.uuid = k.uuid
                             /\ h = IF k.uuid \in st.replaced
                                    THEN [k EXCEPT !.synced = FALSE] ELSE k
    BY <1>4
  <2>2. CASE k.uuid \in st.replaced
    BY <1>3, <2>1, <2>2
  <2>3. CASE k.uuid \notin st.replaced
    <3>1. PICK i \in DOMAIN seq : seq[i].uuid = k.uuid
      BY <2>1, <2>3 DEF CloudsInv, EditIndexes, Cached
    <3>2. cache[k.uuid].obj = k.parent /\ cache[k.uuid].obj = seq[i].obj
      BY <2>1, <3>1 DEF CloudsInv, LinksOwned
    <3>3. seq[i].obj \in Alive => pcv[seq[i].obj].uuid = seq[i].uuid
      BY <3>1, <3>2 DEF CloudsInv, MeshesOwned
    <3> QED
      BY <1>3, <2>1, <3>1, <3>3
  <2> QED
    BY <2>2, <2>3
<1> QED
  BY <1>5, <1>6, <1>7, <1>8, <1>9, <1>10 DEF CloudsInv

(* A sequence is loaded for a cloud that is drawn.                            *)
LEMMA PreloadKeeps ==
    ASSUME CloudsInv, NEW o \in Objects, PCV_OT_sequence_preload(o)
    PROVE  CloudsInv'
<1>1. /\ o \in Alive /\ pcv[o].uuid \in DOMAIN cache /\ cache[pcv[o].uuid].draw
      /\ cache' = cache /\ pcv' = pcv /\ name' = name /\ helpers' = helpers
      /\ manager' = manager /\ redrawn' = redrawn /\ Alive' = Alive
  BY DEF PCV_OT_sequence_preload, Panel, Drawn, Alive
<1>2. PICK n \in ItemCounts :
         seq' = Append(seq, [uuid |-> pcv[o].uuid, obj |-> o, items |-> n, shown |-> 0])
  BY DEF PCV_OT_sequence_preload
<1> DEFINE item == [uuid |-> pcv[o].uuid, obj |-> o, items |-> n, shown |-> 0]
<1>3. item \in Items /\ item.uuid = pcv[o].uuid /\ item.obj = o
  <2>1. pcv[o].uuid \in 1 .. MaxUuid /\ n \in Nat
    BY <1>1, CloudsAssumption DEF CloudsInv, CloudTypes, IsCache
  <2> QED
    BY <2>1 DEF Items
<1>4. seq \in Seq(Items) /\ DOMAIN seq = 1 .. Len(seq)
  BY DEF CloudsInv, CloudTypes
<1>5. seq' = Append(seq, item)
  BY <1>2
<1> HIDE DEF item
<1>6. /\ seq' \in Seq(Items) /\ DOMAIN seq' = 1 .. Len(seq) + 1 /\ seq'[Len(seq) + 1] = item
      /\ \A i \in 1 .. Len(seq) : seq'[i] = seq[i]
  BY <1>3, <1>4, <1>5
<1>7. sequence' = (IF sequence.initialized THEN sequence
                   ELSE [initialized |-> TRUE, registered |-> TRUE])
  BY DEF PCV_OT_sequence_preload
<1>8. CloudTypes'
  <2>1. DOMAIN sequence' = {"initialized", "registered"}
    BY <1>7 DEF CloudsInv, CloudTypes
  <2> QED
    BY <1>1, <1>6, <2>1 DEF CloudsInv, CloudTypes
<1>9. NamesMean' /\ EntriesOwned' /\ MeshesOwned'
  BY <1>1 DEF CloudsInv, NamesMean, EntriesOwned, MeshesOwned
<1>10. LinksOwned'
  <2>1. ASSUME NEW i \in DOMAIN seq', seq'[i].uuid \in DOMAIN cache
        PROVE  cache[seq'[i].uuid].obj = seq'[i].obj
    <3>1. CASE i = Len(seq) + 1
      BY <1>3, <1>6, <2>1, <3>1 DEF CloudsInv, EntriesOwned
    <3>2. CASE i # Len(seq) + 1
      <4>1. i \in DOMAIN seq /\ seq'[i] = seq[i]
        BY <1>4, <1>6, <3>2
      <4> QED
        BY <2>1, <4>1 DEF CloudsInv, LinksOwned
    <3> QED
      BY <3>1, <3>2
  <2> QED
    BY <1>1, <2>1 DEF CloudsInv, LinksOwned
<1>11. EditIndexes'
  <2>1. \A i \in DOMAIN seq : i \in DOMAIN seq' /\ seq'[i] = seq[i]
    BY <1>4, <1>6
  <2> QED
    BY <1>1, <2>1 DEF CloudsInv, EditIndexes, Cached
<1>12. HandlersRun'
  BY <1>1, <1>7 DEF CloudsInv, HandlersRun, Handled
<1> QED
  BY <1>8, <1>9, <1>10, <1>11, <1>12 DEF CloudsInv
(* A sequence is cleared and its cloud loaded again.                          *)
LEMMA ClearKeeps ==
    ASSUME CloudsInv, NEW o \in Objects, PCV_OT_sequence_clear(o)
    PROVE  CloudsInv'
<1>1. /\ o \in Alive /\ ~pcv[o].edit_initialized /\ Unused(cache, o) # {}
      /\ name' = name /\ helpers' = helpers /\ manager' = manager /\ redrawn' = redrawn
      /\ Alive' = Alive
  BY DEF PCV_OT_sequence_clear, Panel, Alive
<1>2. PICK i \in DOMAIN seq : seq[i].uuid = pcv[o].uuid /\ seq' = RemoveAt(seq, i)
  BY DEF PCV_OT_sequence_clear
<1>3. PICK r \in reload(cache, pcv[o], o) : cache' = r[1] /\ pcv' = [pcv EXCEPT ![o] = r[2]]
  BY DEF PCV_OT_sequence_clear, Becomes
<1>4. sequence' = IF seq' = << >> THEN SequenceOff ELSE sequence
  BY DEF PCV_OT_sequence_clear
<1>5. /\ seq \in Seq(Items) /\ DOMAIN seq = 1 .. Len(seq) /\ DOMAIN pcv = Objects
      /\ IsPcv(pcv[o])
  BY DEF CloudsInv, CloudTypes
<1>6. /\ seq' \in Seq(Items)
      /\ \A k \in DOMAIN seq' : \E j \in DOMAIN seq : seq'[k] = seq[j]
      /\ \A j \in DOMAIN seq \ {i} : \E k \in DOMAIN seq' : seq'[k] = seq[j]
  <2> DEFINE d == RemoveAt(seq, i)
  <2>0. i \in 1 .. Len(seq)
    BY <1>5
  <2>1. /\ d \in Seq(Items)
        /\ \A k \in DOMAIN d : \E j \in DOMAIN seq : d[k] = seq[j]
        /\ \A j \in DOMAIN seq \ {i} : \E k \in DOMAIN d : d[k] = seq[j]
    BY <1>5, <2>0, RemoveAtKeeps
  <2>2. seq' = d
    BY <1>2
  <2> HIDE DEF d
  <2> QED
    BY <2>1, <2>2
<1>7. IsChange(o, r[1], r[2], manager) /\ ~r[2].edit_initialized
  BY <1>1, <1>5, ReloadChanges
<1>8. /\ IsCache(cache') /\ DOMAIN pcv' = Objects /\ pcv' = [q \in Objects |-> pcv'[q]]
      /\ \A q \in Objects : IsPcv(pcv'[q])
      /\ NamesMean' /\ EntriesOwned'
      /\ \A u \in DOMAIN cache' : cache'[u].draw => manager'
  BY <1>1, <1>3, <1>7, ChangeKeeps
<1>9. CloudTypes'
  <2>1. DOMAIN sequence' = {"initialized", "registered"}
    BY <1>4 DEF SequenceOff, CloudsInv, CloudTypes
  <2> QED
    BY <1>1, <1>6, <1>8, <2>1 DEF CloudsInv, CloudTypes
<1>10. LinksOwned'
  <2>1. \A h \in helpers : h.uuid \in DOMAIN cache' => cache'[h.uuid].obj = h.parent
    BY <1>3, <1>7 DEF CloudsInv, LinksOwned, IsChange, Fresh
  <2>2. \A j \in DOMAIN seq : seq[j].uuid \in DOMAIN cache' =>
                                 cache'[seq[j].uuid].obj = seq[j].obj
    BY <1>3, <1>7 DEF CloudsInv, LinksOwned, IsChange, Fresh
  <2> QED
    BY <1>1, <1>6, <2>1, <2>2 DEF LinksOwned
<1>11. HandlersRun'
  <2>1. seq # << >>
    BY <1>5
  <2>2. manager /\ sequence.registered
    BY <2>1 DEF CloudsInv, HandlersRun, Handled
  <2>3. SequenceOff.initialized = FALSE
    BY DEF SequenceOff
  <2> QED
    BY <1>1, <1>4, <1>8, <2>2, <2>3 DEF HandlersRun, Handled
<1>12. \A h \in helpers : h.parent # o
  BY <1>1 DEF CloudsInv, MeshesOwned
<1>13. \A q \in Objects \ {o} : pcv'[q] = pcv[q]
  BY <1>3, <1>5
<1>14. MeshesOwned'
  BY <1>1, <1>12, <1>13 DEF CloudsInv, MeshesOwned, Alive
<1>15. EditIndexes'
  <2> SUFFICES ASSUME NEW h \in helpers, h.uuid \in DOMAIN cache', ~h.synced
               PROVE  \E k \in DOMAIN seq' : seq'[k].uuid = h.uuid
    BY <1>1 DEF EditIndexes, Cached
  <2>1. h.uuid \in DOMAIN cache
    BY <1>3, <1>7 DEF IsChange, Fresh
  <2>2. PICK j \in DOMAIN seq : seq[j].uuid = h.uuid
    BY <2>1 DEF CloudsInv, EditIndexes, Cached
  <2>3. h.uuid # pcv[o].uuid
    BY <1>12, <2>1 DEF CloudsInv, EntriesOwned, LinksOwned
  <2>4. j # i
    BY <1>2, <2>2, <2>3
  <2> QED
    BY <1>6, <2>2, <2>4
<1> QED
  BY <1>8, <1>9, <1>10, <1>11, <1>14, <1>15 DEF CloudsInv

(* Every step.                                                                *)
LEMMA CloudsKeep == CloudsInv /\ [CloudsNext]_cloudVars => CloudsInv'
<1> SUFFICES ASSUME CloudsInv, [CloudsNext]_cloudVars PROVE CloudsInv'
  OBVIOUS
<1>1. CASE UNCHANGED cloudVars
  BY <1>1 DEF cloudVars, CloudsInv, CloudTypes, NamesMean, EntriesOwned, LinksOwned, HandlersRun,
              Handled, MeshesOwned, EditIndexes, Alive, Cached
<1>2. ASSUME NEW o \in Objects, Operator(o) \/ RemoveObject(o) \/ RenameObject(o)
      PROVE  CloudsInv'
  BY <1>2, LoadOperatorsKeep, FiltersKeepClouds, EditStartKeeps, EditCancelKeeps, PreloadKeeps,
     ClearKeeps, RemoveKeeps, RenameKeeps DEF Operator
<1>3. ASSUME NEW h \in helpers, PCV_OT_edit_update(h) \/ PCV_OT_edit_end(h) \/ RemoveHelper(h)
      PROVE  CloudsInv'
  BY <1>3, MeshesKeep, EditEndKeeps
<1>4. ASSUME NEW frame \in 1 .. MaxFrame, FrameChange(frame)
      PROVE  CloudsInv'
  BY <1>4, FrameKeeps
<1>5. CASE handler
  BY <1>5, HandlerKeeps
<1>6. CASE Reopen
  BY <1>6, ReopenKeeps
<1> QED
  BY <1>1, <1>2, <1>3, <1>4, <1>5, <1>6 DEF CloudsNext

(* The invariant always holds.                                                *)
LEMMA CloudsInvariant == CloudsSpec => []CloudsInv
  BY CloudsStart, CloudsKeep, PTL DEF CloudsSpec

-----------------------------------------------------------------------------
(* A cloud on the screen can be erased: in every reachable state in which the *)
(* viewport is up to date, the object of an entry that is drawn is there and  *)
(* its uuid names the entry.                                                  *)
THEOREM DrawnCloudsAreOwned == CloudsSpec => []DrawnOwned
<1>1. CloudsInv => DrawnOwned
  BY DEF CloudsInv, EntriesOwned, DrawnOwned
<1> QED
  BY <1>1, CloudsInvariant, PTL

(* Every cloud that is to be drawn has the draw handler of PCVManager, every  *)
(* sequence the frame handler of PCVSequence, also after the file was opened  *)
(* again.                                                                     *)
THEOREM WaitingIsHandled == CloudsSpec => []Handled
<1>1. CloudsInv => Handled
  BY DEF CloudsInv, HandlersRun
<1> QED
  BY <1>1, CloudsInvariant, PTL

(* After an edit its mesh is gone and the alpha is the one chosen before.     *)
THEOREM EditsRestore == CloudsSpec => []EditRestores
<1>1. CloudsInv => EditRestores
  BY DEF CloudsInv, CloudTypes, IsPcv, MeshesOwned, EditRestores, Alive
<1> QED
  BY <1>1, CloudsInvariant, PTL

(* The indexes in an edit mesh are those of the arrays of its cloud, unless a *)
(* sequence plays that cloud.                                                 *)
THEOREM EditIndexesAreRight == CloudsSpec => []EditIndexes
<1>1. CloudsInv => EditIndexes
  BY DEF CloudsInv
<1> QED
  BY <1>1, CloudsInvariant, PTL

(* After a frame change every sequence that can be played, before which there *)
(* is no cyclic one, shows the file of the frame, however many sequences      *)
(* there are and however long they are (the loop of PCVSequence.handler).     *)
THEOREM FramesAreShown == CloudsSpec => FrameShown
<1> DEFINE Shown == \A frame \in 1 .. MaxFrame : FrameChange(frame) =>
              \A i \in DOMAIN seq :
                  (\A j \in 1 .. i : Playable(j) /\ (j < i => seq[j].obj \notin Cyclic)) =>
                      seq'[i].shown = FileOfFrame(frame, seq[i].obj, seq[i].items)
<1>1. CloudsInv => Shown
  <2> SUFFICES ASSUME CloudsInv, NEW frame \in 1 .. MaxFrame, FrameChange(frame),
                      NEW i \in DOMAIN seq, Plays(i)
               PROVE  seq'[i].shown = FileOfFrame(frame, seq[i].obj, seq[i].items)
    BY Zenon DEF Plays
  <2>1. RoundOK(frame, Len(seq), HandlerLoop(frame))
    BY LoopEnds
  <2>2. seq' = HandlerLoop(frame).seq
    BY DEF FrameChange
  <2>3. i \in 1 .. Len(seq)
    BY DEF CloudsInv, CloudTypes
  <2> QED
    BY <2>1, <2>2, <2>3 DEF RoundOK
<1>2. CloudsInv /\ [CloudsNext]_cloudVars => [Shown]_cloudVars
  BY <1>1
<1>3. FrameShown <=> [][Shown]_cloudVars
  BY DEF FrameShown
<1> HIDE DEF Shown
<1> QED
  BY <1>2, <1>3, CloudsInvariant, PTL DEF CloudsSpec
=============================================================================
