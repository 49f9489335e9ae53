----------------------------- MODULE PCVClouds -----------------------------
(****************************************************************************)
(* The point clouds of a Blender scene: PCVManager.cache, the properties that *)
(* the objects carry (and that a .blend file saves), the helper meshes of the *)
(* edit mode, and the sequences of PCVSequence.                               *)
(* (scripts/calibration/space_view3d_point_cloud_visualizer.py)               *)
(*                                                                            *)
(* A uuid is a number, 0 the empty string; a number is used again only when   *)
(* nothing mentions it.  The debug panel and the duplication of objects are   *)
(* left out.                                                                  *)
(****************************************************************************)
EXTENDS Naturals, SequencesExt

CONSTANTS
    Objects,     \* the objects of the scene
    Names,       \* names for objects, those they have at first among them
    MaxUuid,     \* bound: uuids in use at once
    MaxFrame,    \* bound: frames of the scene
    Cyclic,      \* the objects with sequence_use_cyclic
    ItemCounts   \* the numbers of files that a sequence may have

ASSUME CloudsAssumption ==
    /\ MaxUuid \in Nat \ {0} /\ MaxFrame \in Nat \ {0} /\ ItemCounts \subseteq Nat
    /\ Objects \subseteq Names /\ 0 \notin Names

VARIABLES
    cache,       \* PCVManager.cache
    pcv,         \* object.point_cloud_visualizer, of every object
    name,        \* the name of every object; 0: the object was removed
    helpers,     \* the edit meshes
    seq,         \* PCVSequence.cache, in the order of the dictionary
    manager,     \* PCVManager.initialized: draw handler and watcher registered
    sequence,    \* PCVSequence.initialized; registered: in frame_change_post
    redrawn      \* the viewport was drawn since an object was removed or renamed

cloudVars == <<cache, pcv, name, helpers, seq, manager, sequence, redrawn>>

Default == [uuid |-> 0, file |-> "none", runtime |-> FALSE,
            edit_initialized |-> FALSE, alpha |-> "chosen", pre |-> "none"]

CloudsInit ==
    /\ cache = << >> /\ seq = << >> /\ helpers = {}
    /\ pcv = [o \in Objects |-> Default]
    /\ name = [o \in Objects |-> o]
    /\ manager = FALSE
    /\ sequence = [initialized |-> FALSE, registered |-> FALSE]
    /\ redrawn = TRUE

-----------------------------------------------------------------------------
(* The dictionary.                                                            *)

Alive == {o \in Objects : name[o] # 0}

Cached(c, u) == u \in DOMAIN c
Drawn(c, u) == u \in DOMAIN c /\ c[u].draw

Without(c, u) == [v \in DOMAIN c \ {u} |-> c[v]]

add(c, u, entry) == [v \in DOMAIN c \union {u} |-> IF v = u THEN entry ELSE c[v]]

Entry(o, draw) == [obj |-> o, name |-> name[o], draw |-> draw]

(* The uuids that object o can get while the cache is c.                      *)
Unused(c, o) == {u \in 1 .. MaxUuid :
                    /\ u \notin DOMAIN c
                    /\ \A q \in Objects \ {o} : pcv[q].uuid # u
                    /\ \A h \in helpers : h.uuid # u
                    /\ \A i \in DOMAIN seq : seq[i].uuid # u}

NewUuid(c, o) == CHOOSE u \in Unused(c, o) : \A v \in Unused(c, o) : u <= v

(* New arrays for the entry of u: the indexes in the mesh of an edit of u     *)
(* belong to the old ones.                                                    *)
Replaced(hs, u) == {IF h.uuid = u THEN [h EXCEPT !.synced = FALSE] ELSE h : h \in hs}

(* Mutation: every panel shows its buttons whatever goes on.                  *)
MutPanelAlways(o) == o \in Alive /\ redrawn

(* The buttons for object o.  During an edit there is only Cancel.            *)
Panel(o) == o \in Alive /\ redrawn /\ ~pcv[o].edit_initialized

-----------------------------------------------------------------------------
(* Load, draw, erase, reload: what becomes of cache c and properties p of     *)
(* object o, as a set of <<c, p>>.                                            *)

(* The file is chosen, the old entry dropped, and the file read or not.       *)
load(c, p, o) ==
    LET c1 == Without(c, p.uuid)
        p1 == [p EXCEPT !.file = "ply"]
        u  == NewUuid(c1, o)
    IN {<<c1, p1>>, <<add(c1, u, Entry(o, FALSE)), [p1 EXCEPT !.uuid = u]>>}

(* An entry that is not in the cache is loaded.  A runtime cloud can not be:  *)
(* its uuid is no file.                                                       *)
draw(c, p, o) ==
    LET u == NewUuid(c, o)
    IN IF Cached(c, p.uuid) THEN {<<[c EXCEPT ![p.uuid].draw = TRUE], p>>}
       ELSE {<<c, [p EXCEPT !.uuid = 0]>>} \union
            IF p.file = "ply" THEN {<<add(c, u, Entry(o, TRUE)), [p EXCEPT !.uuid = u]>>} ELSE {}

erase(c, u) == IF Drawn(c, u) THEN [c EXCEPT ![u].draw = FALSE] ELSE c

(* The points as stored, or the file again; drawn if it was.  A runtime cloud *)
(* that is not in the cache raises KeyError.                                  *)
reload(c, p, o) ==
    IF p.runtime
    THEN {<<c, p>>}
    ELSE {IF Drawn(c, p.uuid) /\ Cached(r[1], r[2].uuid)
          THEN <<[r[1] EXCEPT ![r[2].uuid].draw = TRUE], r[2]>>
          ELSE r : r \in load(c, p, o)}

(* Mutation: the old cloud is not erased before a new one is generated.       *)
MutDrawOver(c, p, o) ==
    <<add(c, NewUuid(c, o), Entry(o, TRUE)),
      [p EXCEPT !.uuid = NewUuid(c, o), !.file = "runtime", !.runtime = TRUE]>>

(* A cloud from the mesh of the object: an update of the runtime cloud that   *)
(* is there, otherwise a new entry, beside the one of a file.                 *)
generate(c, p, o) ==
    LET e == erase(c, p.uuid)
        u == NewUuid(e, o)
    IN IF p.uuid # 0 /\ p.runtime /\ Cached(e, p.uuid)
       THEN <<[e EXCEPT ![p.uuid].draw = TRUE], p>>
       ELSE <<add(e, u, Entry(o, TRUE)),
              [p EXCEPT !.uuid = u, !.file = "runtime", !.runtime = TRUE]>>

(* Nothing happens without an entry.                                          *)
reset(c, p) ==
    IF p.uuid = 0 \/ ~p.runtime \/ ~Cached(c, p.uuid) THEN <<c, p>>
    ELSE <<Without(c, p.uuid), [p EXCEPT !.uuid = 0, !.file = "none", !.runtime = FALSE]>>

Becomes(o, r) == cache' = r[1] /\ pcv' = [pcv EXCEPT ![o] = r[2]]

Rest == <<name, sequence, redrawn>>

PCV_OT_load(o) ==
    /\ Panel(o) /\ ~pcv[o].runtime /\ Unused(Without(cache, pcv[o].uuid), o) # {}
    /\ \E r \in load(cache, pcv[o], o) : Becomes(o, r)
    /\ UNCHANGED <<Rest, helpers, seq, manager>>

PCV_OT_draw(o) ==
    /\ Panel(o) /\ Unused(cache, o) # {}
    /\ \/ Cached(cache, pcv[o].uuid) /\ ~cache[pcv[o].uuid].draw
       \/ ~Cached(cache, pcv[o].uuid) /\ pcv[o].file # "none" /\ pcv[o].uuid # 0
    /\ \E r \in draw(cache, pcv[o], o) : Becomes(o, r)
    /\ manager' = TRUE
    /\ UNCHANGED <<Rest, helpers, seq>>

(* Converting a cloud to a mesh erases it too.                                *)
PCV_OT_erase(o) ==
    /\ Panel(o) /\ Drawn(cache, pcv[o].uuid)
    /\ cache' = erase(cache, pcv[o].uuid)
    /\ UNCHANGED <<Rest, pcv, helpers, seq, manager>>

PCV_OT_convert(o) ==
    /\ Panel(o) /\ Drawn(cache, pcv[o].uuid)
    /\ cache' = erase(cache, pcv[o].uuid)
    /\ UNCHANGED <<Rest, pcv, helpers, seq, manager>>

PCV_OT_reload(o) ==
    /\ Panel(o) /\ pcv[o].file # "none" /\ pcv[o].uuid # 0 /\ Unused(cache, o) # {}
    /\ \E r \in reload(cache, pcv[o], o) : Becomes(o, r)
    /\ UNCHANGED <<Rest, helpers, seq, manager>>

PCV_OT_generate_point_cloud(o) ==
    /\ Panel(o) /\ Unused(cache, o) # {}
    /\ Becomes(o, generate(cache, pcv[o], o))
    /\ manager' = TRUE
    /\ UNCHANGED <<Rest, helpers, seq>>

PCV_OT_reset_runtime(o) ==
    /\ Panel(o) /\ pcv[o].runtime
    /\ Becomes(o, reset(erase(cache, pcv[o].uuid), pcv[o]))
    /\ manager' = TRUE
    /\ UNCHANGED <<Rest, helpers, seq>>

(* Any filter that replaces the points of the cloud.                          *)
Filter(o) ==
    /\ Panel(o) /\ Drawn(cache, pcv[o].uuid)
    /\ helpers' = Replaced(helpers, pcv[o].uuid)
    /\ UNCHANGED <<Rest, cache, pcv, seq, manager>>

(* The points of the cloud of q are added, and that cloud erased.             *)
PCV_OT_filter_join(o, q) ==
    /\ Panel(o) /\ Drawn(cache, pcv[o].uuid)
    /\ q \in Alive /\ Cached(cache, pcv[q].uuid)
    /\ cache' = [cache EXCEPT ![pcv[q].uuid].draw = FALSE]
    /\ helpers' = Replaced(helpers, pcv[o].uuid)
    /\ UNCHANGED <<Rest, pcv, seq, manager>>

-----------------------------------------------------------------------------
(* The edit mode: a mesh whose vertices carry the indexes of the points.      *)

PCV_OT_edit_start(o) ==
    /\ Panel(o) /\ Drawn(cache, pcv[o].uuid)
    /\ helpers' = helpers \union {[parent |-> o, uuid |-> pcv[o].uuid, synced |-> TRUE]}
    /\ pcv' = [pcv EXCEPT ![o].edit_initialized = TRUE,
                          ![o].pre = pcv[o].alpha, ![o].alpha = "overlay"]
    /\ UNCHANGED <<Rest, cache, seq, manager>>

Editable(h) == h \in helpers /\ redrawn /\ Drawn(cache, h.uuid)

(* Normals and colours are taken at the stored indexes: an index that is too  *)
(* large for the arrays of now raises, and nothing happens.                   *)
PCV_OT_edit_update(h) ==
    /\ Editable(h)
    /\ \/ helpers' = (helpers \ {h}) \union {[h EXCEPT !.synced = TRUE]}
       \/ ~h.synced /\ UNCHANGED helpers
    /\ UNCHANGED <<Rest, cache, pcv, seq, manager>>

(* The saved alpha is not read again before the next edit saves another.      *)
Restored(p) == [p EXCEPT !.edit_initialized = FALSE, !.alpha = p.pre, !.pre = "none"]

PCV_OT_edit_end(h) ==
    /\ Editable(h)
    /\ \/ /\ helpers' = helpers \ {h}
          /\ pcv' = IF h.parent \in Alive THEN [pcv EXCEPT ![h.parent] = Restored(@)] ELSE pcv
       \/ ~h.synced /\ UNCHANGED <<helpers, pcv>>
    /\ UNCHANGED <<Rest, cache, seq, manager>>

(* The mesh is found by the uuid in its name; the cloud is loaded again.      *)
PCV_OT_edit_cancel(o) ==
    /\ o \in Alive /\ redrawn /\ pcv[o].edit_initialized /\ Unused(cache, o) # {}
    /\ helpers' = Replaced({h \in helpers : ~(h.parent = o /\ h.uuid = pcv[o].uuid)}, pcv[o].uuid)
    /\ LET p == Restored(pcv[o])
       IN \E r \in IF p.file # "none" /\ p.uuid # 0 THEN reload(cache, p, o) ELSE {<<cache, p>>} :
             Becomes(o, r)
    /\ UNCHANGED <<Rest, seq, manager>>

-----------------------------------------------------------------------------
(* Sequences: one cloud for every frame.                                      *)

PCV_OT_sequence_preload(o) ==
    /\ Panel(o) /\ Drawn(cache, pcv[o].uuid) /\ pcv[o].file = "ply"
    /\ \A i \in DOMAIN seq : seq[i].uuid # pcv[o].uuid
    /\ \E items \in ItemCounts :
          seq' = Append(seq, [uuid |-> pcv[o].uuid, obj |-> o, items |-> items, shown |-> 0])
    /\ sequence' = IF sequence.initialized THEN sequence
                   ELSE [initialized |-> TRUE, registered |-> TRUE]
    /\ UNCHANGED <<cache, pcv, name, helpers, manager, redrawn>>

SequenceOff == [initialized |-> FALSE, registered |-> FALSE]

PCV_OT_sequence_clear(o) ==
    /\ Panel(o) /\ Unused(cache, o) # {}
    /\ \E i \in DOMAIN seq :
          /\ seq[i].uuid = pcv[o].uuid
          /\ seq' = RemoveAt(seq, i)
    /\ sequence' = IF seq' = << >> THEN SequenceOff ELSE sequence
    /\ \E r \in reload(cache, pcv[o], o) : Becomes(o, r)
    /\ UNCHANGED <<name, helpers, manager, redrawn>>

(* Mutation: the items are numbered from 0, like the list they are in.        *)
MutItemAt(cf, items) == cf + 1

(* data[cf - 1], where -1 is the last item.                                   *)
ItemAt(cf, items) == IF cf = 0 THEN items ELSE cf

(* The loop of PCVSequence.handler before its first round.                    *)
HandlerStart(frame) ==
    [cf |-> frame, seq |-> seq, ended |-> FALSE, init |-> FALSE, replaced |-> {}]

(* Its round for item i: cf is counted down for a cyclic sequence, and stays  *)
(* so for those that follow.  An item of another cloud is dropped and ends    *)
(* the loop, an exception ends it too.                                        *)
HandlerStep(st, i) ==
    LET item == seq[i]
        items == item.items
        cf == IF item.obj \in Cyclic /\ items > 0 THEN st.cf % items ELSE st.cf
    IN IF st.ended THEN st
       ELSE IF item.obj \notin Alive THEN [st EXCEPT !.ended = TRUE]
       ELSE IF pcv[item.obj].uuid # item.uuid
       THEN [st EXCEPT !.ended = TRUE, !.seq = RemoveAt(@, i)]
       ELSE IF \/ item.obj \in Cyclic /\ items = 0
               \/ ~Cached(cache, item.uuid)
               \/ cf = 0 /\ items = 0
       THEN [st EXCEPT !.ended = TRUE, !.init = TRUE]
       ELSE [st EXCEPT !.cf = cf, !.init = TRUE,
                       !.seq[i].shown = IF cf > items THEN 0 ELSE ItemAt(cf, items),
                       !.replaced = @ \union {item.uuid}]

(* The whole loop.                                                            *)
HandlerLoop(frame) ==
    LET after[i \in 0 .. Len(seq)] ==
          IF i = 0 THEN HandlerStart(frame) ELSE HandlerStep(after[i - 1], i)
    IN  after[Len(seq)]

FrameChange(frame) ==
    /\ sequence.registered /\ redrawn
    /\ LET st == HandlerLoop(frame)
       IN /\ seq' = st.seq
          /\ sequence' = IF seq # << >> /\ st.seq = << >> THEN SequenceOff ELSE sequence
          /\ manager' = (manager \/ st.init)
          /\ helpers' = {IF h.uuid \in st.replaced THEN [h EXCEPT !.synced = FALSE] ELSE h : h \in helpers}
    /\ UNCHANGED <<cache, pcv, name, redrawn>>

-----------------------------------------------------------------------------
(* PCVManager.handler: entries whose object is not there under its name any   *)
(* more are dropped.                                                          *)
handler ==
    /\ manager
    /\ cache' = [u \in {v \in DOMAIN cache : \E o \in Alive : name[o] = cache[v].name} |-> cache[u]]
    /\ redrawn' = TRUE
    /\ UNCHANGED <<pcv, name, helpers, seq, manager, sequence>>

(* The user removes or renames an object, and Blender draws the viewport.     *)
RemoveObject(o) ==
    /\ o \in Alive /\ redrawn
    /\ name' = [name EXCEPT ![o] = 0]
    /\ pcv' = [pcv EXCEPT ![o] = Default]
    /\ redrawn' = ~manager
    /\ UNCHANGED <<cache, helpers, seq, manager, sequence>>

(* A name under which a cloud was loaded is not given to another object.      *)
RenameObject(o) ==
    /\ o \in Alive /\ redrawn
    /\ \E n \in Names :
          /\ \A q \in Alive : name[q] # n
          /\ \A u \in DOMAIN cache : cache[u].name = n => cache[u].obj = o
          /\ name' = [name EXCEPT ![o] = n]
    /\ redrawn' = ~manager
    /\ UNCHANGED <<cache, pcv, helpers, seq, manager, sequence>>

RemoveHelper(h) ==
    /\ h \in helpers /\ redrawn
    /\ helpers' = helpers \ {h}
    /\ UNCHANGED <<Rest, cache, pcv, seq, manager>>

(* Mutation: only the manager is shut down.                                   *)
MutWatchManager ==
    IF manager THEN [cache |-> << >>, seq |-> seq, manager |-> FALSE, sequence |-> sequence]
    ELSE [cache |-> cache, seq |-> seq, manager |-> manager, sequence |-> sequence]

(* The persistent handler that init registered.                               *)
watcher ==
    IF manager THEN [cache |-> << >>, seq |-> << >>, manager |-> FALSE, sequence |-> SequenceOff]
    ELSE [cache |-> cache, seq |-> seq, manager |-> manager, sequence |-> sequence]

(* The file is saved and opened again: the objects keep their properties,     *)
(* Blender drops the handlers that are not persistent.                        *)
Reopen ==
    /\ redrawn
    /\ cache' = watcher.cache /\ seq' = watcher.seq /\ manager' = watcher.manager
    /\ sequence' = [watcher.sequence EXCEPT !.registered = FALSE]
    /\ UNCHANGED <<pcv, name, helpers, redrawn>>

Operator(o) ==
    \/ PCV_OT_load(o) \/ PCV_OT_draw(o) \/ PCV_OT_erase(o) \/ PCV_OT_convert(o)
    \/ PCV_OT_reload(o) \/ PCV_OT_generate_point_cloud(o) \/ PCV_OT_reset_runtime(o)
    \/ Filter(o) \/ (\E q \in Objects : PCV_OT_filter_join(o, q))
    \/ PCV_OT_edit_start(o) \/ PCV_OT_edit_cancel(o)
    \/ PCV_OT_sequence_preload(o) \/ PCV_OT_sequence_clear(o)

CloudsNext ==
    \/ \E o \in Objects : Operator(o) \/ RemoveObject(o) \/ RenameObject(o)
    \/ \E h \in helpers : PCV_OT_edit_update(h) \/ PCV_OT_edit_end(h) \/ RemoveHelper(h)
    \/ \E frame \in 1 .. MaxFrame : FrameChange(frame)
    \/ handler
    \/ Reopen

CloudsSpec == CloudsInit /\ [][CloudsNext]_cloudVars

-----------------------------------------------------------------------------
(* A cloud that is on the screen can be erased: its object is there and its   *)
(* uuid names the entry, through loads, new clouds over old ones, removed and *)
(* renamed objects and reopened files (the entries outlive all of them).      *)
DrawnOwned ==
    redrawn => \A u \in DOMAIN cache :
                  cache[u].draw => cache[u].obj \in Alive /\ pcv[cache[u].obj].uuid = u

(* Something registered runs for everything that waits for it: a cloud that   *)
(* is to be drawn has the draw handler, a sequence the frame handler.  init   *)
(* does nothing when it believes that it was called before.                   *)
Handled ==
    /\ \A u \in DOMAIN cache : cache[u].draw => manager
    /\ seq # << >> => sequence.registered

(* When an edit is over, ended or cancelled, its helper mesh is gone and the  *)
(* alpha is the one the user chose before it began.                           *)
EditRestores ==
    \A o \in Alive : ~pcv[o].edit_initialized =>
        /\ pcv[o].alpha = "chosen"
        /\ \A h \in helpers : h.parent # o

(* The indexes in an edit mesh are indexes of the arrays that edit_update     *)
(* will take them from.  Only a sequence of the same cloud can change these   *)
(* arrays, from the frame handler.                                            *)
EditIndexes ==
    \A h \in helpers : Cached(cache, h.uuid) =>
        h.synced \/ \E i \in DOMAIN seq : seq[i].uuid = h.uuid

(* The file that the description of sequence_use_cyclic gives for a frame,    *)
(* (current_frame % len(ply_files)) - 1, counted from 1; 0 is no file.        *)
FileOfFrame(frame, o, items) ==
    IF o \in Cyclic THEN IF frame % items = 0 THEN items ELSE frame % items
    ELSE IF frame > items THEN 0 ELSE frame

Playable(i) ==
    /\ seq[i].items > 0 /\ seq[i].obj \in Alive
    /\ pcv[seq[i].obj].uuid = seq[i].uuid /\ Cached(cache, seq[i].uuid)

(* After a frame change every sequence shows the file of that frame, if those *)
(* before it in the dictionary can be played and none of them is cyclic.      *)
FrameShown ==
    [][\A frame \in 1 .. MaxFrame : FrameChange(frame) =>
          \A i \in DOMAIN seq :
              (\A j \in 1 .. i : Playable(j) /\ (j < i => seq[j].obj \notin Cyclic)) =>
                  seq'[i].shown = FileOfFrame(frame, seq[i].obj, seq[i].items)]_cloudVars
=============================================================================
