----------------------------- MODULE PCVShading -----------------------------
(****************************************************************************)
(* One point cloud of the Blender add-on on the screen: its entry in          *)
(* PCVManager.cache, the properties of its object, and the redraws.           *)
(* (scripts/calibration/space_view3d_point_cloud_visualizer.py)               *)
(*                                                                            *)
(* Of a GPU batch: how many points it holds, for which settings it was built, *)
(* and, of the default shader's, whether the arrays it was filled from are    *)
(* still the arrays of the entry ("fresh").  Of the selected points: the      *)
(* largest index.                                                             *)
(****************************************************************************)
EXTENDS Naturals, SequencesExt

CONSTANTS
    MaxPoints,   \* bound: points of a cloud
    Percents,    \* the values of display_percent
    ShaderSets   \* the shaders that a behaviour switches on and off

VARIABLES
    used,        \* a member of ShaderSets
    ci,          \* the entry: PCVManager.cache[uuid]
    props        \* object.point_cloud_visualizer

shadingVars == <<used, ci, props>>

(* The shaders that keep a batch under ci['extra'], in the order of drawing.  *)
Extras == <<"DEPTH", "NORMAL", "POSITION", "COLOR_ADJUSTMENT", "BOUNDING_BOX",
            "MINIMAL", "MINIMAL_VARIABLE_SIZE", "MINIMAL_VARIABLE_SIZE_AND_DEPTH",
            "BILLBOARD", "RICH_BILLBOARD", "RICH_BILLBOARD_NO_DEPTH", "PHONG",
            "CLIP", "BILLBOARD_PHONG", "SKIP">>

Sized == {"MINIMAL_VARIABLE_SIZE", "MINIMAL_VARIABLE_SIZE_AND_DEPTH",
          "RICH_BILLBOARD", "RICH_BILLBOARD_NO_DEPTH"}

ASSUME ShadingAssumption ==
    /\ MaxPoints \in Nat
    /\ Percents \subseteq 0 .. 100
    /\ ShaderSets \subseteq SUBSET ToSet(Extras)

(* How many points are shown.                                                 *)
display_length(n, percent) == IF percent >= 99 THEN n ELSE (n * percent) \div 100

Batch(n, illumination) == [n |-> n, illumination |-> illumination, fresh |-> TRUE]

(* The properties of an object that the add-on was never used on.             *)
Defaults == [uuid |-> FALSE,            \* TRUE: the uuid of this entry
             visible |-> TRUE, percent |-> 100,
             illumination |-> FALSE, has_normals |-> FALSE, vertex_normals |-> FALSE,
             on |-> {},                 \* the shaders switched on
             override |-> FALSE,        \* override_default_shader
             false_colors |-> FALSE, circles |-> FALSE,
             selecting |-> FALSE]       \* filter_remove_color_selection

-----------------------------------------------------------------------------
(* Making and replacing an entry.                                             *)

Loaded(p, has_normals) ==
    [p EXCEPT !.uuid = TRUE, !.has_normals = has_normals,
              !.illumination = @ /\ has_normals]

(* What load_ply_to_cache puts in the cache for a file with n points; p are   *)
(* the properties after Loaded.  A file without normals switches              *)
(* illumination off; the flag of the colour selection stays.                  *)
load_ply_to_cache(p, n) ==
    LET l == display_length(n, p.percent)
    IN [n |-> n, display_length |-> l, current_display_length |-> l,
        illumination |-> p.illumination, batch |-> Batch(l, p.illumination),
        vertex_normals |-> {},          \* the length of the stored lines
        extra |-> << >>,
        selection |-> 0,                \* 0: no selection_indexes
        object |-> TRUE]                \* the reference to the object works

(* Mutation: the batch of the default shader is kept, like those of the       *)
(* other shaders.                                                             *)
MutKeepBatch(c, p, n) ==
    LET nl == display_length(n, p.percent)
    IN [c EXCEPT !.n = n, !.display_length = nl, !.current_display_length = nl,
                 !.batch.fresh = FALSE]

(* PCVManager.update: n new points.  The batch of the default shader is built *)
(* again, for the illumination it had; what the other shaders stored stays.   *)
update(c, p, n) ==
    LET nl == display_length(n, p.percent)
    IN [c EXCEPT !.n = n, !.display_length = nl, !.current_display_length = nl,
                 !.batch = Batch(nl, c.illumination)]

-----------------------------------------------------------------------------
(* PCVManager.render, step by step on [c, p, drawn, ended].                   *)

(* The default shader.  The object is looked up by its name when the          *)
(* reference died in an undo, and gets its uuid back.                         *)
draw_default(c, p) ==
    LET c1 == IF c.current_display_length = c.display_length THEN c
              ELSE [c EXCEPT !.current_display_length = c.display_length,
                             !.batch = Batch(c.display_length, c.illumination)]
        c2 == [c1 EXCEPT !.object = TRUE]
        p2 == IF c.object THEN p ELSE [p EXCEPT !.uuid = TRUE]
        c3 == IF c2.illumination = p.illumination THEN c2
              ELSE [c2 EXCEPT !.illumination = p.illumination,
                              !.batch = Batch(c2.current_display_length, p.illumination)]
    IN IF ~p.visible
       THEN [c |-> c2, p |-> p2, drawn |-> {}, ended |-> "returned"]
       ELSE [c |-> c3, p |-> p2, ended |-> "no",
             drawn |-> IF p.override THEN {} ELSE {"DEFAULT"}]

(* The lines along the normals: built again when the count changed.           *)
draw_vertex_normals(st) ==
    LET l == st.c.current_display_length
    IN IF st.ended # "no" \/ ~st.p.vertex_normals \/ ~st.p.has_normals THEN st
       ELSE [st EXCEPT !.c.vertex_normals = {l}, !.drawn = @ \union {"NORMALS"}]

(* Whether the stored batch of shader s is used again.                        *)
use_stored_depth(b, c, p) ==
    b.n = c.current_display_length
        /\ b.illumination = p.illumination /\ b.false_colors = p.false_colors

use_stored_length(b, c) == b.n = c.current_display_length

use_stored_circles(b, c, p) ==
    b.circles = p.circles /\ b.n = c.current_display_length

use_stored_always == TRUE

use_stored(s, c, p) ==
    /\ s \in DOMAIN c.extra
    /\ LET b == c.extra[s]
       IN CASE s = "DEPTH"                      -> use_stored_depth(b, c, p)
            [] s = "BILLBOARD_PHONG"            -> use_stored_circles(b, c, p)
            [] s \in {"BOUNDING_BOX", "SKIP"}   -> use_stored_always
            [] OTHER                            -> use_stored_length(b, c)

(* Two shaders take the minimum and the maximum of the coordinates, of which  *)
(* an empty cloud has none.                                                   *)
NeedsPoints == {"DEPTH", "BOUNDING_BOX"}

(* The shaders with sizes look for the sizes that one of them generated       *)
(* before.  None of them stores both kinds of sizes, so the search fails as   *)
(* soon as it finds one: KeyError.                                            *)
sizes_missing(s, c) == s \in Sized /\ Sized \intersect DOMAIN c.extra # {}

NewExtra(s, c, p) ==
    [n |-> IF s = "SKIP" THEN c.n ELSE c.current_display_length,
     illumination |-> s = "DEPTH" /\ p.illumination,
     false_colors |-> s = "DEPTH" /\ p.false_colors,
     circles |-> s = "BILLBOARD_PHONG" /\ p.circles]

draw_extra(st, s) ==
    IF st.ended # "no" \/ s \notin st.p.on THEN st
    ELSE IF use_stored(s, st.c, st.p) THEN
        IF s \in NeedsPoints /\ st.c.n = 0 THEN [st EXCEPT !.ended = "raised"]
        ELSE [st EXCEPT !.drawn = @ \union {s}]
    ELSE IF sizes_missing(s, st.c) THEN [st EXCEPT !.ended = "raised"]
    ELSE LET b == NewExtra(s, st.c, st.p)
             st1 == [st EXCEPT !.c.extra =
                        [t \in DOMAIN @ \union {s} |-> IF t = s THEN b ELSE @[t]]]
         IN IF s \in NeedsPoints /\ st.c.n = 0 THEN [st1 EXCEPT !.ended = "raised"]
            ELSE [st1 EXCEPT !.drawn = @ \union {s}]

(* Mutation: indexes that are out of range are not noticed.                   *)
MutTakeAnything(st) == st

(* The selection on top of everything; it is reset when an index is out of    *)
(* range.                                                                     *)
draw_selection(st) ==
    IF st.ended # "no" \/ ~st.p.selecting \/ st.c.selection = 0 THEN st
    ELSE IF st.c.selection <= st.c.n THEN st
    ELSE [st EXCEPT !.p.selecting = FALSE, !.c.selection = 0]

(* The shaders one after the other.                                           *)
draw_extras(st) ==
    LET after[i \in 0 .. Len(Extras)] ==
          IF i = 0 THEN st ELSE draw_extra(after[i - 1], Extras[i])
    IN  after[Len(Extras)]

render(c, p) == draw_selection(draw_extras(draw_vertex_normals(draw_default(c, p))))

-----------------------------------------------------------------------------
(* The switches of the shaders: each one switches others off in its update    *)
(* callback, whose own callbacks clear override before the last line sets it. *)

(* Depth, normal and position leave the colour adjustment alone.  The box is  *)
(* no shader of its own.                                                      *)
_update_dev(p, s) ==
    [p EXCEPT !.on = (@ \intersect {"COLOR_ADJUSTMENT", "BOUNDING_BOX"}) \union {s},
              !.override = TRUE]

_update_color_adjustment(p) ==
    [p EXCEPT !.on = (@ \intersect {"BOUNDING_BOX"}) \union {"COLOR_ADJUSTMENT"},
              !.illumination = FALSE, !.override = TRUE]

(* Mutation: the callback forgets one of the shaders it switches off.         *)
MutForgetSkip(p, s) ==
    [p EXCEPT !.on = (@ \intersect {"BOUNDING_BOX", "SKIP"}) \union {s},
              !.illumination = FALSE, !.override = TRUE]

_update_shader(p, s) ==
    [p EXCEPT !.on = (@ \intersect {"BOUNDING_BOX"}) \union {s},
              !.illumination = FALSE, !.override = TRUE]

switched_on(p, s) ==
    CASE s = "BOUNDING_BOX"                     -> [p EXCEPT !.on = @ \union {s}]
      [] s \in {"DEPTH", "NORMAL", "POSITION"}  -> _update_dev(p, s)
      [] s = "COLOR_ADJUSTMENT"                 -> _update_color_adjustment(p)
      [] OTHER                                  -> _update_shader(p, s)

switched_off(p, s) ==
    IF s = "BOUNDING_BOX" THEN [p EXCEPT !.on = @ \ {s}]
    ELSE [p EXCEPT !.on = @ \ {s}, !.override = FALSE]

-----------------------------------------------------------------------------
ShadingInit ==
    /\ used \in ShaderSets
    /\ props = Loaded(Defaults, TRUE)
    /\ ci = load_ply_to_cache(props, MaxPoints)

(* The draw handler for this entry.                                           *)
Redraw ==
    LET st == render(ci, props)
    IN ci' = st.c /\ props' = st.p /\ UNCHANGED used

(* Load or Reload: a new entry takes the place of the old one.                *)
Load ==
    \E n \in 1 .. MaxPoints, has_normals \in BOOLEAN :
        /\ props' = Loaded(props, has_normals)
        /\ ci' = load_ply_to_cache(props', n)
        /\ UNCHANGED used

Toggle(s) ==
    /\ s = "NORMAL" => props.has_normals
    /\ props' = IF s \in props.on THEN switched_off(props, s) ELSE switched_on(props, s)
    /\ UNCHANGED <<used, ci>>

ToggleIllumination ==
    /\ props.has_normals
    /\ props' = [props EXCEPT !.illumination = ~@]
    /\ UNCHANGED <<used, ci>>

ToggleNormals ==
    /\ props.has_normals
    /\ props' = [props EXCEPT !.vertex_normals = ~@]
    /\ UNCHANGED <<used, ci>>

ToggleVisible ==
    props' = [props EXCEPT !.visible = ~@] /\ UNCHANGED <<used, ci>>

ShaderOptions ==
    /\ \/ /\ "DEPTH" \in props.on
          /\ props' = [props EXCEPT !.false_colors = ~@]
       \/ /\ "BILLBOARD_PHONG" \in used
          /\ props' = [props EXCEPT !.circles = ~@]
    /\ UNCHANGED <<used, ci>>

_display_percent_update(percent) ==
    /\ props' = [props EXCEPT !.percent = percent]
    /\ ci' = [ci EXCEPT !.display_length = display_length(ci.n, percent)]
    /\ UNCHANGED used

(* The filters compute new arrays and hand them to update.                    *)
NewPoints(n) == ci' = update(ci, props, n) /\ UNCHANGED <<used, props>>

(* Samples: fewer than there are points, or nothing happens.                  *)
filter_simplify == \E n \in 1 .. ci.n : n < ci.n /\ NewPoints(n)

(* Points too far from the mesh may be discarded; without colours to take     *)
(* from the mesh the operator is cancelled.                                   *)
filter_project == \E n \in 0 .. ci.n : NewPoints(n)

filter_boolean_intersect == \E inside \in 0 .. ci.n : NewPoints(inside)

filter_boolean_exclude == \E inside \in 0 .. ci.n : NewPoints(ci.n - inside)

(* The points of another cloud are appended; its normals may be placeholders, *)
(* has_normals is not looked at.                                              *)
filter_join == \E n \in ci.n .. MaxPoints : NewPoints(n)

(* Points of another file are appended; whether the cloud has normals is      *)
(* decided by that file.                                                      *)
filter_merge ==
    \E n \in ci.n + 1 .. MaxPoints, has_normals \in BOOLEAN :
        /\ props' = [props EXCEPT !.has_normals = has_normals,
                                  !.illumination = @ /\ has_normals]
        /\ ci' = update(ci, props', n)
        /\ UNCHANGED used

filter_remove_color ==
    \E largest \in 1 .. ci.n :
        /\ props' = [props EXCEPT !.selecting = TRUE]
        /\ ci' = [ci EXCEPT !.selection = largest]
        /\ UNCHANGED used

filter_remove_color_deselect ==
    /\ props.selecting /\ ci.selection # 0
    /\ props' = [props EXCEPT !.selecting = FALSE]
    /\ ci' = [ci EXCEPT !.selection = 0]
    /\ UNCHANGED used

(* The delete fails, and changes nothing, when an index is out of range.      *)
filter_remove_color_delete_selected ==
    /\ props.selecting /\ ci.selection \in 1 .. ci.n
    /\ props' = [props EXCEPT !.selecting = FALSE]
    /\ \E removed \in 1 .. ci.selection :
          ci' = [update(ci, props, ci.n - removed) EXCEPT !.selection = 0]
    /\ UNCHANGED used

(* The colours are computed, the stored batches dropped, the switch reset.    *)
color_adjustment_shader_apply ==
    /\ "COLOR_ADJUSTMENT" \in props.on
    /\ props' = switched_off(props, "COLOR_ADJUSTMENT")
    /\ ci' = update([ci EXCEPT !.extra = << >>], props, ci.n)
    /\ UNCHANGED used

clip_planes_from ==
    /\ "CLIP" \in used
    /\ props' = switched_on(props, "CLIP")
    /\ UNCHANGED <<used, ci>>

clip_planes_reset ==
    /\ "CLIP" \in used
    /\ props' = switched_off(props, "CLIP")
    /\ UNCHANGED <<used, ci>>

(* The user's undo goes back to before the add-on was used: its own operators *)
(* leave no undo step.  Every reference to an object dies.                    *)
Undo ==
    /\ props' = Defaults
    /\ ci' = [ci EXCEPT !.object = FALSE]
    /\ UNCHANGED used

(* Blender redraws the viewport when it has handled an undo: the next command *)
(* of the user finds the reference repaired.                                  *)
Command ==
    /\ ci.object
    /\ \/ Load
       \/ \E s \in used : Toggle(s)
       \/ ToggleIllumination \/ ToggleNormals \/ ToggleVisible \/ ShaderOptions
       \/ \E percent \in Percents : _display_percent_update(percent)
       \/ filter_simplify \/ filter_project \/ filter_join \/ filter_merge
       \/ filter_boolean_intersect \/ filter_boolean_exclude
       \/ filter_remove_color \/ filter_remove_color_deselect
       \/ filter_remove_color_delete_selected
       \/ color_adjustment_shader_apply
       \/ clip_planes_from \/ clip_planes_reset
       \/ Undo

ShadingNext == Redraw \/ Command

ShadingSpec == ShadingInit /\ [][ShadingNext]_shadingVars

-----------------------------------------------------------------------------
(* The default batch holds what the entry says it holds, however filters,     *)
(* the percentage, the illumination and undo alternate with the redraws: it   *)
(* was filled from the arrays of now, with current_display_length points, for *)
(* the kind of shader in ci['illumination'] (update and render rebuild it).   *)
BatchCurrent ==
    /\ ci.batch.fresh
    /\ ci.batch.n = ci.current_display_length
    /\ ci.batch.illumination = ci.illumination
    /\ ci.current_display_length <= ci.n

(* The callbacks of the switches leave one shader on, and the default shader  *)
(* is overridden only while another one is there to draw the cloud.  Depth,   *)
(* normal and position are excepted: they may join the colour adjustment,     *)
(* though its description says that "other shaders will be overrided until    *)
(* disabled"; their callbacks do not switch it off.                           *)
ShaderChoice ==
    LET shaders == props.on \ {"BOUNDING_BOX"}
    IN /\ props.override => shaders # {}
       /\ Cardinality(shaders \ {"COLOR_ADJUSTMENT"}) <= 1
       /\ "COLOR_ADJUSTMENT" \in shaders =>
              shaders \subseteq {"COLOR_ADJUSTMENT", "DEPTH", "NORMAL", "POSITION"}

(* A redraw that does not raise shows a visible cloud, what it shows of the   *)
(* selection exists (the code trusts indexes that a filter in between may     *)
(* have made too large), and the object names the entry again, even if the    *)
(* user undid everything since.                                               *)
RedrawShows ==
    LET st == render(ci, props)
    IN st.ended = "no" =>
          /\ st.drawn # {}
          /\ st.p.selecting => st.c.selection <= st.c.n
          /\ st.p.uuid

(* What the comment in the shaders with sizes says: "it was recently          *)
(* switched, try to recover already generated data".  A redraw of a cloud     *)
(* that has points does not raise.  It does: no shader stores both arrays.    *)
SizesRecovered == ci.n > 0 => render(ci, props).ended # "raised"
=============================================================================
