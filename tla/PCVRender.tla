------------------------------ MODULE PCVRender ------------------------------
(****************************************************************************)
(* PCV_OT_render and PCV_OT_render_animation: what they borrow from the scene *)
(* (colour depth, file format, view settings, the frame, the OpenGL state)    *)
(* and whether they give it back, whatever fails on the way.                  *)
(* (scripts/calibration/space_view3d_point_cloud_visualizer.py)               *)
(****************************************************************************)
EXTENDS Naturals

CONSTANT LastFrame    \* the frames of the scene are 1 .. LastFrame

ASSUME RenderAssumption == LastFrame \in Nat \ {0}

VARIABLES
    scene,       \* color_depth, view (format, mode, view transform and look), frame
    gl,          \* the OpenGL switches are on
    images,      \* the images of the file that the operator made
    step,        \* where the operator is
    saved,       \* its local copies: original_depth; cd, view of save_render
    animation,   \* 0, or the frame of the user while an animation is rendered
    chosen,      \* the frame that the user moved to
    failed       \* a render ended without giving back what it borrowed

renderVars == <<scene, gl, images, step, saved, animation, chosen, failed>>

RenderInit ==
    /\ scene = [color_depth |-> "user", view |-> "user", frame |-> 1]
    /\ gl = FALSE /\ images = 0 /\ step = "none" /\ animation = 0
    /\ saved = [original_depth |-> "user", cd |-> "user", view |-> "user"]
    /\ chosen = 1 /\ failed = FALSE

(* bpy.ops raises in the animation when the operator reported an error.       *)
Return(reported) ==
    /\ step' = "none"
    /\ animation' = IF reported THEN 0 ELSE animation
    /\ failed' = (failed \/ (reported /\ (animation # 0 \/ step = "check")))

(* The depth is set before anything is checked.                               *)
Begin ==
    /\ gl' = TRUE
    /\ saved' = [saved EXCEPT !.original_depth = scene.color_depth]
    /\ step' = "check"
    /\ UNCHANGED images

Render ==
    /\ step = "none" /\ animation = 0
    /\ Begin
    /\ scene' = [scene EXCEPT !.color_depth = "8"]
    /\ UNCHANGED <<animation, chosen, failed>>

(* No camera, file never saved, no such directory.                            *)
RenderCancelled ==
    /\ step = "check"
    /\ Return(TRUE)
    /\ UNCHANGED <<scene, gl, images, saved, chosen>>

(* Drawing off the screen; the switches are turned off in any case.           *)
DrawOffscreen ==
    /\ step = "check"
    /\ \/ step' = "save" /\ UNCHANGED <<animation, failed>>
       \/ Return(TRUE)
    /\ gl' = FALSE
    /\ UNCHANGED <<scene, images, saved, chosen>>

(* The image, and save_render up to the writing of the file.                  *)
BeginSave ==
    /\ step = "save"
    /\ images' = 1
    /\ saved' = [saved EXCEPT !.cd = scene.color_depth, !.view = scene.view]
    /\ scene' = [scene EXCEPT !.color_depth = "8", !.view = "png"]
    /\ step' = "write"
    /\ UNCHANGED <<gl, animation, chosen, failed>>

(* Mutation: the handler of the exception only reports it.                    *)
MutKeepView(ok) == IF ok THEN saved.view ELSE scene.view

view_after(ok) == saved.view

(* The file is written or not: the settings are put back, the image removed.  *)
EndSave ==
    /\ step = "write"
    /\ \E ok \in BOOLEAN :
          /\ scene' = [scene EXCEPT !.view = view_after(ok), !.color_depth = saved.original_depth]
          /\ Return(~ok)
    /\ images' = 0
    /\ UNCHANGED <<gl, saved, chosen>>

(* The animation sets the next frame and calls the operator, or is done.      *)
RenderAnimation ==
    /\ step = "none" /\ animation = 0
    /\ animation' = scene.frame
    /\ scene' = [scene EXCEPT !.frame = 1, !.color_depth = "8"]
    /\ Begin
    /\ UNCHANGED <<chosen, failed>>

NextFrame ==
    /\ step = "none" /\ animation # 0 /\ scene.frame < LastFrame
    /\ scene' = [scene EXCEPT !.frame = @ + 1, !.color_depth = "8"]
    /\ Begin
    /\ UNCHANGED <<animation, chosen, failed>>

AnimationDone ==
    /\ step = "none" /\ animation # 0 /\ scene.frame = LastFrame
    /\ scene' = [scene EXCEPT !.frame = animation]
    /\ animation' = 0
    /\ UNCHANGED <<gl, images, step, saved, chosen, failed>>

(* The user sets the depth, and moves to a frame.                             *)
SetScene ==
    /\ step = "none" /\ animation = 0
    /\ \E frame \in 1 .. LastFrame :
          /\ scene' = [scene EXCEPT !.color_depth = "user", !.frame = frame]
          /\ chosen' = frame
    /\ failed' = FALSE
    /\ UNCHANGED <<gl, images, step, saved, animation>>

RenderNext ==
    \/ Render \/ RenderCancelled \/ DrawOffscreen \/ BeginSave \/ EndSave
    \/ RenderAnimation \/ NextFrame \/ AnimationDone \/ SetScene

RenderSpec == RenderInit /\ [][RenderNext]_renderVars

-----------------------------------------------------------------------------
(* Between renders the view settings are the user's and no image is left      *)
(* behind, whatever failed; the colour depth and the frame are the user's     *)
(* unless a render gave up before it wrote its image, or in an animation.     *)
RenderRestores ==
    (step = "none" /\ animation = 0) =>
        /\ scene.view = "user" /\ images = 0
        /\ ~failed => scene.color_depth = "user" /\ scene.frame = chosen
=============================================================================
