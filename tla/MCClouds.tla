------------------------------ MODULE MCClouds ------------------------------
(****************************************************************************)
(* The Blender add-on and the converter of certificates for TLC.  A behaviour *)
(* is one of a single part: the picture of one cloud, the clouds of a scene,  *)
(* a simplification, the files, the render operators, the converter.          *)
(****************************************************************************)
EXTENDS PCVShading, PCVClouds, PCVSimplify, PCVFiles, PCVRender, CHeader

VARIABLE which   \* the part that this behaviour is about

Parts == {"shading", "clouds", "simplify", "files", "render", "header"}

PartsInit ==
    /\ which \in Parts
    /\ ShadingInit
    /\ which # "shading" => used = CHOOSE shaders \in ShaderSets : TRUE
    /\ CloudsInit /\ SimplifyInit /\ FilesInit /\ RenderInit /\ HeaderInit

ShadingStep ==
    /\ which = "shading" /\ ShadingNext
    /\ UNCHANGED <<which, cloudVars, simplifyVars, filesVars, renderVars, text>>

CloudsStep ==
    /\ which = "clouds" /\ CloudsNext
    /\ UNCHANGED <<which, shadingVars, simplifyVars, filesVars, renderVars, text>>

SimplifyStep ==
    /\ which = "simplify" /\ SimplifyNext
    /\ UNCHANGED <<which, shadingVars, cloudVars, filesVars, renderVars, text>>

FilesStep ==
    /\ which = "files" /\ FilesNext
    /\ UNCHANGED <<which, shadingVars, cloudVars, simplifyVars, renderVars, text>>

RenderStep ==
    /\ which = "render" /\ RenderNext
    /\ UNCHANGED <<which, shadingVars, cloudVars, simplifyVars, filesVars, text>>

HeaderStep ==
    /\ which = "header" /\ HeaderNext
    /\ UNCHANGED <<which, shadingVars, cloudVars, simplifyVars, filesVars, renderVars>>

PartsNext ==
    ShadingStep \/ CloudsStep \/ SimplifyStep \/ FilesStep \/ RenderStep \/ HeaderStep

PartsSpec ==
    PartsInit /\ [][PartsNext]_<<which, shadingVars, cloudVars, simplifyVars,
                                filesVars, renderVars, text>>
=============================================================================
