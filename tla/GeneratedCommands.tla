------------------------- MODULE GeneratedCommands -------------------------
(***************************************************************************)
(* The commands of mcp-blender-pp-cli. Sixty-four generated files hold the *)
(* same RunE and differ in the path they post to and in whether they take  *)
(* a --params flag: MutateCommand is that file, and each command is one    *)
(* use of it. The other commands are written out. A command is a record:   *)
(*   kind      which RunE: "mutate", "promoted", "query", "probe", "script" *)
(*   path      the synthetic REST path, "" if the command has none         *)
(*   verb      the HTTP verb of the request                                *)
(*   readOnly  the request is sent with doRead rather than do              *)
(*   input     what happens without the required input: "optional" (goes   *)
(*             on), "guarded" (usage error, or help for a human), "help"   *)
(*   plan      the calls a script makes over the bridge                    *)
(***************************************************************************)
EXTENDS Naturals

\* The paths that have a Blender method of their own. The others are served
\* inside the Python MCP server and cannot be reached over the bridge.
bridgeMethodByPath == {
  "/blender_mesh/create", "/blender_mesh/delete", "/blender_mesh/duplicate",
  "/blender_mesh/transform", "/blender_mesh/apply_transform",
  "/blender_mesh/boolean", "/blender_mesh/decimate", "/blender_mesh/remesh",
  "/blender_mesh/simplify_geometry", "/blender_mesh/uv_unwrap",
  "/blender_mesh/mesh_op", "/blender_mesh/modifier",
  "/blender_mesh/origin_cursor", "/blender_material/create",
  "/blender_material/assign", "/blender_material/pbr_setup",
  "/blender_material/procedural_grunge", "/blender_material/toon_shader",
  "/blender_material/transparency", "/blender_material/triplanar",
  "/blender_material/slots", "/blender_material/edit_nodes",
  "/blender_rigging_anim/create_armature", "/blender_rigging_anim/pose_bone",
  "/blender_rigging_anim/setup_ik",
  "/blender_rigging_anim/setup_humanoid_rig",
  "/blender_rigging_anim/create_hair_curves",
  "/blender_rigging_anim/apply_hair_groom",
  "/blender_rigging_anim/set_keyframe", "/blender_rigging_anim/turntable",
  "/blender_rigging_anim/timeline_range",
  "/blender_camera_lighting/camera_setup", "/blender_camera_lighting/look_at",
  "/blender_camera_lighting/frame_objects",
  "/blender_camera_lighting/light_setup",
  "/blender_camera_lighting/studio_lighting",
  "/blender_camera_lighting/sun_sky_rig",
  "/blender_camera_lighting/screenshot",
  "/blender_camera_lighting/compositor_effects",
  "/blender_physics_sim/setup_rigid_body", "/blender_physics_sim/setup_cloth",
  "/blender_physics_sim/add_force_field", "/blender_physics_sim/bake_fluid",
  "/blender_physics_sim/configure_physics",
  "/blender_render_pipeline/render_image",
  "/blender_render_pipeline/render_anim",
  "/blender_render_pipeline/bake_textures",
  "/blender_render_pipeline/export_unity_fbx",
  "/blender_render_pipeline/generate_lods",
  "/blender_render_pipeline/vfx_tracking",
  "/blender_render_pipeline/vfx_shadow_catcher", "/blender_scene/info",
  "/blender_scene/hierarchy", "/blender_scene/collection",
  "/blender_scene/checkpoint_create", "/blender_scene/checkpoint_restore",
  "/blender_scene/checkpoint_list", "/blender_scene/purge_orphans",
  "/blender_scene/job_status", "/blender_scene/job_list",
  "/blender_scene/job_cancel", "/blender_scene/performance",
  "/blender_scene/busy", "/execute_blender_python", "/simplify_geometry", "/"}

HasBridgeMethod(path) == path \in bridgeMethodByPath

MutateCommand(path) ==
  [kind |-> "mutate", path |-> path, verb |-> "POST", readOnly |-> FALSE,
   input |-> "optional", plan |-> "none"]

GuardedCommand(path) == [MutateCommand(path) EXCEPT !.input = "guarded"]

PromotedCommand(path) == [GuardedCommand(path) EXCEPT !.kind = "promoted"]

QueryCommand(path) ==
  [GuardedCommand(path) EXCEPT !.kind = "query", !.readOnly = TRUE]

ScriptCommand(plan, input) ==
  [kind |-> "script", path |-> "", verb |-> "POST", readOnly |-> FALSE,
   input |-> input, plan |-> plan]

AssetsAssetBrowser == MutateCommand("/blender_assets/asset_browser")
AssetsAiGenerate == GuardedCommand("/blender_assets/ai_generate")
AssetsImportOnline == GuardedCommand("/blender_assets/import_online")
AssetsSearchOnline == QueryCommand("/blender_assets/search_online")

AssetsCommands == {
  AssetsAiGenerate, AssetsAssetBrowser, AssetsImportOnline, AssetsSearchOnline}

CameraLightingCameraSetup ==
  MutateCommand("/blender_camera_lighting/camera_setup")
CameraLightingCompositorEffects ==
  MutateCommand("/blender_camera_lighting/compositor_effects")
CameraLightingFrameObjects ==
  MutateCommand("/blender_camera_lighting/frame_objects")
CameraLightingLightSetup ==
  MutateCommand("/blender_camera_lighting/light_setup")
CameraLightingLookAt == MutateCommand("/blender_camera_lighting/look_at")
CameraLightingScreenshot ==
  MutateCommand("/blender_camera_lighting/screenshot")
CameraLightingStudioLighting ==
  MutateCommand("/blender_camera_lighting/studio_lighting")
CameraLightingSunSkyRig ==
  MutateCommand("/blender_camera_lighting/sun_sky_rig")
CameraLightingEvaluateScene ==
  MutateCommand("/blender_camera_lighting/evaluate_scene")

CameraLightingCommands == {
  CameraLightingCameraSetup, CameraLightingCompositorEffects,
  CameraLightingEvaluateScene, CameraLightingFrameObjects,
  CameraLightingLightSetup, CameraLightingLookAt, CameraLightingScreenshot,
  CameraLightingStudioLighting, CameraLightingSunSkyRig}

MaterialAssign == MutateCommand("/blender_material/assign")
MaterialCreate == MutateCommand("/blender_material/create")
MaterialEditNodes == MutateCommand("/blender_material/edit_nodes")
MaterialPbrSetup == MutateCommand("/blender_material/pbr_setup")
MaterialProceduralGrunge ==
  MutateCommand("/blender_material/procedural_grunge")
MaterialSlots == MutateCommand("/blender_material/slots")
MaterialToonShader == MutateCommand("/blender_material/toon_shader")
MaterialTransparency == MutateCommand("/blender_material/transparency")
MaterialTriplanar == MutateCommand("/blender_material/triplanar")

MaterialCommands == {
  MaterialAssign, MaterialCreate, MaterialEditNodes, MaterialPbrSetup,
  MaterialProceduralGrunge, MaterialSlots, MaterialToonShader,
  MaterialTransparency, MaterialTriplanar}

MeshApplyTransform == MutateCommand("/blender_mesh/apply_transform")
MeshBoolean == MutateCommand("/blender_mesh/boolean")
MeshCreate == MutateCommand("/blender_mesh/create")
MeshDecimate == MutateCommand("/blender_mesh/decimate")
MeshDelete == MutateCommand("/blender_mesh/delete")
MeshDuplicate == MutateCommand("/blender_mesh/duplicate")
MeshMeshOp == MutateCommand("/blender_mesh/mesh_op")
MeshModifier == MutateCommand("/blender_mesh/modifier")
MeshOriginCursor == MutateCommand("/blender_mesh/origin_cursor")
MeshRemesh == MutateCommand("/blender_mesh/remesh")
MeshSimplifyGeometry == MutateCommand("/blender_mesh/simplify_geometry")
MeshTransform == MutateCommand("/blender_mesh/transform")
MeshUvUnwrap == MutateCommand("/blender_mesh/uv_unwrap")

MeshCommands == {
  MeshApplyTransform, MeshBoolean, MeshCreate, MeshDecimate, MeshDelete,
  MeshDuplicate, MeshMeshOp, MeshModifier, MeshOriginCursor, MeshRemesh,
  MeshSimplifyGeometry, MeshTransform, MeshUvUnwrap}

PhysicsSimAddForceField ==
  MutateCommand("/blender_physics_sim/add_force_field")
PhysicsSimBakeFluid == MutateCommand("/blender_physics_sim/bake_fluid")
PhysicsSimConfigurePhysics ==
  MutateCommand("/blender_physics_sim/configure_physics")
PhysicsSimSetupCloth == MutateCommand("/blender_physics_sim/setup_cloth")
PhysicsSimSetupRigidBody ==
  MutateCommand("/blender_physics_sim/setup_rigid_body")

PhysicsSimCommands == {
  PhysicsSimAddForceField, PhysicsSimBakeFluid, PhysicsSimConfigurePhysics,
  PhysicsSimSetupCloth, PhysicsSimSetupRigidBody}

RenderPipelineBakeTextures ==
  MutateCommand("/blender_render_pipeline/bake_textures")
RenderPipelineExportUnityFbx ==
  MutateCommand("/blender_render_pipeline/export_unity_fbx")
RenderPipelineGenerateLods ==
  MutateCommand("/blender_render_pipeline/generate_lods")
RenderPipelineRenderAnim ==
  MutateCommand("/blender_render_pipeline/render_anim")
RenderPipelineRenderImage ==
  MutateCommand("/blender_render_pipeline/render_image")
RenderPipelineVfxShadowCatcher ==
  MutateCommand("/blender_render_pipeline/vfx_shadow_catcher")
RenderPipelineVfxTracking ==
  MutateCommand("/blender_render_pipeline/vfx_tracking")

RenderPipelineCommands == {
  RenderPipelineBakeTextures, RenderPipelineExportUnityFbx,
  RenderPipelineGenerateLods, RenderPipelineRenderAnim,
  RenderPipelineRenderImage, RenderPipelineVfxShadowCatcher,
  RenderPipelineVfxTracking}

RiggingAnimApplyHairGroom ==
  MutateCommand("/blender_rigging_anim/apply_hair_groom")
RiggingAnimCreateArmature ==
  MutateCommand("/blender_rigging_anim/create_armature")
RiggingAnimCreateHairCurves ==
  MutateCommand("/blender_rigging_anim/create_hair_curves")
RiggingAnimPoseBone == MutateCommand("/blender_rigging_anim/pose_bone")
RiggingAnimSetKeyframe == MutateCommand("/blender_rigging_anim/set_keyframe")
RiggingAnimSetupHumanoidRig ==
  MutateCommand("/blender_rigging_anim/setup_humanoid_rig")
RiggingAnimSetupIk == MutateCommand("/blender_rigging_anim/setup_ik")
RiggingAnimTimelineRange ==
  MutateCommand("/blender_rigging_anim/timeline_range")
RiggingAnimTurntable == MutateCommand("/blender_rigging_anim/turntable")

RiggingAnimCommands == {
  RiggingAnimApplyHairGroom, RiggingAnimCreateArmature,
  RiggingAnimCreateHairCurves, RiggingAnimPoseBone, RiggingAnimSetKeyframe,
  RiggingAnimSetupHumanoidRig, RiggingAnimSetupIk, RiggingAnimTimelineRange,
  RiggingAnimTurntable}

SceneBusy == MutateCommand("/blender_scene/busy")
SceneCheckpointCreate == MutateCommand("/blender_scene/checkpoint_create")
SceneCheckpointList == MutateCommand("/blender_scene/checkpoint_list")
SceneCheckpointRestore == MutateCommand("/blender_scene/checkpoint_restore")
SceneCollection == MutateCommand("/blender_scene/collection")
SceneHierarchy == MutateCommand("/blender_scene/hierarchy")
SceneInfo == MutateCommand("/blender_scene/info")
SceneJobCancel == MutateCommand("/blender_scene/job_cancel")
SceneJobList == MutateCommand("/blender_scene/job_list")
SceneJobStatus == MutateCommand("/blender_scene/job_status")
ScenePerformance == MutateCommand("/blender_scene/performance")
ScenePurgeOrphans == MutateCommand("/blender_scene/purge_orphans")
SceneRegen == ScriptCommand("regen", "optional")

SceneCommands == {
  SceneBusy, SceneCheckpointCreate, SceneCheckpointList,
  SceneCheckpointRestore, SceneCollection, SceneHierarchy, SceneInfo,
  SceneJobCancel, SceneJobList, SceneJobStatus, ScenePerformance,
  ScenePurgeOrphans, SceneRegen}

DocsPromoted == QueryCommand("/blender_docs")
PythonExecPromoted == PromotedCommand("/execute_blender_python")
SimplifyGeometryPromoted == PromotedCommand("/simplify_geometry")
ImportOnlineAssetPromoted == ScriptCommand("import", "help")
EvaluateSceneVisuallyPromoted == ScriptCommand("evaluate", "help")
SearchOnlineAssetsPromoted == ScriptCommand("search", "help")

\* doctor asks "/" whether the bridge is there.
Doctor ==
  [kind |-> "probe", path |-> "/", verb |-> "GET", readOnly |-> FALSE,
   input |-> "optional", plan |-> "none"]

Commands ==
  AssetsCommands \cup CameraLightingCommands \cup MaterialCommands \cup
  MeshCommands \cup PhysicsSimCommands \cup RenderPipelineCommands \cup
  RiggingAnimCommands \cup SceneCommands \cup
  {DocsPromoted, PythonExecPromoted, SimplifyGeometryPromoted,
   ImportOnlineAssetPromoted, EvaluateSceneVisuallyPromoted,
   SearchOnlineAssetsPromoted, Doctor}

\* All that a run of a command depends on, beside its options and the world.
Class(c) ==
  [kind |-> c.kind, verb |-> c.verb, readOnly |-> c.readOnly,
   input |-> c.input, plan |-> c.plan, equiv |-> HasBridgeMethod(c.path)]

Classes == {Class(c) : c \in Commands}

\* The request changes state at the other end: do() with a mutating verb.
IsMutation(c) == c.verb # "GET" /\ ~c.readOnly /\ c.kind # "script"
=============================================================================
