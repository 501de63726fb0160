------------------------------ MODULE StudioScene ------------------------------
(***************************************************************************)
(* What the parts of the web studio share: the scene in Blender, and the   *)
(* revision the web app gives it (sceneRefreshTick of stores/chatStore.ts).*)
(* A scene is told apart by the number of the change that made it.         *)
(***************************************************************************)
EXTENDS Naturals, Sequences, FiniteSets

CONSTANTS
    None,
    MaxGestures      \* bound: things the user or the network does

ASSUME SceneAssumption == None \notin Nat /\ MaxGestures \in Nat

VARIABLES
    scene,       \* changes made in Blender so far
    shape,       \* the change that made what Blender shows now
    tick,        \* sceneRefreshTick
    told,        \* the changes that have raised it
    gestures

sceneVars == <<scene, shape, tick, told>>

SceneInit ==
    /\ scene = 0 /\ shape = 0
    /\ tick = 0 /\ told = {}
    /\ gestures = 0

Gesture == gestures < MaxGestures /\ gestures' = gestures + 1

Change == scene' = scene + 1 /\ shape' = scene + 1

\* triggerSceneRefresh, after the given changes.
Announce(changes) == tick' = tick + 1 /\ told' = told \union changes
=============================================================================
