----------------------------- MODULE PlayerTeardown -----------------------------
(***************************************************************************)
(* How the player goes away (Plazma/src/ui/mpv_object.cpp): MpvObject is   *)
(* destroyed on the GUI thread, its renderer on the scene graph's, in any  *)
(* order, while threads of mpv call both back.  They share the mpv handle, *)
(* which the last owner terminates, and the callback guard, whose mutex    *)
(* orders a callback and the end of the object it calls.                   *)
(*                                                                         *)
(* mpv is external: a callback may have been entered when it is unset.     *)
(***************************************************************************)

Callbacks == {"wakeup", "update"}   \* onMpvWakeup(), MpvRenderer::onUpdate()

VARIABLES
    object,     \* MpvObject: "alive", or how far its destructor is
    renderer,   \* MpvRenderer: "none", "alive", or how far its destructor is
    hooks,      \* the callbacks that are set
    callback,   \* where each callback is
    guarded,    \* guard->obj is not null
    holder,     \* who has guard->m
    owners,     \* mpv_: who holds a reference to the handle
    context     \* render_ctx_ exists

teardownVars == <<object, renderer, hooks, callback, guarded, holder, owners, context>>
objectVars == <<object, guarded>>
rendererVars == <<renderer, context>>

Handle == owners # {}

-------------------------------------------------------------------------------
(* The scene graph's thread.                                               *)

(* createRenderer(), while the GUI thread waits.                           *)
MakeRenderer ==
    /\ object = "alive" /\ renderer = "none"
    /\ renderer' = "alive"
    /\ owners' = owners \cup {"renderer"}
    /\ context' = TRUE
    /\ hooks' = hooks \cup {"update"}
    /\ UNCHANGED <<objectVars, callback, holder>>

(* ~MpvRenderer(): no more updates ...                                     *)
DetachUpdates ==
    /\ renderer = "alive"
    /\ renderer' = "detached"
    /\ hooks' = hooks \ {"update"}
    /\ UNCHANGED <<objectVars, callback, holder, owners, context>>

(* ... then the context ...                                                *)
FreeContext ==
    /\ renderer = "detached"
    /\ renderer' = "freed"
    /\ context' = FALSE
    /\ UNCHANGED <<objectVars, hooks, callback, holder, owners>>

(* ... then the references.                                                *)
ReleaseRenderer ==
    /\ renderer = "freed"
    /\ renderer' = "gone"
    /\ owners' = owners \ {"renderer"}
    /\ UNCHANGED <<objectVars, hooks, callback, holder, context>>

-------------------------------------------------------------------------------
(* ~MpvObject(), on the GUI thread.                                        *)

DetachWakeups ==
    /\ object = "alive"
    /\ object' = "detached"
    /\ hooks' = hooks \ {"wakeup"}
    /\ UNCHANGED <<rendererVars, callback, guarded, holder, owners>>

(* Mutant: the pointer is cleared without the mutex.                       *)
AtOnce == TRUE

Unlocked == holder = "nobody"

Silence ==
    /\ object = "detached"
    /\ Unlocked
    /\ object' = "silenced"
    /\ guarded' = FALSE
    /\ UNCHANGED <<rendererVars, hooks, callback, holder, owners>>

ReleaseObject ==
    /\ object = "silenced"
    /\ object' = "gone"
    /\ owners' = owners \ {"object"}
    /\ UNCHANGED <<rendererVars, guarded, hooks, callback, holder>>

-------------------------------------------------------------------------------
(* onMpvWakeup(), onUpdate(), on threads of mpv.                           *)

CallsOf(c, at) == callback' = [callback EXCEPT ![c] = at]

Enter(c) ==
    /\ c \in hooks /\ callback[c] = "idle"
    /\ CallsOf(c, "entered")
    /\ UNCHANGED <<objectVars, rendererVars, hooks, holder, owners>>

(* The mutex, and a look at the pointer.                                   *)
Lock(c) ==
    /\ callback[c] = "entered" /\ holder = "nobody"
    /\ holder' = c
    /\ CallsOf(c, IF guarded THEN "calling" ELSE "leaving")
    /\ UNCHANGED <<objectVars, rendererVars, hooks, owners>>

(* A call is posted to the GUI thread, or none.                            *)
Leave(c) ==
    /\ callback[c] \in {"calling", "leaving"}
    /\ holder' = "nobody"
    /\ CallsOf(c, "idle")
    /\ UNCHANGED <<objectVars, rendererVars, hooks, owners>>

(* The constructor of MpvObject.                                           *)
TeardownInit ==
    /\ object = "alive" /\ guarded = TRUE
    /\ renderer = "none" /\ context = FALSE
    /\ hooks = {"wakeup"} /\ owners = {"object"}
    /\ callback = [c \in Callbacks |-> "idle"] /\ holder = "nobody"

TeardownNext ==
    \/ MakeRenderer \/ DetachUpdates \/ FreeContext \/ ReleaseRenderer
    \/ DetachWakeups \/ Silence \/ ReleaseObject
    \/ \E c \in Callbacks : Enter(c) \/ Lock(c) \/ Leave(c)

TeardownSpec == TeardownInit /\ [][TeardownNext]_teardownVars

-------------------------------------------------------------------------------
(* Properties.                                                             *)

(* Whoever goes first, no callback posts to an object that is being        *)
(* released, not even one that was in flight when it was unset, and the    *)
(* handle is there as long as there is a render context, as mpv demands.   *)
TeardownSafe ==
    /\ \A c \in Callbacks : callback[c] = "calling" => object \in {"alive", "detached"}
    /\ context => Handle
================================================================================
