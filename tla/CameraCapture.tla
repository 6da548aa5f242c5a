--------------------------- MODULE CameraCapture ---------------------------
(***************************************************************************)
(* The camera of a chat: components/CameraCaptureDrawer.tsx.               *)
(*                                                                         *)
(* startCamera stops the stream it knows, then waits for getUserMedia and  *)
(* for the video to play; capturePhoto waits for the canvas.  Neither      *)
(* looks at anything again afterwards.  A change of state, the render and  *)
(* the effects that follow from it are one step.  Leaving the conversation *)
(* unmounts the drawer; what still waits then works on a component that is *)
(* gone, and the next one starts afresh.                                   *)
(***************************************************************************)
EXTENDS Naturals

CONSTANTS
    Starts,     \* bound on the calls of startCamera that wait
    MaxStreams  \* bound on streams that are open

VARIABLES
    open,     \* the drawer is open
    photo,    \* captured holds a photo
    starting, \* isStartingCamera
    failed,   \* cameraError is shown
    starts,   \* where each call of startCamera stands
    shot,     \* a call of capturePhoto waits for its blob
    held,     \* streamRef holds a stream
    live,     \* how many camera streams are open
    crossed   \* a call of startCamera was overtaken since all streams were closed

vars == <<open, photo, starting, failed, starts, shot, held, live, crossed>>

Waiting == \E s \in Starts : starts[s] \in {"asking", "orphan"}

Init ==
    /\ open = FALSE /\ photo = FALSE
    /\ starting = FALSE /\ failed = FALSE
    /\ starts = [s \in Starts |-> "idle"] /\ shot = FALSE
    /\ held = FALSE /\ live = 0
    /\ crossed = FALSE

-----------------------------------------------------------------------------
\* stopCamera, and what is open then; a call that waits has been overtaken.
StoppedNothing == live
Stopped == IF held THEN live - 1 ELSE live

StopCamera ==
    /\ held' = FALSE /\ live' = Stopped
    /\ crossed' = (Waiting \/ (crossed /\ live' # 0))

\* startCamera, up to getUserMedia.
StartCamera ==
    /\ StopCamera
    /\ starting' = TRUE /\ failed' = FALSE
    /\ \E s \in Starts : starts[s] = "idle" /\ starts' = [starts EXCEPT ![s] = "asking"]

\* A photo from before the drawer was closed is still there.
Open ==
    /\ ~open /\ open' = TRUE
    /\ IF photo THEN UNCHANGED <<starting, failed, starts, held, live, crossed>>
                ELSE StartCamera
    /\ UNCHANGED <<photo, shot>>

\* handleClose, or handleSend with a photo, and the effect of a closed drawer.
Close ==
    /\ open /\ open' = FALSE
    /\ photo' = FALSE /\ failed' = FALSE /\ starting' = FALSE
    /\ StopCamera
    /\ UNCHANGED <<starts, shot>>

\* Flip camera, Retry camera, Redo: the effect on facingMode or captured, or
\* the button, starts the camera again.
Restart ==
    /\ open
    /\ \/ ~photo /\ ~starting
       \/ ~photo /\ failed
       \/ photo
    /\ photo' = FALSE /\ StartCamera
    /\ UNCHANGED <<open, shot>>

\* The conversation is left: the last effect's cleanup.
Unmount ==
    /\ open' = FALSE /\ photo' = FALSE
    /\ starting' = FALSE /\ failed' = FALSE /\ shot' = FALSE
    /\ starts' = [s \in Starts |->
           CASE starts[s] = "asking" -> "orphan"
             [] starts[s] = "playing" -> "idle"
             [] OTHER -> starts[s]]
    /\ StopCamera

-----------------------------------------------------------------------------
\* The camera is granted; there is a video element while the drawer shows one.
Granted(s) ==
    /\ starts[s] = "asking" /\ live < MaxStreams
    /\ held' = TRUE /\ live' = live + 1
    /\ IF open /\ ~photo
       THEN starts' = [starts EXCEPT ![s] = "playing"] /\ UNCHANGED starting
       ELSE starts' = [starts EXCEPT ![s] = "idle"] /\ starting' = FALSE
    /\ UNCHANGED <<open, photo, failed, shot, crossed>>

\* It is granted to a drawer that is gone: nobody will stop it.
GrantedLate(s) ==
    /\ starts[s] = "orphan" /\ live < MaxStreams
    /\ starts' = [starts EXCEPT ![s] = "idle"]
    /\ live' = live + 1 /\ crossed' = TRUE
    /\ UNCHANGED <<open, photo, starting, failed, shot, held>>

\* The video plays, or it does not.
Plays(s, ok) ==
    /\ starts[s] = "playing"
    /\ starts' = [starts EXCEPT ![s] = "idle"]
    /\ starting' = FALSE /\ failed' = (failed \/ ~ok)
    /\ UNCHANGED <<open, photo, shot, held, live, crossed>>

Denied(s) ==
    /\ starts[s] \in {"asking", "orphan"}
    /\ starts' = [starts EXCEPT ![s] = "idle"]
    /\ IF starts[s] = "asking" THEN starting' = FALSE /\ failed' = TRUE
                               ELSE UNCHANGED <<starting, failed>>
    /\ UNCHANGED <<open, photo, shot, held, live, crossed>>

\* capturePhoto: without a picture it says so and returns.
Capture ==
    /\ open /\ ~photo /\ ~starting /\ ~shot
    /\ \/ held /\ shot' = TRUE /\ UNCHANGED failed
       \/ shot' = FALSE /\ failed' = TRUE
    /\ UNCHANGED <<open, photo, starting, starts, held, live, crossed>>

\* The blob is there: whatever the drawer does meanwhile, the photo is kept.
Captured ==
    /\ shot /\ shot' = FALSE
    /\ photo' = TRUE /\ StopCamera
    /\ UNCHANGED <<open, starting, failed, starts>>

CaptureFails ==
    /\ shot /\ shot' = FALSE
    /\ failed' = TRUE
    /\ UNCHANGED <<open, photo, starting, starts, held, live, crossed>>

Next ==
    \/ Open \/ Close \/ Restart \/ Unmount
    \/ \E s \in Starts : Granted(s) \/ GrantedLate(s) \/ Denied(s)
                         \/ \E ok \in BOOLEAN : Plays(s, ok)
    \/ Capture \/ Captured \/ CaptureFails

Spec == Init /\ [][Next]_vars

-----------------------------------------------------------------------------
\* The state is well formed.
TypeOK ==
    /\ {open, photo, starting, failed, shot, held, crossed} \subseteq BOOLEAN
    /\ starts \in [Starts -> {"idle", "asking", "playing", "orphan"}]
    /\ live \in 0..MaxStreams /\ (held => live > 0)

\* The camera is on only while the drawer is open and shows what it sees, and
\* one stream is open then: however opening, flipping, taking and leaving
\* interleave with the answers of the browser, unless one of these overtook a
\* start that had not been answered (CameraCaptureDrawer.tsx, startCamera).
CameraIsOff ==
    live # 0 /\ ~crossed => open /\ ~photo /\ held /\ live = 1

\* As long as nothing was overtaken, at most one start waits, for a drawer that
\* shows no picture yet, and no start waits for one that is gone.
OneAsks ==
    ~crossed => \A s \in Starts :
        /\ starts[s] # "orphan"
        /\ starts[s] = "asking" =>
              open /\ ~photo /\ live = 0 /\ \A u \in Starts \ {s} : starts[u] # "asking"

IInv == TypeOK /\ OneAsks /\ CameraIsOff
=============================================================================
