----------------------------- MODULE CameraUpload -----------------------------
(***************************************************************************)
(* Photos that leave this computer: the tray's camera watcher, which polls *)
(* one folder, uploads what has stopped growing and may delete the         *)
(* original, and the Photos tab, which uploads what the user picks in the  *)
(* same folder.  Both run in the tray while cameras, card readers and      *)
(* programs write the files.                                               *)
(*                                                                         *)
(* A photo is [gen, size]: the gen-th file written under its name, whole   *)
(* when its size is Full.  A tick is cameraPoll; a steady writer writes at *)
(* least once between two ticks.                                           *)
(***************************************************************************)
EXTENDS Integers, FiniteSets, Sequences
SetsExt == INSTANCE FiniteSetsExt

CONSTANTS
  Photo,                 \* paths of photos in the camera folder
  Full,                  \* size of a photo that is written to its end
  MaxShots, MaxTicks     \* bounds: files written, ticks

ASSUME FullAssumption  == Full \in Nat \ {0}
ASSUME PhotoAssumption == IsFiniteSet(Photo)

VARIABLES
  shot,      \* shot[p]: the file at p, size 0 when there is none
  watch,     \* the watcher: what it saw, what it has done, a waiting tick
  sender,    \* the two uploads: a queue, the file in hand and its body
  gallery,   \* the bodies the server accepted
  camera     \* history: ticks, who wrote since the last one, who stalled, whether
             \* a pass outlasted a tick
cameraVars == <<shot, watch, sender, gallery, camera>>

Senders  == {"watcher", "tab"}
Content(p) == [photo |-> p, gen |-> shot[p].gen, size |-> shot[p].size]
Nothing  == [photo |-> "none", gen |-> 0, size |-> 0]
Unsent   == [phase |-> "off", queue |-> << >>, body |-> Nothing, delete |-> FALSE,
             calm |-> TRUE]
CameraInit ==
  /\ shot = [p \in Photo |-> [gen |-> 0, size |-> 0]]
  /\ watch = [seen |-> [p \in Photo |-> 0], done |-> {}, waiting |-> FALSE]
  /\ sender = [s \in Senders |-> Unsent]
  /\ gallery = {}
  /\ camera = [ticks |-> 0, wrote |-> {}, stalled |-> {}, late |-> FALSE]

(* A program writes p: whoever has p in hand has read an older state.      *)
Writes1(p, to) ==
  /\ shot' = [shot EXCEPT ![p] = to]
  /\ camera' = [camera EXCEPT !.wrote = @ \cup {p}]
  /\ sender' = [s \in Senders |-> IF sender[s].body.photo = p
                                  THEN [sender[s] EXCEPT !.calm = FALSE] ELSE sender[s]]
  /\ UNCHANGED <<watch, gallery>>
Shot     == SetsExt!MapThenSumSet(LAMBDA p : shot[p].gen, Photo)
Shoot(p) == /\ shot[p].size \in {0, Full} /\ Shot < MaxShots
            /\ Writes1(p, [gen |-> shot[p].gen + 1, size |-> 1])
Grow(p)  == /\ shot[p].size \in 1 .. Full - 1
            /\ Writes1(p, [shot[p] EXCEPT !.size = @ + 1])

-----------------------------------------------------------------------------
(* settled: the sizes of all photos not done replace what was seen; ready  *)
(* are those whose size is the one seen before.  The variant takes a photo *)
(* the first time it sees it.                                              *)
Present    == {p \in Photo : shot[p].size > 0}
AtOnce     == Present \ watch.done
Settled    == {p \in Present \ watch.done : watch.seen[p] = shot[p].size}
SeenNow    == [p \in Photo |-> IF p \in watch.done THEN 0 ELSE shot[p].size]
Orders(ps) == {q \in [1 .. Cardinality(ps) -> ps] :
                 \A m, n \in DOMAIN q : m # n => q[m] # q[n]}

(* pass: held, signed out or without a folder it does nothing; it reads    *)
(* the preference once.                                                    *)
Pass ==
  \/ UNCHANGED <<watch, sender>>
  \/ /\ watch' = [watch EXCEPT !.seen = SeenNow, !.waiting = FALSE]
     /\ \E q \in Orders(Settled), delete \in BOOLEAN :
          sender' = [sender EXCEPT !["watcher"] =
            [Unsent EXCEPT !.phase = IF q = << >> THEN "off" ELSE "next",
                           !.queue = q, !.delete = delete]]

(* The ticker.  A tick that meets a busy loop waits in the channel, one    *)
(* more is dropped.                                                        *)
Busy == sender["watcher"].phase # "off"
Tick ==
  /\ camera.ticks < MaxTicks
  /\ camera' = [camera EXCEPT !.ticks = @ + 1, !.wrote = {}, !.late = @ \/ Busy,
                  !.stalled = @ \cup {<<p, shot[p].gen>> : p \in {q \in Present \ camera.wrote :
                                                                 shot[q].size < Full}}]
  /\ IF Busy THEN watch' = [watch EXCEPT !.waiting = TRUE] /\ UNCHANGED sender ELSE Pass
  /\ UNCHANGED <<shot, gallery>>
LatePass ==
  /\ watch.waiting /\ ~Busy
  /\ \/ Pass /\ watch' # watch
     \/ watch' = [watch EXCEPT !.waiting = FALSE] /\ UNCHANGED sender
  /\ UNCHANGED <<shot, gallery, camera>>

(* sendPhotos, sendPhotoFolder: what the user picks, finished or not.      *)
SendPhotos ==
  /\ sender["tab"].phase = "off"
  /\ \E ps \in SUBSET Present : \E q \in Orders(ps) :
       /\ q # << >>
       /\ sender' = [sender EXCEPT !["tab"] = [Unsent EXCEPT !.phase = "next", !.queue = q]]
  /\ UNCHANGED <<shot, watch, gallery, camera>>

-----------------------------------------------------------------------------
Hand(s, x) == sender' = [sender EXCEPT ![s] = x]
Next1(s)   == IF Len(sender[s].queue) > 1
              THEN [sender[s] EXCEPT !.phase = "next", !.queue = Tail(@), !.body = Nothing,
                                     !.calm = TRUE]
              ELSE Unsent

(* uploadPhoto: the body is what the file holds when the request reads it. *)
ReadBody(s) ==
  LET p == Head(sender[s].queue) IN
  /\ sender[s].phase = "next"
  /\ Hand(s, IF shot[p].size = 0 THEN Next1(s)
             ELSE [sender[s] EXCEPT !.phase = "sent", !.body = Content(p)])
  /\ UNCHANGED <<shot, watch, gallery, camera>>

(* The answer.  A failure is left for the next pass, or named in the       *)
(* summary; the server may have the photo all the same.  The variants      *)
(* remove what failed, and mark it done.                                   *)
UploadFailsRemoves(s) ==
  /\ sender[s].phase = "sent"
  /\ Hand(s, IF sender[s].delete THEN [sender[s] EXCEPT !.phase = "remove"] ELSE Next1(s))
  /\ gallery' \in {gallery, gallery \cup {sender[s].body}}
  /\ UNCHANGED <<shot, watch, camera>>
UploadFailsForGood(s) ==
  /\ sender[s].phase = "sent"
  /\ Hand(s, Next1(s))
  /\ watch' = [watch EXCEPT !.done = @ \cup {sender[s].body.photo}]
  /\ gallery' \in {gallery, gallery \cup {sender[s].body}}
  /\ UNCHANGED <<shot, camera>>
UploadFails(s) ==
  /\ sender[s].phase = "sent"
  /\ Hand(s, Next1(s))
  /\ gallery' \in {gallery, gallery \cup {sender[s].body}}
  /\ UNCHANGED <<shot, watch, camera>>
Deletes(s, duplicate) ==
  IF s = "watcher" THEN {sender[s].delete} ELSE IF duplicate THEN {FALSE} ELSE BOOLEAN
Marked(s) == IF s = "tab" THEN watch
             ELSE [watch EXCEPT !.done = @ \cup {sender[s].body.photo},
                                !.seen[sender[s].body.photo] = 0]
UploadSucceeds(s) ==
  /\ sender[s].phase = "sent"
  /\ gallery' = gallery \cup {sender[s].body}
  /\ watch' = Marked(s)
  /\ \E delete \in Deletes(s, sender[s].body \in gallery) :
       Hand(s, IF delete THEN [sender[s] EXCEPT !.phase = "remove"] ELSE Next1(s))
  /\ UNCHANGED <<shot, camera>>

(* removeUploaded: a file somebody has open cannot be removed; that is     *)
(* logged.                                                                 *)
RemoveUploaded(s) ==
  LET p == sender[s].body.photo IN
  /\ sender[s].phase = "remove"
  /\ shot' \in {shot, [shot EXCEPT ![p].size = 0]}
  /\ Hand(s, Next1(s))
  /\ UNCHANGED <<watch, gallery, camera>>

CameraNext ==
  \/ Tick \/ LatePass \/ SendPhotos
  \/ \E p \in Photo : Shoot(p) \/ Grow(p)
  \/ \E s \in Senders : ReadBody(s) \/ UploadFails(s) \/ UploadSucceeds(s) \/ RemoveUploaded(s)
CameraSpec == CameraInit /\ [][CameraNext]_cameraVars

-----------------------------------------------------------------------------
(* CameraDelete "removes the local copy once the server has it": a file    *)
(* that is removed, and that nobody wrote since its upload read it, is in  *)
(* the gallery as it was, whichever of the two uploads removes it and      *)
(* however often an earlier one of either failed.                          *)
RemovedIsKept ==
  [][\A p \in Photo :
       shot[p].size > 0 /\ shot'[p].size = 0
         => \E s \in Senders : /\ sender[s].phase = "remove" /\ sender[s].body.photo = p
                               /\ sender[s].calm => Content(p) \in gallery]_cameraVars

(* "A poll that only takes files whose size stopped changing cannot upload *)
(* half a video": true of the first file of a name and of a writer that    *)
(* writes in every interval, as long as no pass outlasts a tick: the one   *)
(* after a late pass can follow it at once, and sees no change.            *)
HalvesStayHere ==
  LET b == sender["watcher"].body IN
  ~camera.late /\ sender["watcher"].phase = "sent" /\ b.gen = 1
    => b.size = Full \/ <<b.photo, b.gen>> \in camera.stalled

(* done are "paths already uploaded", so that a failure is tried again: a  *)
(* path is never given up before a file of that name reached the gallery.  *)
DoneWasSent == \A p \in watch.done : \E b \in gallery : b.photo = p
=============================================================================
