-------------------------- MODULE RemoteMediaBuckets --------------------------
(***************************************************************************)
(* How a browser sorts the tracks of one remote participant into a camera  *)
(* and a screen stream (web/src/hooks/peer-stability.ts, and its callers   *)
(* in use-call-room.ts).  Tracks come over the peer connection, and what   *)
(* they belong to is announced through the server: neither waits for the   *)
(* other, and a handler reads the participant as last rendered.  The       *)
(* server announces no more than the policy of the room allows, and the    *)
(* publisher goes on sending what it does not announce.                    *)
(* What the publisher sends the server is handled when it is sent: a delay *)
(* is as good as one of the announcement.                                  *)
(*                                                                         *)
(* A track is named by the stream it was added to and its kind.  Every     *)
(* addTrack of this program passes a stream, so a track without one does   *)
(* not occur here.                                                         *)
(***************************************************************************)
EXTENDS Naturals, Sequences

CONSTANTS
    Camera,     \* id of the publisher's camera and microphone stream
    Screens,    \* ids of its screen shares, a new one for each
    NoStream,
    MaxWire,    \* bound: announcements on their way
    MaxChanges  \* bound: changes of the publisher and of the policy

ASSUME StreamAssumption ==
    NoStream # Camera /\ {Camera, NoStream} \cap Screens = {} /\ {MaxWire, MaxChanges} \subseteq Nat

Kind == {"audio", "video"}
Stream == {Camera} \cup Screens
Track == Stream \X Kind
Governed == {"screen", "systemAudio"}
Media == {"camera", "mic"} \cup Governed

VARIABLES
    on,         \* publisher: media it has switched on
    share,      \* publisher: its current screen stream
    carried,    \* publisher: tracks its peer connection carries
    allowed,    \* server: governed media that the publisher may announce
    stored,     \* server: the media of the publisher
    wire,       \* participant:updated events on their way
    received,   \* browser: the participant of the last event
    known,      \* browser: the participant as last rendered
    live,       \* browser: live tracks of the peer connection
    buckets,    \* browser: the two streams it shows
    sorted,     \* history: the streams were last sorted by what was received
    changes     \* history: changes so far

publisher == <<on, share, carried, changes>>
server == <<allowed, stored>>
vars == <<on, share, carried, allowed, stored, wire, received, known, live, buckets,
          sorted, changes>>

Nothing == [camera |-> NoStream, screen |-> NoStream]
Silent == [on |-> {}, camera |-> NoStream, screen |-> NoStream]

(* sendMediaState: a camera that is off still has its track, a muted       *)
(* microphone alone does not announce its stream.                          *)
MediaState(media, screen, tracks) ==
    [on |-> media,
     camera |-> IF <<Camera, "video">> \in tracks \/ "mic" \in media
                THEN Camera ELSE NoStream,
     screen |-> IF media \cap Governed # {} THEN screen ELSE NoStream]

(* updateMediaState: p, patched with what is asked for and allowed.  An id *)
(* that is undefined is not sent, and the one before stays.                *)
Granted(p, asked, policy) ==
    [on |-> asked.on \ (Governed \ policy),
     camera |-> IF asked.camera = NoStream THEN p.camera ELSE asked.camera,
     screen |-> CASE "screen" \notin policy -> NoStream
                  [] "screen" \in policy /\ asked.screen = NoStream -> p.screen
                  [] OTHER -> asked.screen]

(* updatePolicyAndEnforce: what a new policy leaves of p.                  *)
Enforced(p, policy) ==
    [on |-> p.on \ (Governed \ policy),
     camera |-> p.camera,
     screen |-> IF "screen" \in p.on \ policy THEN NoStream ELSE p.screen]
-----------------------------------------------------------------------------
(* The algorithm, on the ids of the bucketed streams                       *)

OfStream(tracks, s) == {t \in tracks : t[1] = s}
HasLive(tracks, s, kind) == <<s, kind>> \in tracks

Prune(b, alive) ==
    [bucket \in DOMAIN b |-> IF OfStream(alive, b[bucket]) = {} THEN NoStream ELSE b[bucket]]

(* Slip: the other bucket keeps the stream that was moved.                 *)
MoveByCopy(b, p) ==
    IF p.screen # NoStream /\ b.camera = p.screen
    THEN [b EXCEPT !.screen = b.camera] ELSE b

MoveToScreen(b, p) ==
    IF p.screen # NoStream /\ b.camera = p.screen
    THEN [camera |-> NoStream, screen |-> b.camera] ELSE b
MoveToCamera(b, p) ==
    IF p.camera # NoStream /\ b.screen = p.camera
    THEN [camera |-> b.screen, screen |-> NoStream] ELSE b

DropDuplicate(b, p) ==
    CASE b.camera # b.screen \/ NoStream \in {b.camera, p.camera, p.screen} -> b
      [] OTHER -> [camera |-> IF b.camera = p.screen THEN NoStream ELSE b.camera,
                   screen |-> IF b.camera # p.screen /\ b.screen = p.camera
                              THEN NoStream ELSE b.screen]

Reconcile(b, p, alive) ==
    DropDuplicate(MoveToCamera(MoveToScreen(Prune(b, alive), p), p), p)

(* Slip: the flags decide, also for a stream whose id was announced.       *)
ResolveByFlags(b, p, t) ==
    IF t[2] = "video" /\ "screen" \in p.on /\ "camera" \notin p.on
    THEN "screen" ELSE "camera"

ResolveBucket(b, p, t) ==
    CASE t[1] = p.screen -> "screen"
      [] t[1] # p.screen /\ t[1] = p.camera -> "camera"
      [] t[1] \notin {p.screen, p.camera} /\ t[1] = b.screen -> "screen"
      [] t[1] \notin {p.screen, p.camera, b.screen} /\ t[1] = b.camera -> "camera"
      [] OTHER ->
            IF \/ t[2] = "video" /\ "screen" \in p.on /\ "camera" \notin p.on
               \/ t[2] = "audio" /\ "systemAudio" \in p.on /\ "mic" \notin p.on
               \/ /\ t[2] = "audio" /\ ("mic" \in p.on <=> "systemAudio" \in p.on)
                  /\ b.camera # NoStream /\ b.screen = NoStream /\ "screen" \in p.on
            THEN "screen" ELSE "camera"

(* mergeIncomingRemoteTrack: the stream of the track takes the bucket.     *)
Merge(b, p, t, alive) ==
    LET tidy == Reconcile(b, p, alive)
    IN  Reconcile([tidy EXCEPT ![ResolveBucket(tidy, p, t)] = t[1]], p, alive)

(* Slip: media in the other bucket count as well.                          *)
HasSomeMedia(b, p, alive) ==
    LET Shows(kind) == \E bucket \in DOMAIN b : HasLive(alive, b[bucket], kind)
    IN  /\ {"camera", "screen"} \cap p.on # {} => Shows("video")
        /\ {"mic", "systemAudio"} \cap p.on # {} => Shows("audio")

HasExpectedRemoteMedia(b, p, alive) ==
    /\ "camera" \in p.on => HasLive(alive, b.camera, "video")
    /\ "mic" \in p.on => HasLive(alive, b.camera, "audio")
    /\ "screen" \in p.on => HasLive(alive, b.screen, "video")
    /\ "systemAudio" \in p.on => HasLive(alive, b.screen, "audio")
-----------------------------------------------------------------------------
Init ==
    /\ on = {} /\ share = NoStream /\ carried = {}
    /\ allowed = Governed /\ stored = Silent
    /\ wire = <<>> /\ received = Silent /\ known = Silent
    /\ live = {} /\ buckets = Nothing /\ sorted = TRUE /\ changes = 0

(* The publisher                                                           *)

Publish(media, screen, tracks) ==
    /\ Len(wire) < MaxWire /\ changes < MaxChanges
    /\ changes' = changes + 1
    /\ on' = media /\ share' = screen /\ carried' = tracks
    /\ stored' = Granted(stored, MediaState(media, screen, tracks), allowed)
    /\ wire' = Append(wire, stored')
    /\ UNCHANGED <<allowed, received, known, live, buckets, sorted>>

OwnKind(medium) == IF medium = "camera" THEN "video" ELSE "audio"

TurnOn(medium) ==
    /\ medium \notin on
    /\ Publish(on \cup {medium}, share, carried \cup {<<Camera, OwnKind(medium)>>})

(* A track is disabled, not removed.                                       *)
TurnOff(medium) == medium \in on /\ Publish(on \ {medium}, share, carried)

(* startScreenShare: a sender that exists keeps its stream and only has    *)
(* its track replaced.                                                     *)
StartShare(s, media) ==
    LET kinds == IF "systemAudio" \in media THEN Kind ELSE {"video"}
        kept == {t \in carried : t[1] = Camera \/ t[2] \in kinds}
        new == {k \in kinds : \A t \in kept : t[1] = Camera \/ t[2] # k}
    IN  /\ s # share /\ OfStream(carried, s) = {}
        /\ Publish((on \ Governed) \cup media, s, kept \cup ({s} \X new))

StopShare ==
    /\ share # NoStream
    /\ Publish(on \ Governed, NoStream, OfStream(carried, Camera))

(* The owner changes the policy, or the publisher becomes the owner, whom  *)
(* no policy governs.                                                      *)
SetPolicy(policy) ==
    /\ policy # allowed
    /\ Len(wire) < MaxWire /\ changes < MaxChanges
    /\ changes' = changes + 1
    /\ allowed' = policy /\ stored' = Enforced(stored, policy)
    /\ wire' = IF stored' = stored THEN wire ELSE Append(wire, stored')
    /\ UNCHANGED <<on, share, carried, received, known, live, buckets, sorted>>

(* The browser                                                             *)

(* participant:updated: reconciles at once, with the participant it brings *)
ParticipantUpdated ==
    /\ wire # <<>>
    /\ received' = Head(wire) /\ wire' = Tail(wire)
    /\ buckets' = Prune(Reconcile(buckets, Head(wire), live), live)
    /\ sorted' = TRUE
    /\ UNCHANGED <<publisher, server, known, live>>

(* participants/synced, after a reconnect: no bucket is looked at.         *)
ParticipantsSynced ==
    /\ wire' = <<>> /\ received' = stored
    /\ sorted' = (sorted /\ received' = received)
    /\ UNCHANGED <<publisher, server, known, live, buckets>>

Render ==
    /\ known # received /\ known' = received
    /\ UNCHANGED <<publisher, server, wire, received, live, buckets, sorted>>

(* ontrack, for one new track of a negotiated description.  A description  *)
(* removes tracks before it adds any.                                      *)
TrackArrives(t) ==
    /\ live \subseteq carried /\ t \in carried \ live
    /\ live' = live \cup {t}
    /\ buckets' = Prune(Merge(buckets, known, t, live'), live')
    /\ sorted' = (known = received)
    /\ UNCHANGED <<publisher, server, wire, received, known>>

(* The description takes a track out of its stream and mutes it.           *)
TrackRemoved(t) ==
    /\ t \in live \ carried
    /\ live' = live \ {t}
    /\ buckets' = Prune(buckets, live')
    /\ UNCHANGED <<publisher, server, wire, received, known, sorted>>

(* A recreated connection: the tracks of the old one end without an event, *)
(* and the streams stay in their buckets.  If the publisher's end is new   *)
(* as well, its tracks are added to the streams they are in now.           *)
Regrouped == {IF t[1] = Camera THEN t ELSE <<share, t[2]>> : t \in carried}

PeerRecreated ==
    /\ live # {} /\ live' = {}
    /\ carried' \in {carried, Regrouped}
    /\ UNCHANGED <<on, share, changes, server, wire, received, known, buckets, sorted>>

Next ==
    \/ \E medium \in {"camera", "mic"} : TurnOn(medium) \/ TurnOff(medium)
    \/ \E s \in Screens, media \in {{"screen"}, {"screen", "systemAudio"}} : StartShare(s, media)
    \/ StopShare
    \/ \E policy \in SUBSET Governed : SetPolicy(policy)
    \/ ParticipantUpdated \/ ParticipantsSynced \/ Render
    \/ \E t \in Track : TrackArrives(t) \/ TrackRemoved(t)
    \/ PeerRecreated

Spec == Init /\ [][Next]_vars
-----------------------------------------------------------------------------
(* No stream is shown twice, as the camera and as the screen: the          *)
(* reconciliation moves a stream, also when its id becomes known late.     *)
StreamInOneBucket == buckets.camera = buckets.screen => buckets = Nothing

(* The announcements have arrived, and tracks that were taken away are gone *)
Settled == wire = <<>> /\ received = known /\ sorted /\ live \subseteq carried

(* hasExpectedRemoteMedia is what keeps a media recovery from starting.    *)
(* Once the announcements have arrived it is not fooled: if it finds the   *)
(* expected media, they are the camera's and the screen's.  The exception  *)
(* is a publisher that goes on sending what the policy keeps the server    *)
(* from announcing: then a screen may pass for the camera.                 *)
ExpectedIsTrue ==
    Settled /\ on \subseteq known.on /\ HasExpectedRemoteMedia(buckets, known, live) =>
        /\ known.on \cap {"camera", "mic"} # {} => buckets.camera = Camera
        /\ known.on \cap Governed # {} => buckets.screen \in Screens

(* A stream with live tracks that is shown where it was announced, stays   *)
(* there, unless a track comes of a stream that has not been announced:    *)
(* that one may take the bucket.                                           *)
KeptUnlessUnannounced ==
    [][\A bucket \in DOMAIN buckets :
          LET s == buckets[bucket]
          IN  /\ s # NoStream /\ s = known[bucket] /\ s = received'[bucket]
              /\ OfStream(live', s) # {}
              => \/ buckets'[bucket] = s
                 \/ \E t \in live' \ live : t[1] \notin {known.camera, known.screen}]_vars
=============================================================================
