----------------------- MODULE RemoteMediaBucketsProofs -----------------------
(***************************************************************************)
(* Theorems about RemoteMediaBuckets for any number of screen shares,      *)
(* changes of the publisher and announcements on their way.                *)
(***************************************************************************)
EXTENDS RemoteMediaBuckets, SequenceTheorems, TLAPS

Buckets == [camera: Stream \cup {NoStream}, screen: Stream \cup {NoStream}]

LEMMA BucketNames ==
    ASSUME NEW b \in Buckets PROVE DOMAIN b = {"camera", "screen"}
BY DEF Buckets

Distinct(b) == b.camera = b.screen => b.camera = NoStream

(* A stream that both buckets hold, of which the reconciliation can tell   *)
(* where it belongs: mergeIncomingRemoteTrack makes no other.              *)
Separable(b, p) == Distinct(b) \/ b.camera \in {p.camera, p.screen}

(* pruneEndedRemoteMedia *)
LEMMA PruneEffect ==
    ASSUME NEW b \in Buckets, NEW alive
    PROVE  /\ Prune(b, alive) \in Buckets
           /\ Prune(b, alive).camera \in {b.camera, NoStream}
           /\ Prune(b, alive).screen \in {b.screen, NoStream}
           /\ b.camera = b.screen => Prune(b, alive).camera = Prune(b, alive).screen
<1>1. DOMAIN b = {"camera", "screen"}
  BY DEF Buckets
<1>2. /\ Prune(b, alive).camera = IF OfStream(alive, b.camera) = {} THEN NoStream ELSE b.camera
      /\ Prune(b, alive).screen = IF OfStream(alive, b.screen) = {} THEN NoStream ELSE b.screen
      /\ Prune(b, alive) = [camera |-> Prune(b, alive).camera, screen |-> Prune(b, alive).screen]
  BY <1>1 DEF Prune
<1>3. /\ Prune(b, alive).camera \in Stream \cup {NoStream}
      /\ Prune(b, alive).screen \in Stream \cup {NoStream}
  BY <1>2 DEF Buckets
<1>4. Prune(b, alive) \in Buckets
  BY <1>2, <1>3 DEF Buckets
<1> QED
  BY <1>2, <1>4

(* The two moves of reconcileRemoteMediaBuckets leave a stream in one      *)
(* bucket, and so does the removal of a duplicate.                         *)
LEMMA MoveEffect ==
    ASSUME NEW b \in Buckets, NEW p
    PROVE  LET m == MoveToCamera(MoveToScreen(b, p), p)
           IN  /\ m \in Buckets
               /\ Separable(b, p) => Distinct(m)
<1> DEFINE a == MoveToScreen(b, p)
           m == MoveToCamera(a, p)
<1>1. a \in Buckets /\ m \in Buckets
  BY DEF MoveToScreen, MoveToCamera, Buckets
<1>2. ASSUME Separable(b, p)
      PROVE  Distinct(a) \/ (a.screen = p.camera /\ p.camera # NoStream)
  BY <1>2 DEF MoveToScreen, Separable, Distinct, Buckets
<1>3. ASSUME Separable(b, p) PROVE Distinct(m)
  BY <1>2, <1>3 DEF MoveToCamera, Distinct
<1> QED
  BY <1>1, <1>3

LEMMA ReconcileEffect ==
    ASSUME NEW b \in Buckets, NEW p, NEW alive, Separable(b, p)
    PROVE  Reconcile(b, p, alive) \in Buckets /\ Distinct(Reconcile(b, p, alive))
<1> DEFINE a == Prune(b, alive)
           m == MoveToCamera(MoveToScreen(a, p), p)
<1>1. a \in Buckets /\ Separable(a, p)
  BY PruneEffect DEF Separable, Distinct
<1>2. m \in Buckets /\ Distinct(m)
  BY <1>1, MoveEffect
<1>3. ASSUME NEW c \in Buckets, Distinct(c)
      PROVE  DropDuplicate(c, p) = c
  BY <1>3 DEF DropDuplicate, Distinct
<1> QED
  BY <1>2, <1>3 DEF Reconcile

Put(b, k, s) == [b EXCEPT ![k] = s]

(* The stream of a new track goes to one bucket, that of its announcement  *)
(* if there is one; if it is in the other as well, it has been announced.  *)
LEMMA PutEffect ==
    ASSUME NEW b \in Buckets, Distinct(b), NEW p, NEW t \in Track,
           NEW k, k = ResolveBucket(b, p, t), NEW put, put = Put(b, k, t[1])
    PROVE  /\ put \in Buckets /\ Separable(put, p)
           /\ k = "screen" => put.camera = b.camera /\ put.screen = t[1]
           /\ k = "camera" => put.camera = t[1] /\ put.screen = b.screen
           /\ t[1] = p.screen => k = "screen"
           /\ t[1] = p.camera /\ t[1] # p.screen => k = "camera"
<1>1. t[1] \in Stream /\ t[1] # NoStream
  BY StreamAssumption DEF Track, Stream
<1>2. k \in {"camera", "screen"} /\ (t[1] = p.screen => k = "screen")
      /\ (t[1] = p.camera /\ t[1] # p.screen => k = "camera")
  BY DEF ResolveBucket
<1>3. t[1] \notin {p.screen, p.camera} =>
         /\ t[1] = b.screen => k = "screen"
         /\ t[1] # b.screen /\ t[1] = b.camera => k = "camera"
  BY DEF ResolveBucket
<1>4. /\ k = "screen" => put = [camera |-> b.camera, screen |-> t[1]]
      /\ k = "camera" => put = [camera |-> t[1], screen |-> b.screen]
  <2>1. DOMAIN b = {"camera", "screen"}
    BY DEF Buckets
  <2>2. put = [x \in {"camera", "screen"} |-> IF x = k THEN t[1] ELSE b[x]]
    BY <1>2, <2>1 DEF Put
  <2> QED
    BY <1>2, <2>2
<1>5. put \in Buckets
  BY <1>1, <1>2, <1>4 DEF Buckets
<1>6. Separable(put, p)
  <2>1. CASE t[1] \in {p.screen, p.camera}
    BY <1>2, <1>4, <2>1 DEF Separable, Distinct
  <2>2. CASE t[1] \notin {p.screen, p.camera}
    BY <1>1, <1>2, <1>3, <1>4, <2>2 DEF Separable, Distinct
  <2> QED
    BY <2>1, <2>2
<1> QED
  BY <1>2, <1>4, <1>5, <1>6

LEMMA MergeEffect ==
    ASSUME NEW b \in Buckets, Distinct(b), NEW p, NEW t \in Track, NEW alive
    PROVE  Merge(b, p, t, alive) \in Buckets /\ Distinct(Merge(b, p, t, alive))
<1> DEFINE tidy == Reconcile(b, p, alive)
           put  == Put(tidy, ResolveBucket(tidy, p, t), t[1])
<1>1. tidy \in Buckets /\ Distinct(tidy)
  BY ReconcileEffect DEF Separable
<1>2. put \in Buckets /\ Separable(put, p)
  BY <1>1, PutEffect
<1> HIDE DEF put
<1> QED
  BY <1>2, ReconcileEffect DEF Merge, put, Put

(***************************************************************************)
(* Every handler that touches the buckets leaves a stream in one of them.  *)
(***************************************************************************)
BucketsInv == buckets \in Buckets /\ Distinct(buckets)

LEMMA BucketsInit == Init => BucketsInv
BY DEF Init, BucketsInv, Buckets, Distinct, Nothing

LEMMA BucketsNext == BucketsInv /\ [Next]_vars => BucketsInv'
<1> SUFFICES ASSUME BucketsInv, [Next]_vars PROVE BucketsInv'
  OBVIOUS
<1>1. CASE ParticipantUpdated
  <2> DEFINE b == Reconcile(buckets, Head(wire), live)
  <2>1. b \in Buckets /\ Distinct(b)
    BY ReconcileEffect DEF BucketsInv, Separable
  <2> HIDE DEF b
  <2>2. Prune(b, live) \in Buckets /\ Distinct(Prune(b, live))
    BY <2>1, PruneEffect DEF Distinct
  <2> QED
    BY <1>1, <2>2 DEF ParticipantUpdated, BucketsInv, b
<1>2. ASSUME NEW t \in Track, TrackArrives(t) PROVE BucketsInv'
  <2> DEFINE b == Merge(buckets, known, t, live')
  <2>1. b \in Buckets /\ Distinct(b)
    BY MergeEffect DEF BucketsInv
  <2> HIDE DEF b
  <2>2. Prune(b, live') \in Buckets /\ Distinct(Prune(b, live'))
    BY <2>1, PruneEffect DEF Distinct
  <2> QED
    BY <1>2, <2>2 DEF TrackArrives, BucketsInv, b
<1>3. ASSUME NEW t \in Track, TrackRemoved(t) PROVE BucketsInv'
  <2>1. Prune(buckets, live') \in Buckets /\ Distinct(Prune(buckets, live'))
    BY PruneEffect DEF BucketsInv, Distinct
  <2> QED
    BY <1>3, <2>1 DEF TrackRemoved, BucketsInv
<1>4. ASSUME NEW medium, TurnOn(medium) \/ TurnOff(medium) PROVE BucketsInv'
  BY <1>4 DEF TurnOn, TurnOff, Publish, BucketsInv
<1>5. ASSUME NEW s, NEW media, StartShare(s, media) PROVE BucketsInv'
  BY <1>5 DEF StartShare, Publish, BucketsInv
<1>6. CASE StopShare \/ ParticipantsSynced \/ Render \/ PeerRecreated
  BY <1>6 DEF StopShare, Publish, ParticipantsSynced, Render, PeerRecreated, BucketsInv
<1>7. ASSUME NEW policy, SetPolicy(policy) PROVE BucketsInv'
  BY <1>7 DEF SetPolicy, BucketsInv
<1>8. CASE UNCHANGED vars
  BY <1>8 DEF vars, BucketsInv
<1> QED
  BY <1>1, <1>2, <1>3, <1>4, <1>5, <1>6, <1>7, <1>8 DEF Next

(* No stream is shown twice, as the camera and as the screen.              *)
THEOREM NoStreamTwice == Spec => []StreamInOneBucket
<1>1. BucketsInv => StreamInOneBucket
  BY DEF BucketsInv, Buckets, Distinct, StreamInOneBucket, Nothing
<1> QED
  BY <1>1, BucketsInit, BucketsNext, PTL DEF Spec

(***************************************************************************)
(* What is announced, and what the publisher carries.                      *)
(***************************************************************************)
MediaStates == [on: SUBSET Media, camera: {Camera, NoStream}, screen: Screens \cup {NoStream}]

(* No bucket holds what was announced for the other. *)
Placed(b, p) ==
    /\ p.screen # NoStream => b.camera # p.screen
    /\ p.camera # NoStream => b.screen # p.camera

LEMMA AnnouncedApart ==
    ASSUME NEW p \in MediaStates
    PROVE  p.camera = p.screen => p.camera = NoStream
BY StreamAssumption DEF MediaStates

(* reconcileRemoteMediaBuckets puts streams where they were announced and  *)
(* leaves those alone that are there.                                      *)
LEMMA ReconcilePlaces ==
    ASSUME NEW b \in Buckets, NEW p \in MediaStates, NEW alive, Separable(b, p)
    PROVE  Placed(Reconcile(b, p, alive), p)
<1> DEFINE a == Prune(b, alive)
           s == MoveToScreen(a, p)
           m == MoveToCamera(s, p)
<1>1. a \in Buckets /\ Separable(a, p)
  BY PruneEffect DEF Separable, Distinct
<1>2. m \in Buckets /\ Distinct(m)
  BY <1>1, MoveEffect
<1>3. DropDuplicate(m, p) = m
  BY <1>2 DEF DropDuplicate, Distinct
<1>4. p.screen # NoStream => s.camera # p.screen
  BY <1>1 DEF MoveToScreen
<1>5. Placed(m, p)
  BY <1>4, AnnouncedApart DEF MoveToCamera, Placed
<1> QED
  BY <1>3, <1>5 DEF Reconcile

LEMMA PruneKeepsPlaced ==
    ASSUME NEW b \in Buckets, NEW p \in MediaStates, NEW alive, Placed(b, p)
    PROVE  Placed(Prune(b, alive), p)
BY PruneEffect DEF Placed

LEMMA PruneKeepsLive ==
    ASSUME NEW b \in Buckets, NEW alive, NEW k \in {"camera", "screen"}, OfStream(alive, b[k]) # {}
    PROVE  Prune(b, alive)[k] = b[k]
<1>1. DOMAIN b = {"camera", "screen"}
  BY DEF Buckets
<1> QED
  BY <1>1 DEF Prune

LEMMA ReconcileKeeps ==
    ASSUME NEW b \in Buckets, Distinct(b), NEW p \in MediaStates, NEW alive,
           NEW k \in {"camera", "screen"}, b[k] = p[k], b[k] # NoStream, OfStream(alive, b[k]) # {}
    PROVE  Reconcile(b, p, alive)[k] = b[k]
<1> DEFINE a == Prune(b, alive)
           s == MoveToScreen(a, p)
           m == MoveToCamera(s, p)
<1>1. a \in Buckets /\ Distinct(a) /\ a[k] = b[k]
  BY PruneEffect, PruneKeepsLive DEF Distinct
<1>2. m \in Buckets /\ Distinct(m)
  BY <1>1, MoveEffect DEF Separable
<1>3. DropDuplicate(m, p) = m
  BY <1>2 DEF DropDuplicate, Distinct
<1> HIDE DEF a
<1>4. m = a
  <2>1. CASE k = "camera"
    <3>1. a.camera = p.camera /\ p.camera # NoStream
      BY <1>1, <2>1
    <3>2. a.camera # p.screen /\ a.screen # p.camera
      BY <1>1, <3>1, AnnouncedApart DEF Distinct
    <3> QED
      BY <3>2 DEF MoveToScreen, MoveToCamera
  <2>2. CASE k = "screen"
    <3>1. a.screen = p.screen /\ p.screen # NoStream
      BY <1>1, <2>2
    <3>2. a.camera # p.screen /\ a.screen # p.camera
      BY <1>1, <3>1, AnnouncedApart DEF Distinct
    <3> QED
      BY <3>2 DEF MoveToScreen, MoveToCamera
  <2> QED
    BY <2>1, <2>2
<1> QED
  BY <1>1, <1>3, <1>4 DEF Reconcile, a

LEMMA MergePlaces ==
    ASSUME NEW b \in Buckets, Distinct(b), NEW p \in MediaStates, NEW t \in Track, NEW alive
    PROVE  Placed(Merge(b, p, t, alive), p)
<1> DEFINE tidy == Reconcile(b, p, alive)
           put  == Put(tidy, ResolveBucket(tidy, p, t), t[1])
<1>1. tidy \in Buckets /\ Distinct(tidy)
  BY ReconcileEffect DEF Separable
<1>2. put \in Buckets /\ Separable(put, p)
  BY <1>1, PutEffect
<1> HIDE DEF put
<1> QED
  BY <1>2, ReconcilePlaces DEF Merge, put, Put

(* An announced track of one bucket leaves the other bucket alone. *)
LEMMA MergeKeeps ==
    ASSUME NEW b \in Buckets, Distinct(b), NEW p \in MediaStates, NEW t \in Track, NEW alive,
           t[1] \in {p.camera, p.screen},
           NEW k \in {"camera", "screen"}, b[k] = p[k], b[k] # NoStream, OfStream(alive, b[k]) # {}
    PROVE  Merge(b, p, t, alive)[k] = b[k]
<1> DEFINE tidy == Reconcile(b, p, alive)
           put  == Put(tidy, ResolveBucket(tidy, p, t), t[1])
<1>1. tidy \in Buckets /\ Distinct(tidy) /\ tidy[k] = b[k]
  BY ReconcileEffect, ReconcileKeeps DEF Separable
<1> HIDE DEF tidy
<1>2. /\ put \in Buckets
      /\ t[1] = p.screen => put.camera = tidy.camera /\ put.screen = t[1]
      /\ t[1] = p.camera /\ t[1] # p.screen => put.camera = t[1] /\ put.screen = tidy.screen
  <2> DEFINE bucket == ResolveBucket(tidy, p, t)
  <2>1. bucket = ResolveBucket(tidy, p, t) /\ put = Put(tidy, bucket, t[1])
    OBVIOUS
  <2> HIDE DEF bucket, put
  <2>2. tidy \in Buckets /\ Distinct(tidy)
    BY <1>1
  <2>3. /\ put \in Buckets
        /\ bucket = "screen" => put.camera = tidy.camera /\ put.screen = t[1]
        /\ bucket = "camera" => put.camera = t[1] /\ put.screen = tidy.screen
        /\ t[1] = p.screen => bucket = "screen"
        /\ t[1] = p.camera /\ t[1] # p.screen => bucket = "camera"
    BY <2>1, <2>2, PutEffect
  <2> QED
    BY <2>3
<1> HIDE DEF put
<1>3. put[k] = b[k] /\ Distinct(put)
  BY <1>1, <1>2, AnnouncedApart DEF Distinct
<1>4. put[k] = p[k] /\ put[k] # NoStream /\ OfStream(alive, put[k]) # {}
  BY <1>3
<1>5. Reconcile(put, p, alive)[k] = put[k]
  BY <1>2, <1>3, <1>4, ReconcileKeeps
<1> QED
  BY <1>3, <1>5 DEF Merge, put, tidy, Put

(***************************************************************************)
(* The inductive invariant.  Of each kind the publisher carries one track  *)
(* that is not the camera's or the microphone's, and only while it shares  *)
(* it; what was announced last is what the server stores of it; that is    *)
(* nothing the publisher has not switched on, and with the camera's stream *)
(* if that may carry a track; and sorted streams are not in the bucket of  *)
(* the other announcement.  What the policy withholds from the screen does *)
(* not matter: an expected screen is found by its tracks.                  *)
(***************************************************************************)
Carries(media, screen, tracks) ==
    /\ media \in SUBSET Media /\ screen \in Screens \cup {NoStream} /\ tracks \in SUBSET Track
    /\ "camera" \in media => <<Camera, "video">> \in tracks
    /\ "systemAudio" \in media => "screen" \in media
    /\ screen # NoStream <=> "screen" \in media
    /\ \A t \in tracks : t[1] # Camera =>
          "screen" \in media /\ (t[2] = "audio" => "systemAudio" \in media)
    /\ \A t, u \in tracks : t[1] # Camera /\ u[1] # Camera /\ t[2] = u[2] => t = u

Announces(p, media, tracks) ==
    /\ p.on \subseteq media
    /\ "mic" \in media \/ <<Camera, "video">> \in tracks => p.camera = Camera

LastAnnounced(w, r) == IF w = <<>> THEN r ELSE w[Len(w)]

SortInv ==
    /\ BucketsInv
    /\ Carries(on, share, carried) /\ live \in SUBSET Track
    /\ wire \in Seq(MediaStates) /\ received \in MediaStates /\ known \in MediaStates
    /\ stored \in MediaStates /\ Announces(stored, on, carried)
    /\ LastAnnounced(wire, received) = stored
    /\ sorted => Placed(buckets, received)

LEMMA TrackPair ==
    ASSUME NEW t \in Track
    PROVE  t[1] \in Stream /\ t[2] \in Kind /\ t = <<t[1], t[2]>> /\ t[1] # NoStream
BY StreamAssumption DEF Track, Stream

(* sendMediaState and updateMediaState: an id is kept when a new one is    *)
(* not sent.                                                               *)
LEMMA GrantedAnnounces ==
    ASSUME NEW p \in MediaStates, NEW policy, NEW m, NEW s, NEW c, Carries(m, s, c)
    PROVE  LET x == Granted(p, MediaState(m, s, c), policy)
           IN  x \in MediaStates /\ Announces(x, m, c)
<1> DEFINE a == MediaState(m, s, c)
           x == Granted(p, a, policy)
<1>1. /\ a \in MediaStates /\ a.on = m
      /\ "mic" \in m \/ <<Camera, "video">> \in c => a.camera = Camera
  BY DEF Carries, MediaState, MediaStates
<1> HIDE DEF a
<1>2. x.on \subseteq m /\ x.on \subseteq Media
  BY <1>1 DEF Granted, MediaStates
<1>3. x.camera \in {Camera, NoStream} /\ (a.camera = Camera => x.camera = Camera)
  BY <1>1, StreamAssumption DEF Granted, MediaStates
<1>4. x.screen \in Screens \cup {NoStream}
  BY <1>1 DEF Granted, MediaStates
<1>5. x = [on |-> x.on, camera |-> x.camera, screen |-> x.screen]
  BY DEF Granted
<1> HIDE DEF x
<1>6. x \in MediaStates /\ Announces(x, m, c)
  BY <1>1, <1>2, <1>3, <1>4, <1>5 DEF MediaStates, Announces
<1> QED
  BY <1>6 DEF x, a

(* updatePolicyAndEnforce *)
LEMMA EnforcedAnnounces ==
    ASSUME NEW p \in MediaStates, NEW policy, NEW m, NEW c, Announces(p, m, c)
    PROVE  Enforced(p, policy) \in MediaStates /\ Announces(Enforced(p, policy), m, c)
<1> DEFINE x == Enforced(p, policy)
<1>1. /\ x.on \subseteq p.on /\ x.camera = p.camera /\ x.screen \in {p.screen, NoStream}
      /\ x = [on |-> x.on, camera |-> x.camera, screen |-> x.screen]
  BY DEF Enforced
<1> HIDE DEF x
<1>2. x \in MediaStates /\ Announces(x, m, c)
  BY <1>1 DEF MediaStates, Announces
<1> QED
  BY <1>2 DEF x

(* An announcement behind those on their way is the last one. *)
LEMMA AppendAnnounces ==
    ASSUME NEW x \in MediaStates, NEW r, NEW w \in Seq(MediaStates), NEW v, v = Append(w, x)
    PROVE  v \in Seq(MediaStates) /\ LastAnnounced(v, r) = x
<1>1. v \in Seq(MediaStates) /\ v # <<>> /\ Len(v) = Len(w) + 1 /\ v[Len(w) + 1] = x
  BY AppendProperties
<1> QED
  BY <1>1 DEF LastAnnounced

LEMMA PublishSorts ==
    ASSUME SortInv, BucketsInv', NEW m, NEW s, NEW c, Publish(m, s, c), Carries(m, s, c)
    PROVE  SortInv'
<1>1. /\ on' = m /\ share' = s /\ carried' = c /\ wire' = Append(wire, stored')
      /\ stored' = Granted(stored, MediaState(m, s, c), allowed)
      /\ UNCHANGED <<received, known, live, buckets, sorted>>
  BY DEF Publish
<1>2. stored' \in MediaStates /\ Announces(stored', m, c)
  BY <1>1, GrantedAnnounces DEF SortInv
<1>3. wire \in Seq(MediaStates)
  BY DEF SortInv
<1>4. wire' \in Seq(MediaStates) /\ LastAnnounced(wire', received') = stored'
  BY <1>1, <1>2, <1>3, AppendAnnounces
<1> QED
  BY <1>1, <1>2, <1>4 DEF SortInv

LEMMA SetPolicySorts ==
    ASSUME SortInv, BucketsInv', NEW policy, SetPolicy(policy)
    PROVE  SortInv'
<1>1. /\ stored' = Enforced(stored, policy)
      /\ wire' = IF stored' = stored THEN wire ELSE Append(wire, stored')
      /\ UNCHANGED <<on, share, carried, received, known, live, buckets, sorted>>
  BY DEF SetPolicy
<1>2. stored' \in MediaStates /\ Announces(stored', on, carried)
  BY <1>1, EnforcedAnnounces DEF SortInv
<1>3. wire \in Seq(MediaStates) /\ LastAnnounced(wire, received) = stored
  BY DEF SortInv
<1>4. wire' \in Seq(MediaStates) /\ LastAnnounced(wire', received') = stored'
  BY <1>1, <1>2, <1>3, AppendAnnounces
<1> QED
  BY <1>1, <1>2, <1>4 DEF SortInv

LEMMA OwnMediaSort ==
    ASSUME SortInv, BucketsInv', NEW medium \in {"camera", "mic"}, TurnOn(medium) \/ TurnOff(medium)
    PROVE  SortInv'
<1>1. Carries(on, share, carried)
  BY DEF SortInv
<1>2. ASSUME TurnOn(medium) PROVE SortInv'
  <2> DEFINE m == on \cup {medium}
             own == <<Camera, OwnKind(medium)>>
             c == carried \cup {own}
  <2>1. Publish(m, share, c)
    BY <1>2 DEF TurnOn
  <2>2. own \in Track /\ own[1] = Camera /\ own[2] \in Kind /\ (medium = "camera" => own = <<Camera, "video">>)
    BY DEF OwnKind, Track, Stream, Kind
  <2> HIDE DEF own
  <2>3. m \in SUBSET Media /\ share \in Screens \cup {NoStream} /\ c \in SUBSET Track
    BY <1>1, <2>2 DEF Carries, Media
  <2>4. /\ "camera" \in m => <<Camera, "video">> \in c
        /\ "systemAudio" \in m => "screen" \in m
        /\ share # NoStream <=> "screen" \in m
    BY <1>1, <2>2 DEF Carries
  <2>5. \A t \in c : t[1] # Camera => "screen" \in m /\ (t[2] = "audio" => "systemAudio" \in m)
    BY <1>1, <2>2 DEF Carries
  <2>6. \A t, u \in c : t[1] # Camera /\ u[1] # Camera /\ t[2] = u[2] => t = u
    BY <1>1, <2>2 DEF Carries
  <2> HIDE DEF m, c
  <2>7. Carries(m, share, c)
    BY <2>3, <2>4, <2>5, <2>6 DEF Carries
  <2> QED
    BY <2>1, <2>7, PublishSorts
<1>3. ASSUME TurnOff(medium) PROVE SortInv'
  <2> DEFINE m == on \ {medium}
  <2>1. Publish(m, share, carried)
    BY <1>3 DEF TurnOff
  <2>2. Carries(m, share, carried)
    BY <1>1 DEF Carries, Media
  <2> HIDE DEF m
  <2> QED
    BY <2>1, <2>2, PublishSorts
<1> QED
  BY <1>2, <1>3

(* startScreenShare: a track of a kind that has a sender keeps its stream. *)
LEMMA StartShareSorts ==
    ASSUME SortInv, BucketsInv', NEW s \in Screens,
           NEW media \in {{"screen"}, {"screen", "systemAudio"}}, StartShare(s, media)
    PROVE  SortInv'
<1> DEFINE kinds == IF "systemAudio" \in media THEN Kind ELSE {"video"}
           kept == {t \in carried : t[1] = Camera \/ t[2] \in kinds}
           new == {k \in kinds : \A t \in kept : t[1] = Camera \/ t[2] # k}
           m == (on \ Governed) \cup media
           c == kept \cup ({s} \X new)
<1>1. Publish(m, s, c)
  BY DEF StartShare
<1>2. Carries(on, share, carried)
  BY DEF SortInv
<1>3. /\ "screen" \in media /\ media \subseteq Governed
      /\ kinds \subseteq Kind /\ ("audio" \in kinds => "systemAudio" \in media)
  BY DEF Kind, Governed
<1> HIDE DEF kinds
<1>4. s \in Stream /\ s # NoStream /\ s # Camera
  BY StreamAssumption DEF Stream
<1>5. \A t \in kept : t \in carried /\ t \in Track /\ (t[1] = Camera \/ t[2] \in kinds)
  BY <1>2 DEF Carries
<1>6. \A t \in {s} \X new : /\ t \in Track /\ t[1] = s /\ t[2] \in kinds /\ t = <<s, t[2]>>
                            /\ \A u \in kept : u[1] = Camera \/ u[2] # t[2]
  BY <1>3, <1>4 DEF Track
<1>7. \A t \in carried : t[1] = Camera => t \in kept
  OBVIOUS
<1> HIDE DEF kept, new
<1>8. m \in SUBSET Media /\ c \in SUBSET Track
  BY <1>2, <1>3, <1>5, <1>6 DEF Carries, Media, Governed
<1>9. <<Camera, "video">>[1] = Camera
  OBVIOUS
<1>10. /\ "camera" \in m => <<Camera, "video">> \in c
       /\ "systemAudio" \in m => "screen" \in m
       /\ s # NoStream <=> "screen" \in m
  BY <1>2, <1>3, <1>4, <1>7, <1>9 DEF Carries, Governed
<1>11. \A t \in c : t[1] # Camera => "screen" \in m /\ (t[2] = "audio" => "systemAudio" \in m)
  BY <1>3, <1>5, <1>6
<1>12. \A t, u \in c : t[1] # Camera /\ u[1] # Camera /\ t[2] = u[2] => t = u
  <2> SUFFICES ASSUME NEW t \in c, NEW u \in c, t[1] # Camera, u[1] # Camera, t[2] = u[2]
               PROVE  t = u
    OBVIOUS
  <2>1. CASE t \in kept /\ u \in kept
    BY <1>2, <1>5, <2>1 DEF Carries
  <2>2. CASE t \in {s} \X new /\ u \in {s} \X new
    BY <1>6, <2>2
  <2>3. CASE t \in kept /\ u \in {s} \X new
    BY <1>6, <2>3
  <2>4. CASE t \in {s} \X new /\ u \in kept
    BY <1>6, <2>4
  <2> QED
    BY <2>1, <2>2, <2>3, <2>4
<1> HIDE DEF m, c
<1>13. Carries(m, s, c)
  BY <1>8, <1>10, <1>11, <1>12 DEF Carries
<1> QED
  BY <1>1, <1>13, PublishSorts

LEMMA StopShareSorts ==
    ASSUME SortInv, BucketsInv', StopShare
    PROVE  SortInv'
<1> DEFINE m == on \ Governed
           c == OfStream(carried, Camera)
<1>1. Publish(m, NoStream, c)
  BY DEF StopShare
<1>2. Carries(on, share, carried)
  BY DEF SortInv
<1>3. \A t : t \in c <=> t \in carried /\ t[1] = Camera
  BY DEF OfStream
<1>4. <<Camera, "video">>[1] = Camera
  OBVIOUS
<1> HIDE DEF c
<1>5. Carries(m, NoStream, c)
  BY <1>2, <1>3, <1>4 DEF Carries, Governed
<1> HIDE DEF m
<1> QED
  BY <1>1, <1>5, PublishSorts

(* syncPeerTracks on a new connection: announcements stay true. *)
LEMMA RecreationSorts ==
    ASSUME SortInv, BucketsInv', PeerRecreated
    PROVE  SortInv'
<1>1. Carries(on, share, carried)
  BY DEF SortInv
<1>2. /\ live' = {} /\ carried' \in {carried, Regrouped}
      /\ UNCHANGED <<on, share, changes, server, wire, received, known, buckets, sorted>>
  BY DEF PeerRecreated
<1>3. /\ Carries(on, share, Regrouped)
      /\ <<Camera, "video">> \in Regrouped <=> <<Camera, "video">> \in carried
  <2> DEFINE f(t) == IF t[1] = Camera THEN t ELSE <<share, t[2]>>
             c == Regrouped
  <2>1. /\ \A t \in carried : f(t) \in c
        /\ \A u \in c : \E t \in carried : u = f(t)
    BY DEF Regrouped
  <2>2. ASSUME NEW t \in carried
        PROVE  /\ f(t) \in Track /\ f(t)[2] = t[2]
               /\ t[1] = Camera => f(t) = t
               /\ t[1] # Camera => f(t)[1] = share /\ share # Camera /\ f(t) = <<share, t[2]>>
    <3>1. t \in Track /\ t[1] \in Stream /\ t[2] \in Kind
      BY <1>1, TrackPair DEF Carries
    <3>2. t[1] # Camera => share \in Screens
      BY <1>1 DEF Carries
    <3> QED
      BY <3>1, <3>2, StreamAssumption DEF Track, Stream
  <2> HIDE DEF f, c
  <2>3. c \in SUBSET Track
    BY <2>1, <2>2
  <2>4. <<Camera, "video">> \in c <=> <<Camera, "video">> \in carried
    <3> DEFINE v == <<Camera, "video">>
    <3>1. v[1] = Camera
      OBVIOUS
    <3> HIDE DEF v
    <3>2. v \in c <=> v \in carried
      BY <2>1, <2>2, <3>1
    <3> QED
      BY <3>2 DEF v
  <2>5. \A u \in c : u[1] # Camera => "screen" \in on /\ (u[2] = "audio" => "systemAudio" \in on)
    <3> SUFFICES ASSUME NEW u \in c, u[1] # Camera
                 PROVE  "screen" \in on /\ (u[2] = "audio" => "systemAudio" \in on)
      OBVIOUS
    <3>1. PICK t \in carried : u = f(t)
      BY <2>1
    <3>2. t[1] # Camera /\ t[2] = u[2]
      BY <2>2, <3>1
    <3> QED
      BY <1>1, <3>2 DEF Carries
  <2>6. \A u, w \in c : u[1] # Camera /\ w[1] # Camera /\ u[2] = w[2] => u = w
    <3> SUFFICES ASSUME NEW u \in c, NEW w \in c, u[1] # Camera, w[1] # Camera, u[2] = w[2]
                 PROVE  u = w
      OBVIOUS
    <3>1. PICK t \in carried : u = f(t)
      BY <2>1
    <3>2. PICK x \in carried : w = f(x)
      BY <2>1
    <3>3. u = <<share, u[2]>> /\ w = <<share, w[2]>>
      BY <2>2, <3>1, <3>2
    <3> QED
      BY <3>3
  <2>7. Carries(on, share, c)
    BY <1>1, <2>3, <2>4, <2>5, <2>6 DEF Carries
  <2> QED
    BY <2>4, <2>7 DEF c
<1>4. Carries(on', share', carried')
  BY <1>1, <1>2, <1>3
<1>5. Announces(stored', on', carried')
  BY <1>2, <1>3 DEF SortInv, Announces, server
<1> QED
  BY <1>2, <1>4, <1>5 DEF SortInv, server

LEMMA SortInit == Init => SortInv
<1> SUFFICES ASSUME Init PROVE SortInv
  OBVIOUS
<1>1. BucketsInv
  BY BucketsInit
<1>2. Carries(on, share, carried)
  BY DEF Init, Carries
<1>3. Silent \in MediaStates /\ Announces(Silent, {}, {})
  BY DEF Silent, MediaStates, Announces
<1>4. wire = <<>> /\ received = Silent /\ known = Silent /\ live = {} /\ on = {} /\ share = NoStream /\ carried = {}
      /\ buckets = Nothing /\ stored = Silent
  BY DEF Init
<1>5. LastAnnounced(wire, received) = stored
  BY <1>4 DEF LastAnnounced
<1>6. Placed(buckets, received)
  BY <1>4 DEF Placed, Nothing, Silent
<1>7. wire \in Seq(MediaStates)
  BY <1>4
<1> QED
  BY <1>1, <1>2, <1>3, <1>4, <1>5, <1>6, <1>7 DEF SortInv

LEMMA SortNext == SortInv /\ [Next]_vars => SortInv'
<1> SUFFICES ASSUME SortInv, [Next]_vars PROVE SortInv'
  OBVIOUS
<1>1. BucketsInv'
  BY BucketsNext DEF SortInv
<1>2. buckets \in Buckets /\ Distinct(buckets)
  BY DEF SortInv, BucketsInv
<1>3. ASSUME NEW medium \in {"camera", "mic"}, TurnOn(medium) \/ TurnOff(medium) PROVE SortInv'
  BY <1>1, <1>3, OwnMediaSort
<1>4. ASSUME NEW s \in Screens, NEW media \in {{"screen"}, {"screen", "systemAudio"}},
             StartShare(s, media)
      PROVE  SortInv'
  BY <1>1, <1>4, StartShareSorts
<1>5. CASE StopShare
  BY <1>1, <1>5, StopShareSorts
<1>6. CASE ParticipantUpdated
  <2> DEFINE p == Head(wire)
             b == Reconcile(buckets, p, live)
  <2>1. /\ wire # <<>> /\ received' = p /\ wire' = Tail(wire) /\ buckets' = Prune(b, live)
        /\ UNCHANGED <<publisher, server, known, live>>
    BY <1>6 DEF ParticipantUpdated
  <2>2. wire \in Seq(MediaStates)
    BY DEF SortInv
  <2>3. p \in MediaStates /\ wire' \in Seq(MediaStates) /\ p = wire[1]
        /\ Len(wire) \in Nat /\ Len(wire) # 0 /\ Len(wire') = Len(wire) - 1
        /\ \A i \in 1 .. Len(wire') : wire'[i] = wire[i + 1]
    BY <2>1, <2>2, HeadTailProperties, LenProperties, EmptySeq
  <2> HIDE DEF p
  <2>4. b \in Buckets /\ Placed(b, p)
    BY <1>2, <2>3, ReconcileEffect, ReconcilePlaces DEF Separable
  <2>5. Placed(buckets', received')
    BY <2>1, <2>3, <2>4, PruneKeepsPlaced
  <2>6. LastAnnounced(wire', received') = LastAnnounced(wire, received)
    <3>1. CASE wire' = <<>>
      <4>1. Len(wire) = 1
        BY <2>3, <3>1, EmptySeq
      <4> QED
        BY <2>1, <2>3, <3>1, <4>1 DEF LastAnnounced
    <3>2. CASE wire' # <<>>
      <4>1. Len(wire') \in 1 .. Len(wire') /\ Len(wire') + 1 = Len(wire)
        BY <2>3, <3>2, EmptySeq, LenProperties
      <4> QED
        BY <2>1, <2>3, <3>2, <4>1 DEF LastAnnounced
    <3> QED
      BY <3>1, <3>2
  <2> QED
    BY <1>1, <2>1, <2>3, <2>5, <2>6 DEF SortInv, publisher, server
<1>7. CASE ParticipantsSynced
  <2>1. /\ wire' = <<>> /\ received' = stored
        /\ sorted' = (sorted /\ received' = received)
        /\ UNCHANGED <<publisher, server, known, live, buckets>>
    BY <1>7 DEF ParticipantsSynced
  <2>2. stored \in MediaStates
    BY DEF SortInv
  <2>3. wire' \in Seq(MediaStates) /\ LastAnnounced(wire', received') = stored'
    BY <2>1 DEF LastAnnounced, server
  <2>4. sorted' => Placed(buckets', received')
    BY <2>1 DEF SortInv
  <2> QED
    BY <1>1, <2>1, <2>2, <2>3, <2>4 DEF SortInv, publisher, server
<1>8. CASE Render
  BY <1>1, <1>8 DEF Render, SortInv, publisher, server
<1>9. ASSUME NEW t \in Track, TrackArrives(t) PROVE SortInv'
  <2> DEFINE b == Merge(buckets, known, t, live')
  <2>1. /\ live' = live \cup {t} /\ buckets' = Prune(b, live') /\ sorted' = (known = received)
        /\ UNCHANGED <<publisher, server, wire, received, known>>
    BY <1>9 DEF TrackArrives
  <2>2. known \in MediaStates /\ live \in SUBSET Track
    BY DEF SortInv
  <2>3. b \in Buckets /\ Placed(b, known)
    BY <1>2, <2>2, MergeEffect, MergePlaces
  <2> HIDE DEF b
  <2>4. Placed(buckets', known)
    BY <2>1, <2>2, <2>3, PruneKeepsPlaced
  <2> QED
    BY <1>1, <2>1, <2>2, <2>4 DEF SortInv, publisher, server
<1>10. ASSUME NEW t \in Track, TrackRemoved(t) PROVE SortInv'
  <2>1. /\ live' = live \ {t} /\ buckets' = Prune(buckets, live')
        /\ UNCHANGED <<publisher, server, wire, received, known, sorted>>
    BY <1>10 DEF TrackRemoved
  <2>2. sorted' => Placed(buckets', received')
    BY <1>2, <2>1, PruneKeepsPlaced DEF SortInv
  <2> QED
    BY <1>1, <2>1, <2>2 DEF SortInv, publisher, server
<1>11. CASE PeerRecreated
  BY <1>1, <1>11, RecreationSorts
<1>12. ASSUME NEW policy, SetPolicy(policy) PROVE SortInv'
  BY <1>1, <1>12, SetPolicySorts
<1>13. CASE UNCHANGED vars
  BY <1>1, <1>13 DEF vars, SortInv
<1> QED
  BY <1>3, <1>4, <1>5, <1>6, <1>7, <1>8, <1>9, <1>10, <1>11, <1>12, <1>13 DEF Next

(* hasExpectedRemoteMedia, which keeps a media recovery from starting, is  *)
(* not fooled as long as nothing is sent that the policy keeps from being  *)
(* announced: what it takes for the camera and for the screen are the      *)
(* camera and a screen share.                                              *)
THEOREM ExpectedMediaAreTrue == Spec => []ExpectedIsTrue
<1>1. SortInv => ExpectedIsTrue
  <2> SUFFICES ASSUME SortInv, Settled, on \subseteq known.on,
                      HasExpectedRemoteMedia(buckets, known, live)
               PROVE  /\ known.on \cap {"camera", "mic"} # {} => buckets.camera = Camera
                      /\ known.on \cap Governed # {} => buckets.screen \in Screens
    BY DEF ExpectedIsTrue
  <2>1. /\ known = stored /\ Announces(known, on, carried) /\ Carries(on, share, carried)
        /\ Placed(buckets, known) /\ live \subseteq carried
        /\ buckets \in Buckets /\ Distinct(buckets)
    BY DEF SortInv, Settled, LastAnnounced, BucketsInv
  <2>2. /\ "camera" \in on => <<buckets.camera, "video">> \in carried
        /\ "mic" \in on => <<buckets.camera, "audio">> \in carried
        /\ "screen" \in on => <<buckets.screen, "video">> \in carried
        /\ "systemAudio" \in on => <<buckets.screen, "audio">> \in carried
        /\ known.on = on
    BY <2>1 DEF HasExpectedRemoteMedia, HasLive, Announces
  <2>3. ASSUME NEW s, NEW k, <<s, k>> \in carried
        PROVE  /\ s \in Stream /\ s # NoStream
               /\ s # Camera => "screen" \in on /\ (k = "audio" => "systemAudio" \in on)
               /\ \A x : <<x, k>> \in carried /\ s # Camera /\ x # Camera => x = s
    <3>1. <<s, k>> \in Track
      BY <2>1, <2>3 DEF Carries
    <3>2. <<s, k>>[1] = s /\ <<s, k>>[2] = k
      OBVIOUS
    <3>3. s \in Stream /\ s # NoStream
      BY <3>1, <3>2, TrackPair
    <3>4. s # Camera => "screen" \in on /\ (k = "audio" => "systemAudio" \in on)
      BY <2>1, <2>3, <3>2 DEF Carries
    <3>5. ASSUME NEW x, <<x, k>> \in carried, s # Camera, x # Camera PROVE x = s
      <4>1. <<x, k>>[1] = x /\ <<x, k>>[2] = k
        OBVIOUS
      <4>2. <<x, k>> = <<s, k>>
        BY <2>1, <2>3, <3>2, <3>5, <4>1 DEF Carries
      <4> QED
        BY <4>2
    <3> QED
      BY <3>3, <3>4, <3>5
  <2>4. {"camera", "mic"} \cap on # {} \/ <<Camera, "video">> \in carried => buckets.screen # Camera
    <3>1. "camera" \in on => <<Camera, "video">> \in carried
      BY <2>1 DEF Carries
    <3>2. "mic" \in on \/ <<Camera, "video">> \in carried => known.camera = Camera
      BY <2>1 DEF Announces
    <3> QED
      BY <2>1, <3>1, <3>2, StreamAssumption DEF Placed
  <2>5. known.on \cap {"camera", "mic"} # {} => buckets.camera = Camera
    <3> SUFFICES ASSUME on \cap {"camera", "mic"} # {}, buckets.camera # Camera PROVE FALSE
      BY <2>2
    <3>1. buckets.screen # Camera
      BY <2>4
    <3>2. PICK k \in {"audio", "video"} : <<buckets.camera, k>> \in carried
      BY <2>2
    <3>3. "screen" \in on /\ (k = "audio" => "systemAudio" \in on) /\ buckets.camera # NoStream
      BY <2>3, <3>2
    <3>4. <<buckets.screen, k>> \in carried
      BY <2>2, <3>2, <3>3
    <3>5. buckets.screen = buckets.camera
      BY <2>3, <3>1, <3>2, <3>4
    <3> QED
      BY <2>1, <3>3, <3>5 DEF Distinct
  <2>6. known.on \cap Governed # {} => buckets.screen \in Screens
    <3> SUFFICES ASSUME on \cap Governed # {} PROVE buckets.screen \in Screens
      BY <2>2
    <3>1. "screen" \in on
      BY <2>1 DEF Carries, Governed
    <3>2. <<buckets.screen, "video">> \in carried
      BY <2>2, <3>1
    <3>3. buckets.screen \in Stream /\ buckets.screen # Camera
      BY <2>3, <2>4, <3>2
    <3> QED
      BY <3>3 DEF Stream
  <2> QED
    BY <2>5, <2>6
<1> QED
  BY <1>1, SortInit, SortNext, PTL DEF Spec

(* A stream shown where it was announced stays there as long as it has     *)
(* live tracks, unless one that was not announced takes its place          *)
(* (reconcileRemoteMediaBuckets, resolveRemoteBucket).                     *)
THEOREM AnnouncedStreamsStay == Spec => KeptUnlessUnannounced
<1> DEFINE Kept(bucket) ==
              LET s == buckets[bucket]
              IN  /\ s # NoStream /\ s = known[bucket] /\ s = received'[bucket]
                  /\ OfStream(live', s) # {}
                  => \/ buckets'[bucket] = s
                     \/ \E t \in live' \ live : t[1] \notin {known.camera, known.screen}
<1>1. SortInv /\ [Next]_vars => [\A bucket \in DOMAIN buckets : Kept(bucket)]_vars
  <2> SUFFICES ASSUME SortInv, [Next]_vars
               PROVE  \A bucket \in DOMAIN buckets : Kept(bucket)
    OBVIOUS
  <2>1. buckets \in Buckets /\ Distinct(buckets) /\ known \in MediaStates /\ wire \in Seq(MediaStates)
    BY DEF SortInv, BucketsInv
  <2> SUFFICES ASSUME NEW k \in {"camera", "screen"},
                      buckets[k] # NoStream, buckets[k] = known[k], buckets[k] = received'[k],
                      OfStream(live', buckets[k]) # {}
               PROVE  \/ buckets'[k] = buckets[k]
                      \/ \E t \in live' \ live : t[1] \notin {known.camera, known.screen}
    BY <2>1, BucketNames
  <2>2. CASE ParticipantUpdated
    <3> DEFINE p == Head(wire)
               b == Reconcile(buckets, p, live)
    <3>1. /\ wire # <<>> /\ received' = p /\ buckets' = Prune(b, live) /\ live' = live
      BY <2>2 DEF ParticipantUpdated
    <3>2. p \in MediaStates
      BY <2>1, <3>1, HeadTailProperties
    <3> HIDE DEF p
    <3>3. b \in Buckets
      BY <2>1, ReconcileEffect DEF Separable
    <3>4. buckets[k] = p[k] /\ OfStream(live, buckets[k]) # {}
      BY <3>1
    <3>5. b[k] = buckets[k]
      BY <2>1, <3>2, <3>4, ReconcileKeeps
    <3> HIDE DEF b
    <3>6. Prune(b, live)[k] = b[k]
      BY <3>3, <3>4, <3>5, PruneKeepsLive
    <3> QED
      BY <3>1, <3>5, <3>6
  <2>3. ASSUME NEW t \in Track, TrackArrives(t)
        PROVE  \/ buckets'[k] = buckets[k]
               \/ \E u \in live' \ live : u[1] \notin {known.camera, known.screen}
    <3> DEFINE b == Merge(buckets, known, t, live')
    <3>1. t \in live' \ live /\ buckets' = Prune(b, live')
      BY <2>3 DEF TrackArrives
    <3>2. CASE t[1] \in {known.camera, known.screen}
      <4>1. b \in Buckets
        BY <2>1, MergeEffect
      <4>2. b[k] = buckets[k]
        <5> DEFINE h == buckets
                   p == known
                   now == live'
        <5>1. /\ h \in Buckets /\ Distinct(h) /\ p \in MediaStates /\ t[1] \in {p.camera, p.screen}
              /\ h[k] = p[k] /\ h[k] # NoStream /\ OfStream(now, h[k]) # {}
          BY <2>1, <3>2
        <5> HIDE DEF h, p, now
        <5>2. Merge(h, p, t, now)[k] = h[k]
          BY <5>1, MergeKeeps
        <5> QED
          BY <5>2 DEF h, p, now
      <4> HIDE DEF b
      <4>3. Prune(b, live')[k] = b[k]
        BY <4>1, <4>2, PruneKeepsLive
      <4> QED
        BY <3>1, <4>2, <4>3
    <3> QED
      BY <3>1, <3>2
  <2>4. ASSUME NEW t \in Track, TrackRemoved(t) PROVE buckets'[k] = buckets[k]
    BY <2>1, <2>4, PruneKeepsLive DEF TrackRemoved
  <2>5. ASSUME NEW medium, TurnOn(medium) \/ TurnOff(medium) PROVE buckets' = buckets
    BY <2>5 DEF TurnOn, TurnOff, Publish
  <2>6. ASSUME NEW s, NEW media, StartShare(s, media) PROVE buckets' = buckets
    BY <2>6 DEF StartShare, Publish
  <2>7. ASSUME NEW policy, SetPolicy(policy) PROVE buckets' = buckets
    BY <2>7 DEF SetPolicy
  <2>8. StopShare \/ ParticipantsSynced \/ Render \/ PeerRecreated \/ UNCHANGED vars => buckets' = buckets
    BY DEF StopShare, Publish, ParticipantsSynced, Render, PeerRecreated, vars
  <2> QED
    BY <2>2, <2>3, <2>4, <2>5, <2>6, <2>7, <2>8 DEF Next
<1> QED
  BY <1>1, SortInit, SortNext, PTL DEF Spec, KeptUnlessUnannounced
=============================================================================
