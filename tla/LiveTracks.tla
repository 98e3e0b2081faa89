------------------------------ MODULE LiveTracks ------------------------------
(***************************************************************************)
(* The live camera path of one camera: backend/app/engine/                 *)
(* recognition_engine.py with the tracker (face_tracker.py), the identity  *)
(* verifier and the unknown person detector.                               *)
(*                                                                         *)
(* A frame updates the tracks and starts recognitions; each runs beside    *)
(* later frames, in a worker thread, and its result lands on the track it  *)
(* was started for, if that is still there.  Which tracks a face overlaps  *)
(* is left open: anybody may step where somebody stood.  Durations are     *)
(* counted in ticks up to the longest one a guard asks for.                *)
(***************************************************************************)
EXTENDS Backend

CONSTANTS
    Faces,       \* people that walk by
    Known,       \* those of them that are enrolled
    Slots,       \* recognitions that may run at a time (_max_concurrent_recognitions)
    LastTrack,   \* bound of the ids the tracker hands out
    MaxTracks,   \* max_tracks
    MinHits,     \* min_hits_for_recognition
    MaxAge,      \* max_age_seconds, in ticks
    CoolDown,    \* cooldown_seconds, in ticks
    AlarmPause,  \* alert_cooldown_seconds, in ticks
    LivenessEnabled, LiveActiveRequired  \* liveness.enabled, live_active_required

ASSUME TrackAssumption ==
    /\ {LastTrack, MaxTracks, MinHits, MaxAge, CoolDown, AlarmPause} \subseteq Nat \ {0}
    /\ Known \subseteq Faces /\ Nil \notin Faces
    /\ {LivenessEnabled, LiveActiveRequired} \subseteq BOOLEAN
    /\ IsFiniteSet(Faces) /\ IsFiniteSet(Slots)

VARIABLES
    tracks,     \* tracks[i]: the track with id i, or Nil
    lastTrack,  \* _next_track_id: the last id handed out
    inflight,   \* _inflight_recognitions
    jobs,       \* jobs[s]: the recognition in slot s
    quiet       \* ticks since the last unknown person alert of this place

trackVars == <<tracks, lastTrack, inflight, jobs, quiet>>

TrackIds == 1..LastTrack
LongAgo == 2 * CoolDown
Resting == [stage |-> "none", track |-> 0, face |-> Nil, name |-> Nil]

\* was: auxiliary, everybody who was seen on the track.
NewTrack(f) == [hits |-> 1, age |-> 0, since |-> LongAgo, name |-> Nil,
                stranger |-> FALSE, was |-> {f}]

TrackTypeOK ==
    /\ tracks \in [TrackIds -> [hits : 1..MinHits, age : 0..MaxAge + 1, since : 0..LongAgo,
                           name : Known \cup {Nil}, stranger : BOOLEAN,
                           was : SUBSET Faces] \cup {Nil}]
    /\ lastTrack \in 0..LastTrack
    /\ inflight = Cardinality({s \in Slots : jobs[s].stage # "none"})
    /\ jobs \in [Slots -> [stage : {"none", "run", "alert", "mark"}, track : 0..LastTrack,
                           face : Faces \cup {Nil}, name : Known \cup {Nil}]]
    /\ quiet \in 0..AlarmPause

TrackInit ==
    /\ tracks = [i \in TrackIds |-> Nil]
    /\ lastTrack = 0
    /\ inflight = 0
    /\ jobs = [s \in Slots |-> Resting]
    /\ quiet = AlarmPause

-----------------------------------------------------------------------------
(* The tracker *)

Upto(n, top) == IF n < top THEN n ELSE top

\* Somebody recognised, and twice as long somebody who was not, is left alone.
NeedsRecognition(t) ==
    /\ t.hits >= MinHits
    /\ ~(t.name # Nil /\ t.since < CoolDown)
    /\ ~(t.stranger /\ t.since < 2 * CoolDown)

\* _prune
Live == {i \in TrackIds : tracks[i] # Nil /\ tracks[i].age <= MaxAge}

\* Variant: the smallest id no track has.
NextIdReused(live) == CHOOSE i \in TrackIds : i \notin live /\ \A j \in TrackIds \ live : i <= j

\* TrackIds are never handed out twice.
NextId(live) == lastTrack + 1

\* A face that overlaps the track moves it.
Followed(t, f) == [t EXCEPT !.hits = Upto(@ + 1, MinHits), !.age = 0, !.was = @ \cup {f}]

\* update with the faces of a frame, of which those in the domain of on
\* overlap the track it names, and at most one that overlaps none.
Update(on, newcomer) ==
    LET kept == [i \in TrackIds |-> IF i \in Live THEN tracks[i] ELSE Nil]
        moved == [i \in TrackIds |->
                    IF \E f \in DOMAIN on : on[f] = i
                    THEN Followed(kept[i], CHOOSE f \in DOMAIN on : on[f] = i) ELSE kept[i]]
        full == Cardinality(Live) >= MaxTracks
    IN  IF newcomer = Nil \/ full
        THEN tracks' = moved /\ UNCHANGED lastTrack
        ELSE /\ lastTrack < LastTrack
             /\ tracks' = [moved EXCEPT ![NextId(Live)] = NewTrack(newcomer)]
             /\ lastTrack' = lastTrack + 1

\* The ways in which faces can overlap the live tracks, one track each.
Overlappings(F) == {on \in [F -> Live] : \A f, g \in F : on[f] = on[g] => f = g}

-----------------------------------------------------------------------------
(* A frame of the camera *)

\* _process_frame after its awaits: recognitions start while slots are free,
\* those that find none are dropped.
ProcessFrame(on, newcomer) ==
    /\ Update(on, newcomer)
    /\ LET wanting == {f \in DOMAIN on : NeedsRecognition(tracks'[on[f]])}
           free == {s \in Slots : jobs[s].stage = "none"}
       IN  \E run \in SUBSET wanting :
             /\ Cardinality(run) = Upto(Cardinality(wanting), Cardinality(Slots) - inflight)
             /\ \E at \in [run -> free] :
                  /\ \A f, g \in run : at[f] = at[g] => f = g
                  /\ jobs' = [s \in Slots |->
                                IF \E f \in run : at[f] = s
                                THEN LET f == CHOOSE f \in run : at[f] = s
                                     IN  [stage |-> "run", track |-> on[f], face |-> f, name |-> Nil]
                                ELSE jobs[s]]
             /\ inflight' = inflight + Cardinality(run)
    /\ UNCHANGED quiet

Frame ==
    \E F \in SUBSET Faces, newcomer \in Faces \cup {Nil} :
      /\ newcomer \notin F
      /\ F # {} \/ newcomer # Nil
      /\ \E on \in Overlappings(F) : ProcessFrame(on, newcomer)

-----------------------------------------------------------------------------
(* A recognition *)

\* What one image shows of a face: its quality, whether anti-spoofing takes it
\* for a living one, the frames before it, whether an embedding came out, and
\* whether the best match is sure, in the review band or nobody.
Looks == [clear : BOOLEAN, genuine : BOOLEAN, frames : {"none", "lively", "still"},
          embedded : BOOLEAN, band : {"accept", "review", "unknown"}]

\* verify of the liveness detector: frames without life fail it where movement
\* is asked for, and where the mixed score comes out too low.
Lively(look, requireActive) ==
    IF ~LivenessEnabled THEN {TRUE}
    ELSE IF ~look.genuine \/ (look.frames = "still" /\ requireActive) THEN {FALSE}
    ELSE IF look.frames = "none" THEN {TRUE} ELSE BOOLEAN

\* search: the best match of an enrolled face is that face, however unsure;
\* nobody else comes near enough to be accepted.
Matches(f, look) == (f \in Known \/ look.band # "accept")

\* verify of the identity verifier: a card must be that of the face.
Verify(f, look, card) == IF look.band = "accept" /\ card \in {Nil, f} THEN f ELSE Nil

Nobody == [name |-> Nil, unknown |-> FALSE]

\* recognize_face: quality, liveness, embedding, search and verification, in
\* this order; each turns the face away, only the search makes it unknown.
Recognized(f, look, card, passed) ==
    IF ~look.clear \/ ~passed \/ ~look.embedded THEN Nobody
    ELSE [name |-> Verify(f, look, card), unknown |-> look.band = "unknown"]

Verdicts ==
    [f \in Faces |-> [card \in Known \cup {Nil} |-> [requireActive \in BOOLEAN |->
       UNION {{Recognized(f, look, card, passed) : passed \in Lively(look, requireActive)}
              : look \in {l \in Looks : Matches(f, l)}}]]]

\* A face nobody matched raises an alert unless one was raised a moment ago;
\* the look and the mark are not one step of the threads.
Alarms(verdict) == verdict.unknown /\ quiet >= AlarmPause

RecognizeFace(s) ==
    /\ jobs[s].stage = "run"
    /\ \E verdict \in Verdicts[jobs[s].face][Nil][LiveActiveRequired] :
         jobs' = [jobs EXCEPT ![s].stage = IF Alarms(verdict) THEN "alert" ELSE "mark",
                             ![s].name = verdict.name]
    /\ UNCHANGED <<tracks, lastTrack, inflight, quiet>>

SetCooldown(s) ==
    /\ jobs[s].stage = "alert"
    /\ quiet' = 0
    /\ jobs' = [jobs EXCEPT ![s].stage = "mark"]
    /\ UNCHANGED <<tracks, lastTrack, inflight>>

\* Variant: the counter keeps the recognition that is over.
ReleaseUncounted(s) ==
    /\ jobs' = [jobs EXCEPT ![s] = Resting]
    /\ UNCHANGED inflight

Release(s) ==
    /\ jobs' = [jobs EXCEPT ![s] = Resting]
    /\ inflight' = inflight - 1

\* mark_recognized: whoever was not named is a stranger, a rejected frame too.
MarkRecognized(s) ==
    LET job == jobs[s] IN
    /\ job.stage = "mark"
    /\ tracks' = IF tracks[job.track] = Nil THEN tracks
                 ELSE [tracks EXCEPT ![job.track].since = 0, ![job.track].name = job.name,
                                     ![job.track].stranger = (job.name = Nil)]
    /\ Release(s)
    /\ UNCHANGED <<lastTrack, quiet>>

RecognitionFails(s) ==
    /\ jobs[s].stage = "run"
    /\ Release(s)
    /\ UNCHANGED <<tracks, lastTrack, quiet>>

\* What the engine says of an image or of a stream's frame that was sent to
\* the API goes to the caller; an unknown face raises its alert here too.
Answer(f, card) ==
    \E verdict \in Verdicts[f][card][FALSE] : quiet' = IF Alarms(verdict) THEN 0 ELSE quiet

\* recognize_image counts the largest face on its track, for good: what it
\* recognises is not marked there.
RecognizeImage(f, card) ==
    /\ \/ \E i \in Live : Update([g \in {f} |-> i], Nil)
       \/ Update(<<>>, f)
    /\ Answer(f, card)
    /\ UNCHANGED <<inflight, jobs>>

RecognizeStream(f) == Answer(f, Nil) /\ UNCHANGED <<tracks, lastTrack, inflight, jobs>>

TrackTick ==
    /\ tracks' = [i \in TrackIds |->
                    IF tracks[i] = Nil THEN Nil
                    ELSE [tracks[i] EXCEPT !.age = Upto(@ + 1, MaxAge + 1),
                                           !.since = Upto(@ + 1, LongAgo)]]
    /\ quiet' = Upto(quiet + 1, AlarmPause)
    /\ UNCHANGED <<lastTrack, inflight, jobs>>

TrackNext ==
    \/ Frame
    \/ \E f \in Faces : RecognizeStream(f) \/ \E card \in Known \cup {Nil} : RecognizeImage(f, card)
    \/ \E s \in Slots : RecognizeFace(s) \/ SetCooldown(s) \/ MarkRecognized(s) \/ RecognitionFails(s)
    \/ TrackTick

TrackSpec == TrackInit /\ [][TrackNext]_trackVars

-----------------------------------------------------------------------------
(* What is claimed *)

\* The name on a track is that of somebody who was seen on it, however late
\* the recognition ends: not one that belonged to an earlier track which was
\* dropped meanwhile (recognition_engine.py, _recognize_tracked_face).
NamesStayOnTheirTrack ==
    \A i \in TrackIds : tracks[i] # Nil => tracks[i].name \in tracks[i].was \cup {Nil}
=============================================================================
