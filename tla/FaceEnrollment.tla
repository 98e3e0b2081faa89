---------------------------- MODULE FaceEnrollment ----------------------------
(***************************************************************************)
(* The faces of employees: the row of the employee, its face_embeddings    *)
(* and the vectors in the index, under the handlers of                     *)
(* backend/app/api/enrollment.py, the deactivation in api/employees.py and *)
(* the erasure in api/privacy.py.                                          *)
(*                                                                         *)
(* Every handler reads the employee, has a thread change the index, and    *)
(* writes its rows when the thread is back.  The index is not part of the  *)
(* transaction: it keeps what a failed handler did to it.  An image is     *)
(* what its judges find in it, a vector is the id it has in the index.     *)
(* The row locks of flushed rows are left out: they only remove            *)
(* interleavings.                                                          *)
(***************************************************************************)
EXTENDS Backend

CONSTANTS
    Persons,     \* employees
    Clerks,      \* sessions of the handlers
    LastFaceId,  \* bound of the ids the index has given
    MaxFaceAsks, \* bound of the handlers
    Galleries,   \* sets of images a request may bring
    MinImages, MaxImages,  \* enrollment_min_images and enrollment_max_images
    Poses,       \* face_enrollment_required_poses
    EnforcePoses,\* face_enrollment_enforce_pose_coverage
    BlockSpoofs  \* liveness_enabled and antispoof_block_enrollment

\* An image: its slot, the faces in it, whether the only one is clear and matches
\* the slot, and whether it is alive.
Images == [slot : Poses \cup {Nil}, faces : 0..2, clear : BOOLEAN, alive : BOOLEAN]

ASSUME FaceAssumption ==
    /\ {LastFaceId, MaxFaceAsks, MinImages, MaxImages} \subseteq Nat
    /\ {EnforcePoses, BlockSpoofs} \subseteq BOOLEAN
    /\ Nil \notin Persons \cup Poses
    /\ Galleries \subseteq SUBSET Images
    /\ \A g \in Galleries : IsFiniteSet(g)

VARIABLES
    employed,  \* employees with is_active
    enrolled,  \* employees with face_enrolled
    vectors,   \* vectors[p]: ids of p in the index
    faceRows,  \* rows of face_embeddings
    lastFace,  \* ids given
    clerks,    \* clerks[c]: what the handler in session c has read and done
    faceAsks,  \* handlers begun
    blank,     \* auxiliary: employees a re-enrolment removed the faces of, and none was added since
    settled,   \* auxiliary: employees whose faces were removed, and nobody enrolled them since
    mixed      \* auxiliary: two handlers of an employee overlapped, or one failed half-way

faceVars == <<employed, enrolled, vectors, faceRows, lastFace, clerks, faceAsks,
              blank, settled, mixed>>

Enrols == {"single", "simple", "batch", "structured", "full", "re_enroll", "bulk"}
Removes == {"delete_enrollment", "deactivate", "erase"}

NoClerk == [op |-> "none", stage |-> "none", left |-> {}, who |-> Nil, was |-> FALSE,
            rows |-> {}, flagged |-> {}, alone |-> FALSE, cleared |-> FALSE]

FaceTypeOK ==
    /\ employed \subseteq Persons /\ enrolled \subseteq Persons
    /\ vectors \in [Persons -> SUBSET (1..lastFace)]
    /\ faceRows \subseteq [id : 1..lastFace, who : Persons, active : BOOLEAN]
    /\ lastFace \in 0..LastFaceId
    /\ \A c \in Clerks : /\ clerks[c].op \in Enrols \cup Removes \cup {"none", "activate"}
                         /\ clerks[c].stage \in {"none", "read", "touched"}
                         /\ clerks[c].left \subseteq Persons
                         /\ clerks[c].who \in Persons \cup {Nil}
                         /\ clerks[c].rows \subseteq [id : 1..lastFace, who : Persons, active : {TRUE}]
    /\ faceAsks \in 0..MaxFaceAsks
    /\ blank \subseteq Persons /\ settled \subseteq Persons
    /\ mixed \in BOOLEAN

FaceInit ==
    /\ employed = Persons /\ enrolled = {}
    /\ vectors = [p \in Persons |-> {}]
    /\ faceRows = {}
    /\ lastFace = 0
    /\ clerks = [c \in Clerks |-> NoClerk]
    /\ faceAsks = 0
    /\ blank = {} /\ settled = Persons
    /\ mixed = FALSE

-----------------------------------------------------------------------------
(* The judgement of images: which of them give a vector *)

\* validate_face_image.
Valid(i) == i.faces = 1 /\ i.clear

Alive(i) == BlockSpoofs => i.alive

\* enroll: the largest face of the one image, however unclear; verify_liveness, where
\* it is asked, wants one face only.
SingleTaken(g) ==
    IF Cardinality(g) = 1
    THEN {i \in g : i.faces > 0 /\ (BlockSpoofs => i.faces = 1 /\ i.alive)} ELSE {}

\* enroll_simple: every image with one face.
SimpleTaken(g) == {i \in g : i.faces = 1}

\* enroll_batch: all of them, or none.
BatchTaken(g) ==
    IF Cardinality(g) \in MinImages..MaxImages /\ \A i \in g : Valid(i) /\ Alive(i) THEN g ELSE {}

\* enroll_structured: the images of the required slots, all or none.
StructuredTaken(g) ==
    LET asked == {i \in g : i.slot \in Poses}
    IN  IF {i.slot : i \in asked} = Poses /\ \A i \in asked : Valid(i) /\ Alive(i)
        THEN asked ELSE {}

\* FaceEnrollmentService.enroll: the valid ones, when they are enough and, with slots
\* given, cover the required ones.  Whether they are alive is not asked.
FullTaken(g) ==
    LET valid == {i \in g : Valid(i)}
        guided == EnforcePoses /\ \E i \in g : i.slot # Nil
    IN  IF /\ Cardinality(g) <= MaxImages /\ Cardinality(valid) >= MinImages
           /\ guided => Poses \subseteq {i.slot : i \in valid}
        THEN valid ELSE {}

Taken(op, g) ==
    CASE op = "single" -> SingleTaken(g)
      [] op = "simple" -> SimpleTaken(g)
      [] op = "batch" -> BatchTaken(g)
      [] op = "structured" -> StructuredTaken(g)
      [] OTHER -> FullTaken(g)

-----------------------------------------------------------------------------
(* The handlers *)

Concerned(c) == clerks[c].left \cup ({clerks[c].who} \ {Nil}) \cup {r.who : r \in clerks[c].rows}

Meets(c, p) == \E e \in Clerks \ {c} : p \in Concerned(e)

Enrolling(p) == \E e \in Clerks : clerks[e].op \in Enrols /\ p \in Concerned(e)

\* A handler begins; the bulk handler takes its employees one by one.
AskClerk(c, op, P) ==
    /\ clerks[c].stage = "none"
    /\ faceAsks < MaxFaceAsks
    /\ faceAsks' = faceAsks + 1
    /\ clerks' = [e \in Clerks |->
          IF e = c THEN [NoClerk EXCEPT !.op = op, !.stage = "read", !.left = P,
                                        !.alone = ~\E p \in P : Enrolling(p)]
          ELSE [clerks[e] EXCEPT !.alone = @ /\ (op \in Enrols => Concerned(e) \cap P = {})]]
    /\ settled' = IF op \in Enrols THEN settled \ P ELSE settled
    /\ mixed' = (mixed \/ \E p \in P : Meets(c, p))
    /\ UNCHANGED <<employed, enrolled, vectors, faceRows, lastFace, blank>>

EnrollFaceSingle(c, p) == AskClerk(c, "single", {p})
EnrollFaceSimple(c, p) == AskClerk(c, "simple", {p})
EnrollFaceBatch(c, p) == AskClerk(c, "batch", {p})
EnrollFaceStructured(c, p) == AskClerk(c, "structured", {p})
EnrollFaceFull(c, p) == AskClerk(c, "full", {p})
ReEnrollFace(c, p) == AskClerk(c, "re_enroll", {p})
BulkEnroll(c, P) == AskClerk(c, "bulk", P)
DeleteFaceEnrollment(c, p) == AskClerk(c, "delete_enrollment", {p})
DeactivateEmployee(c, p) == AskClerk(c, "deactivate", {p})
EraseEmployeeData(c, p) == AskClerk(c, "erase", {p})
ActivateEmployee(c, p) == AskClerk(c, "activate", {p})

\* _get_employee_or_404: the row as it is before the thread runs.
ReadPerson(c, p) ==
    /\ clerks[c].stage = "read" /\ clerks[c].who = Nil
    /\ p \in clerks[c].left
    /\ clerks' = [clerks EXCEPT ![c] =
          [clerks[c] EXCEPT !.left = @ \ {p}, !.who = p, !.was = p \in enrolled]]
    /\ UNCHANGED <<employed, enrolled, vectors, faceRows, lastFace, faceAsks, blank, settled, mixed>>

Reading(c) == clerks[c].stage = "read" /\ clerks[c].who # Nil

\* The handler goes on with the next employee, or to its commit.
GoOn(k) == [k EXCEPT !.who = Nil, !.stage = IF k.left = {} THEN "touched" ELSE "read"]

\* re_enroll removes the old vectors before it looks at the images.
ClearFirst(c) ==
    LET k == clerks[c] IN
    /\ Reading(c) /\ k.op = "re_enroll" /\ ~k.cleared
    /\ vectors' = [vectors EXCEPT ![k.who] = {}]
    /\ blank' = blank \cup {k.who}
    /\ clerks' = [clerks EXCEPT ![c] = [k EXCEPT !.cleared = TRUE]]
    /\ UNCHANGED <<employed, enrolled, faceRows, lastFace, faceAsks, settled, mixed>>

Judging(c) ==
    /\ Reading(c) /\ clerks[c].op \in Enrols
    /\ clerks[c].op = "re_enroll" => clerks[c].cleared

\* The images pass, and the index has a vector of each; the rows are flushed.
FacesPass(c, n) ==
    LET k == clerks[c]
        ids == lastFace + 1..lastFace + n
    IN
    /\ Judging(c)
    /\ n > 0 /\ lastFace + n <= LastFaceId
    /\ lastFace' = lastFace + n
    /\ vectors' = [vectors EXCEPT ![k.who] = @ \cup ids]
    /\ clerks' = [clerks EXCEPT ![c] =
          GoOn([k EXCEPT !.rows = @ \cup {[id |-> i, who |-> k.who, active |-> TRUE] : i \in ids},
                         !.flagged = IF k.was THEN @ ELSE @ \cup {k.who}])]
    /\ blank' = blank \ {k.who}
    /\ UNCHANGED <<employed, enrolled, faceRows, faceAsks, settled, mixed>>

\* The images are rejected, and nothing is added.
FacesRejected(c) ==
    /\ Judging(c)
    /\ \E g \in Galleries : Taken(clerks[c].op, g) = {}
    /\ clerks' = [clerks EXCEPT ![c] = GoOn(clerks[c])]
    /\ UNCHANGED <<employed, enrolled, vectors, faceRows, lastFace, faceAsks, blank, settled, mixed>>

\* Variant: the vectors are left for a later cleaning.
PurgeLater(c) ==
    /\ Reading(c) /\ clerks[c].op \in Removes
    /\ clerks' = [clerks EXCEPT ![c] = [clerks[c] EXCEPT !.stage = "touched"]]
    /\ UNCHANGED <<employed, enrolled, vectors, faceRows, lastFace, faceAsks, blank, settled, mixed>>

\* delete_enrollment of the service, delete_employee of face_service.
Purge(c) ==
    /\ Reading(c) /\ clerks[c].op \in Removes
    /\ vectors' = [vectors EXCEPT ![clerks[c].who] = {}]
    /\ clerks' = [clerks EXCEPT ![c] = [clerks[c] EXCEPT !.stage = "touched"]]
    /\ UNCHANGED <<employed, enrolled, faceRows, lastFace, faceAsks, blank, settled, mixed>>

\* The commit of an enrolment: the rows, and the flag of those who had none.
CommitFaces(c) ==
    LET k == clerks[c] IN
    /\ k.stage = "touched" /\ k.op \in Enrols
    /\ faceRows' = faceRows \cup k.rows
    /\ enrolled' = enrolled \cup k.flagged
    /\ clerks' = [clerks EXCEPT ![c] = NoClerk]
    /\ UNCHANGED <<employed, vectors, lastFace, faceAsks, blank, settled, mixed>>

\* Variant: the flag stays.
UnflaggedNever(k) == enrolled

\* The flag goes when the handler read it set.
Unflagged(k) == IF k.was THEN enrolled \ {k.who} ELSE enrolled

\* The commit of a removal; only delete_face_enrollment deactivates the rows.
CommitRemoval(c) ==
    LET k == clerks[c] IN
    /\ k.stage = "touched" /\ k.op \in Removes
    /\ enrolled' = Unflagged(k)
    /\ faceRows' = IF k.op = "delete_enrollment"
                   THEN {[r EXCEPT !.active = @ /\ r.who # k.who] : r \in faceRows}
                   ELSE faceRows
    /\ employed' = IF k.op = "delete_enrollment" THEN employed ELSE employed \ {k.who}
    /\ settled' = IF k.alone THEN settled \cup {k.who} ELSE settled
    /\ blank' = blank \ {k.who}
    /\ clerks' = [clerks EXCEPT ![c] = NoClerk]
    /\ UNCHANGED <<vectors, lastFace, faceAsks, mixed>>

\* update_employee may activate who was deactivated or erased.
Activate(c) ==
    /\ clerks[c].op = "activate" /\ Reading(c)
    /\ employed' = employed \cup {clerks[c].who}
    /\ clerks' = [clerks EXCEPT ![c] = NoClerk]
    /\ UNCHANGED <<enrolled, vectors, faceRows, lastFace, faceAsks, blank, settled, mixed>>

\* A handler fails, or its commit: the rows are as before, the index is not.
ClerkFails(c) ==
    LET k == clerks[c] IN
    /\ k.stage # "none"
    /\ clerks' = [clerks EXCEPT ![c] = NoClerk]
    /\ mixed' = (mixed \/ k.stage = "touched" \/ k.rows # {})
    /\ UNCHANGED <<employed, enrolled, vectors, faceRows, lastFace, faceAsks, blank, settled>>

FaceNext ==
    \E c \in Clerks :
        \/ \E p \in Persons :
              \/ EnrollFaceSingle(c, p) \/ EnrollFaceSimple(c, p) \/ EnrollFaceBatch(c, p)
              \/ EnrollFaceStructured(c, p) \/ EnrollFaceFull(c, p) \/ ReEnrollFace(c, p)
              \/ DeleteFaceEnrollment(c, p) \/ DeactivateEmployee(c, p)
              \/ EraseEmployeeData(c, p) \/ ActivateEmployee(c, p)
              \/ ReadPerson(c, p)
        \/ \E P \in (SUBSET Persons) \ {{}} : BulkEnroll(c, P)
        \/ \E g \in Galleries : FacesPass(c, Cardinality(Taken(clerks[c].op, g)))
        \/ ClearFirst(c) \/ FacesRejected(c) \/ Purge(c)
        \/ CommitFaces(c) \/ CommitRemoval(c) \/ Activate(c) \/ ClerkFails(c)

FaceSpec == FaceInit /\ [][FaceNext]_faceVars

-----------------------------------------------------------------------------
(* Properties *)

\* face_enrolled tells who can be matched, and every vector has its active row, through
\* every sequence of enrolments and removals. Four things break it, and no other: handlers
\* of one employee that overlap, a handler that fails after it changed the index, a
\* re-enrolment whose images are rejected, and a bulk enrolment that fails.
FlagTellsIndex ==
    mixed \/ \A p \in Persons :
        \/ \E c \in Clerks : p \in Concerned(c)
        \/ /\ (p \in enrolled) <=> (vectors[p] # {} \/ p \in blank \cap enrolled)
           /\ \A i \in vectors[p] : [id |-> i, who |-> p, active |-> TRUE] \in faceRows

\* Once a deletion, deactivation or erasure has returned, and no enrolment was under way,
\* the person is in no search until somebody enrols them: failures and overlapping
\* removals included (delete_face_enrollment, delete_employee, erase_employee_data).
ForgottenStayForgotten == \A p \in settled : vectors[p] = {}
===============================================================================
