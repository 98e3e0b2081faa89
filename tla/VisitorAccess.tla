---------------------------- MODULE VisitorAccess ----------------------------
(***************************************************************************)
(* One visitor: the row, its photos and the visitor's face in the index,   *)
(* under the handlers of backend/app/api/visitors.py, the operations of    *)
(* backend/app/services/visitor_service.py and the expiry job, which runs  *)
(* in the process or in Celery (tasks/maintenance.py).                     *)
(*                                                                         *)
(* Nothing locks a visitor.  A handler reads the row, decides, changes the *)
(* index at once if it does, and commits; of the row it writes only what   *)
(* differs from what it read.  Different visitors share nothing but the    *)
(* commit of the expiry job, whose failure is a failure for each of them.  *)
(***************************************************************************)
EXTENDS Backend

CONSTANTS
    Desks,        \* sessions of the handlers
    Job,          \* the session of the expiry job
    Asks,         \* which operations the sessions are asked for, as functions of the session
    Photos,       \* ids of photos, in the order of their creation
    VisitHours,   \* visitor_default_visit_hours
    FaceBuffer,   \* visitor_face_expiry_buffer_minutes
    LastVisitTime,\* bound of the clock
    MaxRequests,  \* bound of the handlers that begin
    MaxJobErrors  \* bound of the failures of the job

Stages == {"manager", "security", "final"}
Purges == {"check_out", "cancel", "revoke", "expire"}   \* they remove the face
PhotoOps == {"upload", "upload_primary", "set_primary", "delete_photo"}
VisitOps == Purges \cup PhotoOps \cup Stages \cup {"reject", "check_in", "extend", "enroll"}

ASSUME VisitorAssumption ==
    /\ Job \notin Desks
    /\ Asks \subseteq [Desks -> SUBSET (VisitOps \ {"expire"})]
    /\ Photos \subseteq Nat \ {0}
    /\ {VisitHours, FaceBuffer, LastVisitTime, MaxRequests, MaxJobErrors} \subseteq Nat
    /\ Nil \notin Nat

VARIABLES
    asks,       \* the element of Asks of this run; it never changes
    visitTime,  \* the clock
    visitor,    \* the row of visitors
    photos,     \* ids of the rows of visitor_photos
    primary,    \* those with is_primary
    photoIds,   \* ids used so far
    faceIn,     \* the index holds vectors of visitor-<id>
    handling,   \* handling[h]: what session h has read and decided
    requests,   \* handlers begun
    jobErrors,  \* failures of the job
    crossed     \* auxiliary: two handlers overlapped, or one failed half-way

visitVars == <<asks, visitTime, visitor, photos, primary, photoIds, faceIn,
               handling, requests, jobErrors, crossed>>

Elsewhere == 0   \* the photo_url of a body, which is no photo's

Times == 0..(LastVisitTime + VisitHours + FaceBuffer)

Visitor ==
    [status : {"pending_approval", "scheduled", "checked_in", "checked_out", "expired", "cancelled"},
     approval : {"pending", "manager_approved", "security_approved", "approved", "rejected"},
     ends : Times, faceEnds : Times \cup {Nil}, registered : BOOLEAN,
     url : Photos \cup {Nil, Elsewhere}]

\* create_visitor: pre-registered or not, with a url of the body or none.
NewVisitor(pre, url) ==
    [status |-> IF pre THEN "pending_approval" ELSE "scheduled",
     approval |-> IF pre THEN "pending" ELSE "approved",
     ends |-> VisitHours, faceEnds |-> Nil, registered |-> FALSE, url |-> url]

NoHandler == [op |-> "none", stage |-> "none", seen |-> NewVisitor(FALSE, Nil), flags |-> {},
              photo |-> Nil, at |-> 0]

Handlers ==
    [op : VisitOps \cup {"none"}, stage : {"none", "read", "touched", "dead"}, seen : Visitor,
     flags : SUBSET Photos, photo : Photos \cup {Nil}, at : Times]

VisitTypeOK ==
    /\ asks \in Asks
    /\ visitTime \in 0..LastVisitTime
    /\ visitor \in Visitor
    /\ photos \subseteq photoIds /\ primary \subseteq photos
    /\ photoIds \subseteq Photos
    /\ faceIn \in BOOLEAN
    /\ handling \in [Desks \cup {Job} -> Handlers]
    /\ requests \in 0..MaxRequests
    /\ jobErrors \in 0..MaxJobErrors
    /\ crossed \in BOOLEAN

VisitInit ==
    /\ asks \in Asks
    /\ visitTime = 0
    /\ visitor \in {NewVisitor(pre, url) : pre \in BOOLEAN, url \in {Nil, Elsewhere}}
    /\ photos = {} /\ primary = {} /\ photoIds = {}
    /\ faceIn = FALSE
    /\ handling = [h \in Desks \cup {Job} |-> NoHandler]
    /\ requests = 0
    /\ jobErrors = 0
    /\ crossed = FALSE

-----------------------------------------------------------------------------
(* What an operation decides from the row it read *)

\* The filter of expire_visitors.
Overdue(v, t) ==
    /\ v.status \in {"checked_in", "scheduled"}
    /\ v.ends <= t \/ (v.faceEnds # Nil /\ v.faceEnds <= t)

Allowed(op, v, t) ==
    /\ op = "check_in" => /\ v.status # "checked_in"
                          /\ v.approval \in {"approved", "security_approved"}
    /\ op = "check_out" => v.status = "checked_in"
    /\ op = "expire" => Overdue(v, t)

Approval(stage) ==
    CASE stage = "manager" -> "manager_approved"
      [] stage = "security" -> "security_approved"
      [] stage = "final" -> "approved"

CheckedIn(v, t) ==
    LET ends == IF v.ends < t THEN t + VisitHours ELSE v.ends
    IN [v EXCEPT !.status = "checked_in", !.ends = ends, !.faceEnds = ends + FaceBuffer]

\* Variant: a visit that is rejected keeps its status.
RejectedOnly(v) == [v EXCEPT !.approval = "rejected"]

Rejected(v) == [v EXCEPT !.approval = "rejected", !.status = "cancelled"]

\* Variant: the flag stays when access is revoked.
RevokedOnly(v, t) == [v EXCEPT !.status = "expired", !.faceEnds = t]

Revoked(v, t) == [v EXCEPT !.status = "expired", !.faceEnds = t, !.registered = FALSE]

CheckedOut(v, t) == [v EXCEPT !.status = "checked_out", !.faceEnds = t, !.registered = FALSE]
Cancelled(v) == [v EXCEPT !.status = "cancelled", !.registered = FALSE]
Extended(v, t) == [v EXCEPT !.ends = t + VisitHours]
Enrolled(v) == [v EXCEPT !.registered = TRUE]

\* approve_visitor: the last stage schedules the visit, whatever its status was.
Approved(v, stage) ==
    LET approved == [v EXCEPT !.approval = Approval(stage)]
    IN IF stage = "final" THEN [approved EXCEPT !.status = "scheduled"] ELSE approved

\* The row after the operation.
After(op, v, t) ==
    CASE op = "check_in" -> CheckedIn(v, t)
      [] op = "check_out" -> CheckedOut(v, t)
      [] op = "cancel" -> Cancelled(v)
      [] op \in {"revoke", "expire"} -> Revoked(v, t)
      [] op = "reject" -> Rejected(v)
      [] op \in Stages -> Approved(v, op)
      [] op = "extend" -> Extended(v, t)
      [] op = "enroll" -> Enrolled(v)
      [] OTHER -> v

\* A new photo is made primary when it is asked for, and when it is the first.
MakesPrimary(op, v) == op \in {"upload_primary", "set_primary"} \/ (op = "upload" /\ v.url = Nil)

Newest(S) == CHOOSE p \in S : \A q \in S : q <= p

-----------------------------------------------------------------------------
Idle(h) == handling[h].stage = "none"

Overlaps(h) == \E g \in DOMAIN handling \ {h} : handling[g].stage \in {"read", "touched"}

\* An UPDATE names the columns that differ from what was read.
Merged(new, seen) == [f \in DOMAIN visitor |-> IF new[f] # seen[f] THEN new[f] ELSE visitor[f]]

Read(h, op, photo) ==
    /\ Idle(h)
    /\ Allowed(op, visitor, visitTime)
    /\ handling' = [handling EXCEPT ![h] =
                      [op |-> op, stage |-> "read", seen |-> visitor, flags |-> primary,
                       photo |-> photo, at |-> visitTime]]

BeginVisitOp(h, op) ==
    /\ op \in asks[h] \ PhotoOps
    /\ requests < MaxRequests
    /\ requests' = requests + 1
    /\ Read(h, op, Nil)
    /\ UNCHANGED <<asks, visitTime, visitor, photos, primary, photoIds, faceIn, jobErrors, crossed>>

CheckInVisitor(h) == BeginVisitOp(h, "check_in")
CheckOutVisitor(h) == BeginVisitOp(h, "check_out")
ApproveVisitor(h, stage) == BeginVisitOp(h, stage)
RejectVisitor(h) == BeginVisitOp(h, "reject")
CancelVisitor(h) == BeginVisitOp(h, "cancel")
RevokeVisitorAccess(h) == BeginVisitOp(h, "revoke")
UpdateVisitor(h) == BeginVisitOp(h, "extend")
EnrollVisitorFace(h) == BeginVisitOp(h, "enroll")

BeginUpload(h, op, p) ==
    /\ op \in asks[h] \cap {"upload", "upload_primary"}
    /\ \A q \in Photos \ photoIds : p <= q
    /\ p \notin photoIds /\ photoIds' = photoIds \cup {p}
    /\ requests < MaxRequests
    /\ requests' = requests + 1
    /\ Read(h, op, p)
    /\ UNCHANGED <<asks, visitTime, visitor, photos, primary, faceIn, jobErrors, crossed>>

BeginPhotoOp(h, op, p) ==
    /\ op \in asks[h] \cap {"set_primary", "delete_photo"}
    /\ p \in photos
    /\ requests < MaxRequests
    /\ requests' = requests + 1
    /\ Read(h, op, p)
    /\ UNCHANGED <<asks, visitTime, visitor, photos, primary, photoIds, faceIn, jobErrors, crossed>>

\* The index is changed before the row is written: enroll adds, the others remove.
TouchIndex(h) ==
    /\ handling[h].stage = "read" /\ handling[h].op \in Purges \cup {"enroll"}
    /\ faceIn' = (handling[h].op = "enroll")
    /\ handling' = [handling EXCEPT ![h].stage = "touched"]
    /\ UNCHANGED <<asks, visitTime, visitor, photos, primary, photoIds, requests, jobErrors, crossed>>

Finish(h) ==
    /\ handling' = [handling EXCEPT ![h] = NoHandler]
    /\ crossed' = (crossed \/ Overlaps(h))

Commit(h) ==
    LET r == handling[h] IN
    /\ r.op \notin PhotoOps \cup {"none"}
    /\ r.stage = IF r.op \in Purges \cup {"enroll"} THEN "touched" ELSE "read"
    /\ visitor' = Merged(After(r.op, r.seen, r.at), r.seen)
    /\ Finish(h)
    /\ UNCHANGED <<asks, visitTime, photos, primary, photoIds, faceIn, requests, jobErrors>>

\* _make_photo_primary: one flag, and the url of the visitor follows it.
Promote(p, rest, seen) ==
    /\ primary' = {p}
    /\ photos' = rest \cup {p}
    /\ visitor' = Merged([seen EXCEPT !.url = p], seen)

CommitPhoto(h) ==
    LET r == handling[h] IN
    /\ r.op \in {"upload", "upload_primary", "set_primary"}
    /\ r.op = "set_primary" => r.photo \in photos
    /\ IF MakesPrimary(r.op, r.seen)
       THEN Promote(r.photo, photos, r.seen)
       ELSE photos' = photos \cup {r.photo} /\ UNCHANGED <<primary, visitor>>
    /\ Finish(h)
    /\ UNCHANGED <<asks, visitTime, photoIds, faceIn, requests, jobErrors>>

\* Variant: the flag of the deleted photo goes to nobody.
CommitDeleteForgotten(h) ==
    LET r == handling[h] IN
    /\ r.op = "delete_photo" /\ r.photo \in photos
    /\ photos' = photos \ {r.photo}
    /\ primary' = primary \ {r.photo}
    /\ visitor' = IF r.seen.url = r.photo THEN Merged([r.seen EXCEPT !.url = Nil], r.seen) ELSE visitor
    /\ Finish(h)
    /\ UNCHANGED <<asks, visitTime, photoIds, faceIn, requests, jobErrors>>

\* The newest photo that remains takes over.
CommitDelete(h) ==
    LET r == handling[h]
        rest == photos \ {r.photo}
        wasPrimary == r.photo \in r.flags \/ r.seen.url = r.photo
    IN
    /\ r.op = "delete_photo" /\ r.photo \in photos
    /\ IF wasPrimary /\ rest # {}
       THEN Promote(Newest(rest), rest, r.seen)
       ELSE /\ photos' = rest /\ primary' = primary \ {r.photo}
            /\ visitor' = IF wasPrimary THEN Merged([r.seen EXCEPT !.url = Nil], r.seen) ELSE visitor
    /\ Finish(h)
    /\ UNCHANGED <<asks, visitTime, photoIds, faceIn, requests, jobErrors>>

\* The handler or its commit fails; the index keeps what was done to it.
FailHandler(h) ==
    /\ h \in Desks /\ handling[h].stage \in {"read", "touched"}
    /\ handling' = [handling EXCEPT ![h] = NoHandler]
    /\ crossed' = (crossed \/ handling[h].stage = "touched")
    /\ UNCHANGED <<asks, visitTime, visitor, photos, primary, photoIds, faceIn, requests, jobErrors>>

-----------------------------------------------------------------------------
(* The expiry job *)

BeginExpiry ==
    /\ Read(Job, "expire", Nil)
    /\ UNCHANGED <<asks, visitTime, visitor, photos, primary, photoIds, faceIn,
                   requests, jobErrors, crossed>>

JobErrs(next) ==
    /\ handling[Job].stage \in {"read", "touched"}
    /\ jobErrors < MaxJobErrors
    /\ jobErrors' = jobErrors + 1
    /\ crossed' = (crossed \/ handling[Job].stage = "touched")
    /\ handling' = [handling EXCEPT ![Job] = next]
    /\ UNCHANGED <<asks, visitTime, visitor, photos, primary, photoIds, faceIn, requests>>

\* Variant: the exception ends the loop.
JobDies == JobErrs([NoHandler EXCEPT !.stage = "dead"])

\* The loop logs the exception, sleeps and goes on.
JobFails == JobErrs(NoHandler)

VisitTick ==
    /\ visitTime < LastVisitTime
    /\ visitTime' = visitTime + 1
    /\ UNCHANGED <<asks, visitor, photos, primary, photoIds, faceIn, handling,
                   requests, jobErrors, crossed>>

VisitNext ==
    \/ \E h \in Desks :
          \/ CheckInVisitor(h) \/ CheckOutVisitor(h) \/ RejectVisitor(h) \/ CancelVisitor(h)
          \/ RevokeVisitorAccess(h) \/ UpdateVisitor(h) \/ EnrollVisitorFace(h)
          \/ \E stage \in Stages : ApproveVisitor(h, stage)
          \/ \E op \in PhotoOps, p \in Photos : BeginUpload(h, op, p) \/ BeginPhotoOp(h, op, p)
          \/ CommitPhoto(h) \/ CommitDelete(h) \/ FailHandler(h)
    \/ \E h \in Desks \cup {Job} : TouchIndex(h) \/ Commit(h)
    \/ BeginExpiry \/ JobFails
    \/ VisitTick

\* The loop runs the job again and again; what it began goes on.
JobTurn == BeginExpiry \/ TouchIndex(Job) \/ Commit(Job)

VisitFairness == WF_visitVars(JobTurn)

VisitSpec == VisitInit /\ [][VisitNext]_visitVars /\ VisitFairness

-----------------------------------------------------------------------------
(* Properties *)

\* face_registered tells what the index holds, through every sequence of the
\* operations and of the job (enroll_visitor_face, check_out_visitor, expire_visitors,
\* cancel and revoke); only handlers that overlap or fail half-way break it.
FlagMatchesIndex ==
    \/ crossed \/ \E h \in DOMAIN handling : handling[h].stage = "touched"
    \/ visitor.registered = faceIn

\* A rejected visitor is not on site, however approvals, check-ins and rejections
\* follow each other.
RejectedIsOut ==
    crossed \/ visitor.approval # "rejected" \/ visitor.status # "checked_in"

\* photo_url names the one photo that is flagged primary, and a visitor with photos is
\* never without a photo_url: the promise of _make_photo_primary and of the deletion,
\* as long as photo handlers do not overlap.
OnePrimaryPhoto ==
    \/ crossed
    \/ /\ primary = {visitor.url} \cap Photos
       /\ visitor.url \in Photos => visitor.url \in photos
       /\ visitor.url = Nil => photos = {}

\* Who stays past the end is expired, failures of the job notwithstanding.
OverstayEnds == Overdue(visitor, visitTime) ~> ~Overdue(visitor, visitTime)

\* The columns of a visitor agree with each other, with the photos and with the
\* index, through any sequence of the operations and of the job.
VisitorRowAgrees == FlagMatchesIndex /\ RejectedIsOut /\ OnePrimaryPhoto
===============================================================================
