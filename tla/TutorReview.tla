---------------------------- MODULE TutorReview ----------------------------
(***************************************************************************)
(* One tutor's profile between its editor and the admin's queues. Which    *)
(* queue it is in is read off the status and two stamps: the admin's last  *)
(* look and the tutor's last save that asks for another.                   *)
(***************************************************************************)
EXTENDS Naturals, Sequences

CONSTANTS
    Edits,         \* calls of updateTutorProfile
    Decisions      \* calls of the admin's actions

VARIABLES
    approval,      \* approval_status
    photo,         \* profiles.avatar_url is set
    changedAt,     \* profile_changed_at, 0 is null
    reviewedAt,    \* profile_reviewed_at, 0 is null
    reviewClock,   \* of the server and the database
    edit,          \* edit[e]: a save, as far as it came
    decision,      \* decision[d]: an admin's click, as far as it came
    saves          \* the saves in the order of their commits

reviewVars == <<approval, photo, changedAt, reviewedAt, reviewClock, edit, decision, saves>>
profileRow == <<approval, photo, changedAt, reviewedAt, saves>>

Approvals == {"pending", "approved", "rejected", "changes_requested"}
Actions == {"approveTutor", "requestTutorChanges", "rejectTutor", "markTutorReviewed"}

ReviewInit ==
    /\ approval = "pending" /\ photo \in BOOLEAN
    /\ changedAt = 0 /\ reviewedAt = 0 /\ reviewClock = 1
    /\ edit = [e \in Edits |-> [at |-> "new", resubmitting |-> FALSE, begun |-> 0]]
    /\ decision = [d \in Decisions |-> [at |-> "new", does |-> "none", now |-> 0]]
    /\ saves = <<>>

Stamped == reviewClock' = reviewClock + 1

(***************************************************************************)
(* The tutor's save                                                        *)
(***************************************************************************)
(* The status is read before the transaction. *)
ReadStatus(e) ==
    /\ edit[e].at = "new"
    /\ edit' = [edit EXCEPT ![e].at = "read", ![e].resubmitting = approval = "changes_requested"]
    /\ UNCHANGED <<profileRow, reviewClock, decision>>

BeginSave(e) ==
    /\ edit[e].at = "read"
    /\ edit' = [edit EXCEPT ![e].at = "begun", ![e].begun = reviewClock]
    /\ Stamped
    /\ UNCHANGED <<profileRow, decision>>

(* Mutant of flagged: the trigger's rule alone. *)
flaggedByTrigger(e, material) == material /\ approval \in {"approved", "changes_requested"}

(* tutor_profile_change_flag and tutor_subjects_change_flag under the row's *)
(* lock, and the action's own stamp.                                       *)
flagged(e, material) ==
    edit[e].resubmitting \/ (material /\ approval \in {"approved", "changes_requested"})

(* A save that asks for another look: on hold any that knew of the hold, of *)
(* an approved tutor one that changed what matters.                        *)
AsksForALook(e, material) ==
    \/ approval = "approved" /\ material
    \/ approval = "changes_requested" /\ (material \/ edit[e].resubmitting)

(* The updates and the commit. Both stamps are the time the transaction    *)
(* began, however long the row kept it waiting.                            *)
updateTutorProfile(e, material, withPhoto) ==
    /\ edit[e].at = "begun"
    /\ edit' = [edit EXCEPT ![e].at = IF material THEN "material" ELSE "other"]
    /\ photo' = withPhoto
    /\ changedAt' = IF flagged(e, material) THEN edit[e].begun ELSE changedAt
    /\ saves' = Append(saves, [of |-> e, asks |-> AsksForALook(e, material)])
    /\ UNCHANGED <<approval, reviewedAt, reviewClock, decision>>

(***************************************************************************)
(* The admin's decisions                                                   *)
(***************************************************************************)
(* The row is read and the clock is, whatever the page showed. A decision  *)
(* on the photo needs one, a rejected tutor is not put on hold.            *)
Decide(d, does) ==
    /\ decision[d].at = "new"
    /\ does \in {"approveTutor", "rejectTutor"} => photo
    /\ does = "requestTutorChanges" => approval # "rejected"
    /\ decision' = [decision EXCEPT ![d] = [at |-> "decided", does |-> does, now |-> reviewClock]]
    /\ Stamped
    /\ UNCHANGED <<profileRow, edit>>

Verdicts == [approveTutor |-> "approved", requestTutorChanges |-> "changes_requested",
             rejectTutor |-> "rejected"]

(* The update, of whatever the row is by now. *)
Apply(d) ==
    /\ decision[d].at = "decided"
    /\ decision' = [decision EXCEPT ![d] = [at |-> "applied", does |-> "none", now |-> 0]]
    /\ approval' = IF decision[d].does = "markTutorReviewed" THEN approval ELSE Verdicts[decision[d].does]
    /\ reviewedAt' = IF decision[d].does = "rejectTutor" THEN reviewedAt ELSE decision[d].now
    /\ UNCHANGED <<photo, changedAt, reviewClock, edit, saves>>

ReviewNext ==
    \/ \E e \in Edits : \/ ReadStatus(e) \/ BeginSave(e)
                        \/ \E material, withPhoto \in BOOLEAN : updateTutorProfile(e, material, withPhoto)
    \/ \E d \in Decisions : Apply(d) \/ \E does \in Actions : Decide(d, does)

ReviewSpec == ReviewInit /\ [][ReviewNext]_reviewVars

(***************************************************************************)
(* The queues                                                              *)
(***************************************************************************)
getChangedTutors == approval = "approved" /\ changedAt # 0 /\ reviewedAt < changedAt
getResubmittedTutors ==
    approval = "changes_requested" /\ changedAt # 0 /\ reviewedAt # 0 /\ changedAt > reviewedAt
getOnHoldTutors ==
    approval = "changes_requested" /\ (changedAt = 0 \/ reviewedAt = 0 \/ changedAt <= reviewedAt)

(***************************************************************************)
(* Properties                                                              *)
(***************************************************************************)
ReviewTypeOK ==
    /\ approval \in Approvals /\ photo \in BOOLEAN
    /\ changedAt \in 0..reviewClock /\ reviewedAt \in 0..reviewClock /\ reviewClock \in Nat
    /\ edit \in [Edits -> [at : {"new", "read", "begun", "material", "other"},
                            resubmitting : BOOLEAN, begun : 0..reviewClock]]
    /\ decision \in [Decisions -> [at : {"new", "decided", "applied"},
                                    does : Actions \cup {"none"}, now : 0..reviewClock]]
    /\ saves \in Seq([of : Edits, asks : BOOLEAN])

Begun(i) == edit[saves[i].of].begun

(* A save that asked for a look left its stamp, or one after it did. *)
AskingIsStamped == \A i \in 1..Len(saves) :
    /\ edit[saves[i].of].at \in {"material", "other"}
    /\ saves[i].asks => \E j \in i..Len(saves) : changedAt = Begun(j)

(* A tutor on hold was looked at, and a decision has a time of its own. *)
HoldIsStamped == approval = "changes_requested" => reviewedAt # 0
DecidedByClock == reviewClock # 0 /\ \A d \in Decisions :
    decision[d].at = "decided" => decision[d].now # 0 /\ decision[d].does \in Actions

(* A save that had begun before the admin's last look and was kept waiting  *)
(* put its own, older stamp over that of save i.                            *)
StampedOver(i) == changedAt <= reviewedAt /\ \E j \in (i + 1)..Len(saves) : changedAt = Begun(j)

(* updateTutorProfile, drizzle/0025: every save that asked for a look, and   *)
(* began after the admin's last one, is in front of the admin again, however *)
(* many saves and decisions came since. Only a save that overtook it the     *)
(* other way round, begun before the look and committed last, can hide it.   *)
SavesAreSeenAgain == \A i \in 1..Len(saves) :
    saves[i].asks /\ Begun(i) > reviewedAt /\ ~StampedOver(i) =>
        /\ approval = "approved" => getChangedTutors
        /\ approval = "changes_requested" => getResubmittedTutors /\ ~getOnHoldTutors
=============================================================================
