---------------------------- MODULE FeedbackStore ----------------------------
(***************************************************************************)
(* Feedback on runs (adapters/postgres_controls.py): users submit it, and   *)
(* submit it again when an answer was lost; an administrator reviews a row; *)
(* the export (feedback/export.py) reads the reviewed rows, writes them to  *)
(* a file and then, in two calls, to a new dataset.  A row is named by its  *)
(* owner and run, of which there is never another.                          *)
(***************************************************************************)
EXTENDS ApiCalls

CONSTANTS
    Runs,    \* runs that feedback is about
    Ratings  \* what it says of them

ASSUME FeedbackAssumption == Runs # {} /\ Ratings # {}

VARIABLES
    post,      \* what a call submits or reviews
    feedback,  \* the table: owner and run to rating and status
    given,     \* the feedback a submission was answered with
    reviewed,  \* history: what a row said when it was reviewed
    export,    \* what an export does, and the rows it has read
    file,      \* the exported file
    dataset    \* the dataset of that name: does it exist, what is in it

feedbackVars == <<post, feedback, given, reviewed, export, file, dataset>>

NoPost == [name |-> "none", owner |-> CHOOSE s \in Subjects : TRUE,
           run |-> CHOOSE r \in Runs : TRUE, rating |-> CHOOSE r \in Ratings : TRUE]

FeedbackInit ==
    /\ post = [c \in Calls |-> NoPost]
    /\ feedback = [k \in {} |-> {}]
    /\ given = [c \in Calls |-> {}]
    /\ reviewed = {}
    /\ export = [step |-> "idle", rows |-> {}]
    /\ file = {}
    /\ dataset = [exists |-> FALSE, rows |-> {}]

\* The call is handed to the repository, which connects to the database.
Post(c, p) ==
    /\ stage[c] = "admitted"
    /\ post' = [post EXCEPT ![c] = p]
    /\ Reach(c, "begun")
    /\ UNCHANGED <<now, who, feedback, given, reviewed, export, file, dataset>>

BeginSubmit(c, run, rating) ==
    Post(c, [name |-> "submit", owner |-> who[c], run |-> run, rating |-> rating])

(* mark_reviewed asks for an administrator first.                           *)
BeginReview(c, owner, run) ==
    Post(c, [name |-> "review", owner |-> owner, run |-> run, rating |-> NoPost.rating])

ReviewDenied(c) ==
    /\ stage[c] = "admitted"
    /\ Refuse(c, "authorization_denied")
    /\ UNCHANGED <<now, who, feedbackVars>>

Row(c) == <<post[c].owner, post[c].run>>
Rows == DOMAIN feedback
Fact(k) == [owner |-> k[1], run |-> k[2], rating |-> feedback[k].rating]

(* INSERT ... ON CONFLICT: a second submission changes nothing and is        *)
(* answered with the first.                                                 *)
Kept(c) == IF Row(c) \in Rows THEN feedback[Row(c)]
           ELSE [rating |-> post[c].rating, reviewed |-> FALSE]

InsertFeedback(c) ==
    /\ stage[c] = "begun" /\ post[c].name = "submit"
    /\ feedback' = [k \in Rows \cup {Row(c)} |-> IF k = Row(c) THEN Kept(c) ELSE feedback[k]]
    /\ \/ Answer(c, 201) /\ given' = [given EXCEPT ![c] = {Kept(c).rating}]
       \/ Answer(c, 500) /\ UNCHANGED given  \* the commit is not acknowledged
    /\ UNCHANGED <<now, who, post, reviewed, export, file, dataset>>

UpdateReviewed(c) ==
    /\ stage[c] = "begun" /\ post[c].name = "review"
    /\ \/ /\ Row(c) \in Rows
          /\ feedback' = [feedback EXCEPT ![Row(c)].reviewed = TRUE]
          /\ reviewed' = reviewed \cup {Fact(Row(c))}
          /\ \E code \in {200, 500} : Answer(c, code)
       \/ /\ Refuse(c, "resource_not_found")  \* there is none, or it is another tenant's
          /\ UNCHANGED <<feedback, reviewed>>
    /\ UNCHANGED <<now, who, post, given, export, file, dataset>>

\* The database fails or the process stops before anything was changed.
FeedbackFails(c) ==
    /\ stage[c] = "begun"
    /\ Answer(c, 500)
    /\ UNCHANGED <<now, who, feedbackVars>>

Exporting(step, rows) == export' = [step |-> step, rows |-> rows]

(* export_reviewed: one statement reads the reviewed rows, up to a limit.    *)
ReadAll == {Fact(k) : k \in Rows}                    \* mutant: unreviewed too
ReadReviewed == {Fact(k) : k \in {r \in Rows : feedback[r].reviewed}}

ExportRead ==
    /\ export.step = "idle"
    /\ \E rows \in SUBSET ReadReviewed : Exporting("read", rows)
    /\ UNCHANGED <<now, stage, who, status, post, feedback, given, reviewed, file, dataset>>

ExportWrite ==
    /\ export.step = "read"
    /\ file' = export.rows
    /\ Exporting(IF export.rows = {} THEN "idle" ELSE "written", export.rows)
    /\ UNCHANGED <<now, stage, who, status, post, feedback, given, reviewed, dataset>>

\* A dataset of that name must not exist: of an export that stopped after this
\* step the next one cannot make good.
ExportCreate ==
    /\ export.step = "written"
    /\ IF dataset.exists
       THEN Exporting("idle", {}) /\ UNCHANGED dataset
       ELSE Exporting("created", export.rows) /\ dataset' = [dataset EXCEPT !.exists = TRUE]
    /\ UNCHANGED <<now, stage, who, status, post, feedback, given, reviewed, file>>

ExportUpload ==
    /\ export.step = "created"
    /\ dataset' = [dataset EXCEPT !.rows = export.rows]
    /\ Exporting("idle", {})
    /\ UNCHANGED <<now, stage, who, status, post, feedback, given, reviewed, file>>

\* No dataset was asked for, an error, or the end of the process.
ExportStops ==
    /\ export.step # "idle"
    /\ Exporting("idle", {})
    /\ UNCHANGED <<now, stage, who, status, post, feedback, given, reviewed, file, dataset>>

FeedbackNext ==
    \/ \E c \in Calls :
         \/ \E r \in Runs, v \in Ratings : BeginSubmit(c, r, v)
         \/ \E s \in Subjects, r \in Runs : BeginReview(c, s, r)
         \/ ReviewDenied(c) \/ InsertFeedback(c) \/ UpdateReviewed(c) \/ FeedbackFails(c)
    \/ ExportRead \/ ExportWrite \/ ExportCreate \/ ExportUpload \/ ExportStops

FeedbackSpec ==
    /\ CallsInit([c \in Calls |-> "admitted"]) /\ FeedbackInit
    /\ [][FeedbackNext]_<<now, stage, who, status, feedbackVars>>
-----------------------------------------------------------------------------
(* Properties *)

FeedbackTypeOK ==
    /\ post \in [Calls -> [name : {"none", "submit", "review"}, owner : Subjects,
                          run : Runs, rating : Ratings]]
    /\ Rows \subseteq Subjects \X Runs
    /\ feedback \in [Rows -> [rating : Ratings, reviewed : BOOLEAN]]
    /\ given \in [Calls -> SUBSET Ratings]
    /\ export.step \in {"idle", "read", "written", "created"}

\* A submission that is repeated, with whatever it says, never changes what an
\* administrator reviewed, nor what an export that is under way has read: the
\* file and the dataset say of a run what its row said when it was reviewed, and
\* says still.
OnlyReviewedIsExported ==
    \A f \in file \cup dataset.rows \cup export.rows :
        f \in reviewed /\ f = Fact(<<f.owner, f.run>>)
=============================================================================
