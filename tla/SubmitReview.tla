-------------------------------- MODULE SubmitReview --------------------------------
(***************************************************************************)
(* SubmitReviewService.submit_review, for requests that run at the same    *)
(* time.  A request names an idempotency key, proves who it is by a review *)
(* token, and carries the answer to a Turnstile challenge, which can be    *)
(* verified once.  A key that is known to its bearer is replayed without a *)
(* verification.  A new one is verified first and then written, the review *)
(* and its pipeline task in one transaction.  The reply holds an upload    *)
(* URL, or no URL when the audio is there already.                         *)
(*                                                                         *)
(* Every query, verification and S3 call is a step.  A request may end     *)
(* before any of them, and its caller may never see a reply; the browser   *)
(* then sends another request with the same key and token.                 *)
(***************************************************************************)
EXTENDS FiniteSets

CONSTANTS
    Request,   \* calls of submit_review
    Key,       \* idempotency keys, well-formed UUIDs
    Token,     \* review tokens; a token stands for its digest
    Captcha,   \* answers to Turnstile challenges
    None       \* no row, no captcha, no reply, not read

\* What the properties tell apart of a review's row: whose it is, and whether
\* its status is still AWAITING_UPLOAD.
Review == [token : Token, awaiting : BOOLEAN]

\* The job of an invocation: `created`, and `status` as it was read.
Seen == [created : BOOLEAN, awaiting : BOOLEAN]

Call == [key : Key, token : Token, captcha : Captcha \cup {None}]

Stage == {"idle", "look", "task", "verify", "create", "respond", "head", "presign", "done"}

Refusal == {"rejected", "unavailable"}

Reply == {"url", "existing", "unauthenticated", "invalid", "internal"} \cup Refusal

\* What held when a request came in.
Before == [held : BOOLEAN, uploaded : BOOLEAN]

ASSUME SubmitAssumption ==
    None \notin Request \cup Captcha \cup Review \cup Seen \cup Call \cup Before \cup Reply

VARIABLES
    review,    \* review_jobs, by key
    linked,    \* the keys whose review has its pipeline task
    uploaded,  \* the keys whose source object is in S3
    usedBy,    \* the request for which Turnstile has taken an answer
    call,      \* what each request carries
    stage,     \* where its invocation is
    seen,      \* the job it goes by
    failure,   \* why its verification failed
    reply,
    before,    \* history: what held when the request came in
    creator    \* history: the request that made the review of a key

submitVars == <<review, linked, uploaded, usedBy, call, stage, seen, failure, reply,
                before, creator>>

SubmitInit ==
    /\ review = [k \in Key |-> None]
    /\ linked = {}
    /\ uploaded = {}
    /\ usedBy = [c \in Captcha |-> None]
    /\ call = [r \in Request |-> None]
    /\ stage = [r \in Request |-> "idle"]
    /\ seen = [r \in Request |-> None]
    /\ failure = [r \in Request |-> None]
    /\ reply = [r \in Request |-> None]
    /\ before = [r \in Request |-> None]
    /\ creator = [k \in Key |-> None]

At(r, where) == stage[r] = where

GoTo(r, where) == stage' = [stage EXCEPT ![r] = where]

Answer(r, what) ==
    /\ GoTo(r, "done")
    /\ reply' = [reply EXCEPT ![r] = what]

KeyOf(r) == call[r].key

\* ensure_review_token_matches
IsBearer(r) == review[KeyOf(r)].token = call[r].token

Held(k, t) == review[k] # None /\ review[k].token = t

\* Fault: the captcha is looked at before the key.
SubmitVerifyingFirst(r, k, t, c) ==
    /\ At(r, "idle")
    /\ call' = [call EXCEPT ![r] = [key |-> k, token |-> t, captcha |-> c]]
    /\ before' = [before EXCEPT ![r] = [held |-> Held(k, t), uploaded |-> k \in uploaded]]
    /\ GoTo(r, IF c = None THEN "look" ELSE "verify")
    /\ UNCHANGED <<review, linked, uploaded, usedBy, seen, failure, reply, creator>>

\* A request comes in, with headers that parse.
Submit(r, k, t, c) ==
    /\ At(r, "idle")
    /\ call' = [call EXCEPT ![r] = [key |-> k, token |-> t, captcha |-> c]]
    /\ before' = [before EXCEPT ![r] = [held |-> Held(k, t), uploaded |-> k \in uploaded]]
    /\ GoTo(r, "look")
    /\ UNCHANGED <<review, linked, uploaded, usedBy, seen, failure, reply, creator>>

\* existing_submission, its first query.  It is made twice: before the
\* verification, and again when the verification has failed.
LookFindsNothing(r) ==
    /\ At(r, "look")
    /\ review[KeyOf(r)] = None
    /\ \/ /\ failure[r] = None
          /\ call[r].captcha # None
          /\ GoTo(r, "verify")
          /\ UNCHANGED reply
       \/ /\ failure[r] = None
          /\ call[r].captcha = None
          /\ Answer(r, "invalid")
       \/ /\ failure[r] # None
          /\ Answer(r, failure[r])
    /\ UNCHANGED <<review, linked, uploaded, usedBy, call, seen, failure, before, creator>>

\* get_by_idempotency_key tells created from replayed: its rows are not new.
FoundByKey(k) == [created |-> FALSE, awaiting |-> review[k].awaiting]

LookFindsReview(r) ==
    /\ At(r, "look")
    /\ review[KeyOf(r)] # None
    /\ IF IsBearer(r)
       THEN /\ seen' = [seen EXCEPT ![r] = FoundByKey(KeyOf(r))]
            /\ GoTo(r, "task")
            /\ UNCHANGED reply
       ELSE /\ Answer(r, "unauthenticated")
            /\ UNCHANGED seen
    /\ UNCHANGED <<review, linked, uploaded, usedBy, call, failure, before, creator>>

\* existing_submission, its second query.
LookForTask(r) ==
    /\ At(r, "task")
    /\ IF KeyOf(r) \in linked
       THEN GoTo(r, "respond") /\ UNCHANGED reply
       ELSE Answer(r, "internal")
    /\ UNCHANGED <<review, linked, uploaded, usedBy, call, seen, failure, before, creator>>

\* Siteverify takes an answer once, whatever comes of the response.
Take(r) ==
    /\ usedBy[call[r].captcha] = None
    /\ usedBy' = [usedBy EXCEPT ![call[r].captcha] = r]

VerifyAccepts(r) ==
    /\ At(r, "verify")
    /\ Take(r)
    /\ GoTo(r, "create")
    /\ UNCHANGED <<review, linked, uploaded, call, seen, failure, reply, before, creator>>

\* Fault: a service that does not answer is taken for a yes.
VerifyFailsOpen(r) ==
    /\ At(r, "verify")
    /\ Take(r) \/ UNCHANGED usedBy
    /\ \/ /\ failure' = [failure EXCEPT ![r] = "rejected"]
          /\ GoTo(r, "look")
       \/ GoTo(r, "create") /\ UNCHANGED failure
    /\ UNCHANGED <<review, linked, uploaded, call, seen, reply, before, creator>>

\* Fault: a failed verification is the answer.
VerifyFailsAtOnce(r) ==
    /\ At(r, "verify")
    /\ Take(r) \/ UNCHANGED usedBy
    /\ \E f \in Refusal : Answer(r, f)
    /\ UNCHANGED <<review, linked, uploaded, call, seen, failure, before, creator>>

\* Rejected: used, expired, or for another host or action.  Unavailable: no
\* response in time, or one that cannot be read.  A failure sends the request
\* back to existing_submission.
VerifyFails(r) ==
    /\ At(r, "verify")
    /\ Take(r) \/ UNCHANGED usedBy
    /\ \E f \in Refusal : failure' = [failure EXCEPT ![r] = f]
    /\ GoTo(r, "look")
    /\ UNCHANGED <<review, linked, uploaded, call, seen, reply, before, creator>>

\* Fault: the review is committed before its task.  The request that made it
\* comes back for the task as any other does, with the conflict on the key.
CreateReviewThenTask(r) ==
    /\ At(r, "create")
    /\ review[KeyOf(r)] = None
    /\ review' = [review EXCEPT ![KeyOf(r)] = [token |-> call[r].token, awaiting |-> TRUE]]
    /\ creator' = [creator EXCEPT ![KeyOf(r)] = r]
    /\ UNCHANGED <<linked, uploaded, usedBy, call, stage, seen, failure, reply, before>>

\* create_or_get_review, for a key that has no review.
CreateReview(r) ==
    /\ At(r, "create")
    /\ review[KeyOf(r)] = None
    /\ review' = [review EXCEPT ![KeyOf(r)] = [token |-> call[r].token, awaiting |-> TRUE]]
    /\ linked' = linked \cup {KeyOf(r)}
    /\ creator' = [creator EXCEPT ![KeyOf(r)] = r]
    /\ seen' = [seen EXCEPT ![r] = [created |-> TRUE, awaiting |-> TRUE]]
    /\ GoTo(r, "respond")
    /\ UNCHANGED <<uploaded, usedBy, call, failure, reply, before>>

\* Fault: after its own verification a request takes the review for its own.
GetReviewUnchecked(r) ==
    /\ At(r, "create")
    /\ review[KeyOf(r)] # None
    /\ linked' = linked \cup {KeyOf(r)}
    /\ seen' = [seen EXCEPT ![r] = FoundByKey(KeyOf(r))]
    /\ GoTo(r, "respond")
    /\ UNCHANGED <<review, uploaded, usedBy, call, failure, reply, before, creator>>

\* create_or_get_review, when another request has made the review meanwhile.
GetReview(r) ==
    /\ At(r, "create")
    /\ review[KeyOf(r)] # None
    /\ linked' = linked \cup {KeyOf(r)}
    /\ IF IsBearer(r)
       THEN /\ seen' = [seen EXCEPT ![r] = FoundByKey(KeyOf(r))]
            /\ GoTo(r, "respond")
            /\ UNCHANGED reply
       ELSE /\ Answer(r, "unauthenticated")
            /\ UNCHANGED seen
    /\ UNCHANGED <<review, uploaded, usedBy, call, failure, before, creator>>

\* Fault: a replay is answered without a look at the bucket.
RespondToReplay(r) ==
    /\ At(r, "respond")
    /\ \/ ~seen[r].created /\ Answer(r, "existing")
       \/ seen[r].created /\ GoTo(r, "presign") /\ UNCHANGED reply
    /\ UNCHANGED <<review, linked, uploaded, usedBy, call, seen, failure, before, creator>>

\* submission_response goes by the row as it was read.
Respond(r) ==
    /\ At(r, "respond")
    /\ \/ ~seen[r].awaiting /\ Answer(r, "existing")
       \/ seen[r].awaiting /\ seen[r].created /\ GoTo(r, "presign") /\ UNCHANGED reply
       \/ seen[r].awaiting /\ ~seen[r].created /\ GoTo(r, "head") /\ UNCHANGED reply
    /\ UNCHANGED <<review, linked, uploaded, usedBy, call, seen, failure, before, creator>>

HeadObject(r) ==
    /\ At(r, "head")
    /\ IF KeyOf(r) \in uploaded
       THEN Answer(r, "existing")
       ELSE GoTo(r, "presign") /\ UNCHANGED reply
    /\ UNCHANGED <<review, linked, uploaded, usedBy, call, seen, failure, before, creator>>

PresignUpload(r) ==
    /\ At(r, "presign")
    /\ Answer(r, "url")
    /\ UNCHANGED <<review, linked, uploaded, usedBy, call, seen, failure, before, creator>>

\* A query or a call of S3 fails, or the invocation ends.
Fail(r) ==
    /\ stage[r] \notin {"idle", "done"}
    /\ Answer(r, "internal")
    /\ UNCHANGED <<review, linked, uploaded, usedBy, call, seen, failure, before, creator>>

\* The caller puts its audio under the URL; it may do so again.
Upload(r) ==
    /\ reply[r] = "url"
    /\ uploaded' = uploaded \cup {KeyOf(r)}
    /\ UNCHANGED <<review, linked, usedBy, call, stage, seen, failure, reply, before, creator>>

\* mark_upload_complete, when S3 tells of the object.  The later statuses are
\* no return to AWAITING_UPLOAD.
MarkUploadComplete(k) ==
    /\ k \in uploaded
    /\ review[k] # None
    /\ review[k].awaiting
    /\ review' = [review EXCEPT ![k].awaiting = FALSE]
    /\ UNCHANGED <<linked, uploaded, usedBy, call, stage, seen, failure, reply, before, creator>>

RequestStep(r) ==
    \/ \E k \in Key, t \in Token, c \in Captcha \cup {None} : Submit(r, k, t, c)
    \/ LookFindsNothing(r) \/ LookFindsReview(r) \/ LookForTask(r)
    \/ VerifyAccepts(r) \/ VerifyFails(r)
    \/ CreateReview(r) \/ GetReview(r)
    \/ Respond(r) \/ HeadObject(r) \/ PresignUpload(r)
    \/ Fail(r) \/ Upload(r)

SubmitNext ==
    \/ \E r \in Request : RequestStep(r)
    \/ \E k \in Key : MarkUploadComplete(k)

SubmitSpec == SubmitInit /\ [][SubmitNext]_submitVars

(***************************************************************************)
(* Properties                                                              *)
(***************************************************************************)
\* Types, and what a request has in hand at each of its stages.
SubmitTypeOK ==
    /\ review \in [Key -> Review \cup {None}]
    /\ linked \subseteq Key
    /\ uploaded \subseteq Key
    /\ usedBy \in [Captcha -> Request \cup {None}]
    /\ call \in [Request -> Call \cup {None}]
    /\ stage \in [Request -> Stage]
    /\ seen \in [Request -> Seen \cup {None}]
    /\ failure \in [Request -> Refusal \cup {None}]
    /\ reply \in [Request -> Reply \cup {None}]
    /\ before \in [Request -> Before \cup {None}]
    /\ creator \in [Key -> Request \cup {None}]
    /\ \A r \in Request :
        /\ At(r, "idle") <=> call[r] = None
        /\ At(r, "idle") <=> before[r] = None
        /\ stage[r] \in {"task", "respond", "head", "presign"} => seen[r] # None
        /\ At(r, "verify") => call[r].captcha # None
        /\ At(r, "done") <=> reply[r] # None

\* Whoever is told of a review, with a URL or without one, is its bearer:
\* also when two requests with one key and different tokens were verified
\* together and raced to create it.
RepliesGoToTheBearer ==
    \A r \in Request :
        reply[r] \in {"url", "existing"} => review[KeyOf(r)] # None /\ IsBearer(r)

\* A review is made by a request for which Turnstile has taken an answer, and
\* by one request only: lost responses, unavailability and races with the same
\* answer do not get a second review out of it.
ReviewsArePaidFor ==
    \A k \in Key :
        review[k] # None =>
            /\ \E c \in Captcha : usedBy[c] = creator[k]
            /\ creator[k] \in Request
            /\ KeyOf(creator[k]) = k
            /\ review[k].token = call[creator[k]].token

\* "A committed review can never be observed without its task": two queries
\* that are no transaction never find the one and miss the other.
ReviewsHaveTheirTask ==
    \A r \in Request : At(r, "task") => KeyOf(r) \in linked

\* A reply without a URL means that the audio is there, so the browser resumes
\* instead of uploading: a status that has moved is proof of it as well.
NoUrlMeansUploaded ==
    \A r \in Request : reply[r] = "existing" => KeyOf(r) \in uploaded

\* A request that comes in after the upload gets no URL: a second PUT could
\* overwrite the object the pipeline reads.
UrlsPrecedeUploads ==
    \A r \in Request : reply[r] = "url" => ~before[r].uploaded

\* A replay by the bearer, that is a request after the commit, is free: it is
\* not refused and no Turnstile answer is taken for it.
ReplaysAreFree ==
    \A r \in Request :
        (before[r] # None /\ before[r].held) =>
            /\ reply[r] \notin Refusal \cup {"unauthenticated", "invalid"}
            /\ \A c \in Captcha : usedBy[c] # r

\* A bearer whose verification fails is refused only while there is no review:
\* when another of its requests has spent the answer and committed meanwhile,
\* that review is replayed.
BearersAreNotRefused ==
    [][\A r \in Request :
        (reply[r] = None /\ reply'[r] \in Refusal) =>
            ~Held(call[r].key, call[r].token)]_submitVars

=============================================================================
