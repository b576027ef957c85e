--------------------------- MODULE SubmitReview_proofs ---------------------------
(***************************************************************************)
(* Proofs about submit_review, for any number of requests, keys, tokens    *)
(* and Turnstile answers.  One inductive invariant carries them all: what  *)
(* a request has found out by its stage stays true, since a review never   *)
(* changes hands, its task stays linked and an upload stays.               *)
(***************************************************************************)
EXTENDS SubmitReview, TLAPS

\* A request in hand of a review: it has found or made it.
Knows(r) ==
    \/ stage[r] \in {"task", "respond", "head", "presign"}
    \/ reply[r] \in {"url", "existing"}

BearersKnow == \A r \in Request : Knows(r) => Held(KeyOf(r), call[r].token)

\* Turnstile has taken an answer of whoever creates.
CreatorsPaid ==
    /\ ReviewsArePaidFor
    /\ \A r \in Request : At(r, "create") => \E c \in Captcha : usedBy[c] = r
    /\ \A r \in Request : At(r, "idle") => \A c \in Captcha : usedBy[c] # r

ReviewsAreLinked == \A k \in Key : review[k] # None => k \in linked

\* What is no longer awaited has been uploaded, and uploads are of reviews.
MovedIsUploaded ==
    /\ \A k \in Key : review[k] # None /\ ~ review[k].awaiting => k \in uploaded
    /\ \A k \in uploaded : review[k] # None
    /\ \A r \in Request : seen[r] # None /\ ~ seen[r].awaiting => KeyOf(r) \in uploaded
    /\ NoUrlMeansUploaded

\* A request that comes after the upload is not on the way to a URL.
LateRequests ==
    \A r \in Request : before[r] # None /\ before[r].uploaded =>
        /\ KeyOf(r) \in uploaded
        /\ seen[r] # None => ~ seen[r].created
        /\ ~ At(r, "presign")
        /\ reply[r] # "url"

\* A replay is not on the way to a verification.
Replays ==
    \A r \in Request : before[r] # None /\ before[r].held =>
        /\ Held(KeyOf(r), call[r].token)
        /\ stage[r] \notin {"verify", "create"}
        /\ failure[r] = None
        /\ reply[r] \notin Refusal \cup {"unauthenticated", "invalid"}
        /\ \A c \in Captcha : usedBy[c] # r

Fresh == \A r \in Request : At(r, "idle") => seen[r] = None /\ failure[r] = None

SubmitInv ==
    /\ SubmitTypeOK
    /\ Fresh
    /\ BearersKnow
    /\ CreatorsPaid
    /\ ReviewsAreLinked
    /\ MovedIsUploaded
    /\ LateRequests
    /\ Replays

-----------------------------------------------------------------------------
(* Types                                                                   *)

LEMMA ReplyFacts ==
    /\ None \notin Reply /\ None \notin Refusal /\ None \notin Captcha /\ None \notin Request
    /\ None \notin Review /\ None \notin Seen /\ None \notin Call /\ None \notin Before
    /\ Refusal \subseteq Reply
    /\ {"url", "existing", "unauthenticated", "invalid", "internal"} \subseteq Reply
BY SubmitAssumption DEF Reply

LEMMA CallFacts ==
    ASSUME SubmitTypeOK, NEW r \in Request, ~ At(r, "idle")
    PROVE  /\ call[r] \in Call
           /\ KeyOf(r) \in Key
           /\ call[r].token \in Token
           /\ before[r] # None
BY DEF SubmitTypeOK, KeyOf, Call

LEMMA ReviewFacts ==
    ASSUME SubmitTypeOK, NEW k \in Key, review[k] # None
    PROVE  /\ review[k] \in Review
           /\ FoundByKey(k) \in Seen
           /\ FoundByKey(k).created = FALSE
           /\ FoundByKey(k).awaiting = review[k].awaiting
BY DEF SubmitTypeOK, FoundByKey, Review, Seen

LEMMA SubmitTypeStep ==
    ASSUME SubmitTypeOK, [SubmitNext]_submitVars
    PROVE  SubmitTypeOK'
<1>1. ASSUME NEW r \in Request, NEW k \in Key, NEW t \in Token, NEW c \in Captcha \cup {None},
             Submit(r, k, t, c)
      PROVE  SubmitTypeOK'
  <2>1. [key |-> k, token |-> t, captcha |-> c] \in Call \ {None}
    BY ReplyFacts DEF Call
  <2>2. [held |-> Held(k, t), uploaded |-> k \in uploaded] \in Before \ {None}
    <3>1. [held |-> Held(k, t), uploaded |-> k \in uploaded] \in Before
      BY DEF Held, Before
    <3> QED
      BY <3>1, ReplyFacts
  <2> QED
    BY <1>1, <2>1, <2>2 DEF Submit, At, GoTo, SubmitTypeOK, Stage
<1>2. ASSUME NEW r \in Request, LookFindsNothing(r) PROVE SubmitTypeOK'
  <2>1. CASE call[r].captcha # None /\ GoTo(r, "verify") /\ UNCHANGED reply
    BY <1>2, <2>1 DEF LookFindsNothing, At, GoTo, SubmitTypeOK, Stage
  <2>2. ASSUME NEW what \in Reply, Answer(r, what) PROVE SubmitTypeOK'
    BY <1>2, <2>2, ReplyFacts DEF LookFindsNothing, Answer, At, GoTo, SubmitTypeOK, Stage
  <2> QED
    BY <1>2, <2>1, <2>2, ReplyFacts DEF LookFindsNothing, SubmitTypeOK
<1>3. ASSUME NEW r \in Request, LookFindsReview(r) PROVE SubmitTypeOK'
  <2>1. FoundByKey(KeyOf(r)) \in Seen \ {None}
    BY <1>3, CallFacts, ReviewFacts, ReplyFacts DEF LookFindsReview, At
  <2> QED
    BY <1>3, <2>1, ReplyFacts DEF LookFindsReview, Answer, At, GoTo, SubmitTypeOK, Stage
<1>4. ASSUME NEW r \in Request, LookForTask(r) PROVE SubmitTypeOK'
  BY <1>4, ReplyFacts DEF LookForTask, Answer, At, GoTo, SubmitTypeOK, Stage
<1>5. ASSUME NEW r \in Request, VerifyAccepts(r) \/ VerifyFails(r) PROVE SubmitTypeOK'
  <2>1. call[r].captcha \in Captcha
    BY <1>5, CallFacts DEF VerifyAccepts, VerifyFails, At, SubmitTypeOK, Call
  <2>2. CASE VerifyAccepts(r)
    BY <2>1, <2>2 DEF VerifyAccepts, Take, At, GoTo, SubmitTypeOK, Stage
  <2>3. CASE VerifyFails(r)
    BY <2>1, <2>3 DEF VerifyFails, Take, At, GoTo, SubmitTypeOK, Stage
  <2> QED
    BY <1>5, <2>2, <2>3
<1>6. ASSUME NEW r \in Request, CreateReview(r) PROVE SubmitTypeOK'
  <2>1. KeyOf(r) \in Key /\ call[r].token \in Token
    BY <1>6, CallFacts DEF CreateReview, At
  <2>2. /\ [token |-> call[r].token, awaiting |-> TRUE] \in Review
        /\ [created |-> TRUE, awaiting |-> TRUE] \in Seen
    BY <2>1 DEF Review, Seen
  <2>3. [created |-> TRUE, awaiting |-> TRUE] # None
    BY <2>2, ReplyFacts
  <2> QED
    BY <1>6, <2>1, <2>2, <2>3 DEF CreateReview, At, GoTo, SubmitTypeOK, Stage
<1>7. ASSUME NEW r \in Request, GetReview(r) PROVE SubmitTypeOK'
  <2>1. FoundByKey(KeyOf(r)) \in Seen \ {None} /\ KeyOf(r) \in Key
    BY <1>7, CallFacts, ReviewFacts, ReplyFacts DEF GetReview, At
  <2> QED
    BY <1>7, <2>1, ReplyFacts DEF GetReview, Answer, At, GoTo, SubmitTypeOK, Stage
<1>8. ASSUME NEW r \in Request, Respond(r) \/ HeadObject(r) \/ PresignUpload(r) PROVE SubmitTypeOK'
  BY <1>8, ReplyFacts
     DEF Respond, HeadObject, PresignUpload, Answer, At, GoTo, SubmitTypeOK, Stage
<1>9. ASSUME NEW r \in Request, Fail(r) PROVE SubmitTypeOK'
  BY <1>9, ReplyFacts DEF Fail, Answer, At, GoTo, SubmitTypeOK, Stage
<1>10. ASSUME NEW r \in Request, Upload(r) PROVE SubmitTypeOK'
  BY <1>10, CallFacts, ReplyFacts DEF Upload, At, SubmitTypeOK
<1>11. ASSUME NEW k \in Key, MarkUploadComplete(k) PROVE SubmitTypeOK'
  <2>1. [review[k] EXCEPT !.awaiting = FALSE] \in Review
    BY <1>11, ReviewFacts DEF MarkUploadComplete, Review
  <2> QED
    BY <1>11, <2>1 DEF MarkUploadComplete, At, SubmitTypeOK
<1>12. CASE UNCHANGED submitVars
  BY <1>12 DEF submitVars, At, SubmitTypeOK
<1> QED
  BY <1>1, <1>2, <1>3, <1>4, <1>5, <1>6, <1>7, <1>8, <1>9, <1>10, <1>11, <1>12
     DEF SubmitNext, RequestStep

LEMMA SubmitInvInit == SubmitInit => SubmitInv
<1> SUFFICES ASSUME SubmitInit PROVE SubmitInv
  OBVIOUS
<1>1. SubmitTypeOK
  BY ReplyFacts DEF SubmitInit, SubmitTypeOK, At, Stage
<1>2. BearersKnow
  BY ReplyFacts DEF SubmitInit, BearersKnow, Knows, Reply
<1>3. CreatorsPaid
  BY ReplyFacts DEF SubmitInit, CreatorsPaid, ReviewsArePaidFor, At
<1>4. Fresh /\ ReviewsAreLinked /\ LateRequests /\ Replays
  BY DEF SubmitInit, Fresh, ReviewsAreLinked, LateRequests, Replays
<1>5. MovedIsUploaded
  BY ReplyFacts DEF SubmitInit, MovedIsUploaded, NoUrlMeansUploaded, Reply
<1> QED
  BY <1>1, <1>2, <1>3, <1>4, <1>5 DEF SubmitInv

-----------------------------------------------------------------------------
(* What requests know stays true                                           *)

\* No step takes back a review, a link, an upload or a spent answer, and what
\* a request carries is fixed when it comes in.
Monotone ==
    /\ \A k \in Key : review[k] # None =>
          /\ review'[k] # None
          /\ review'[k].token = review[k].token
          /\ creator'[k] = creator[k]
    /\ linked \subseteq linked'
    /\ uploaded \subseteq uploaded'
    /\ \A c \in Captcha : usedBy[c] # None => usedBy'[c] = usedBy[c]
    /\ \A r \in Request : ~ At(r, "idle") => call'[r] = call[r] /\ before'[r] = before[r]

LEMMA StepsAreMonotone ==
    ASSUME SubmitTypeOK, [SubmitNext]_submitVars
    PROVE  Monotone
<1>1. ASSUME NEW k \in Key, MarkUploadComplete(k) PROVE Monotone
  <2>1. review[k] \in Review
    BY <1>1, ReviewFacts DEF MarkUploadComplete
  <2>2. review'[k] = [review[k] EXCEPT !.awaiting = FALSE]
    BY <1>1 DEF MarkUploadComplete, SubmitTypeOK
  <2>3. review'[k] \in Review /\ review'[k].token = review[k].token
    BY <2>1, <2>2 DEF Review
  <2>4. review'[k] # None
    BY <2>3, ReplyFacts
  <2> QED
    BY <1>1, <2>3, <2>4 DEF Monotone, MarkUploadComplete, SubmitTypeOK
<1>2. ASSUME NEW r \in Request, RequestStep(r) PROVE Monotone
  <2>1. ASSUME NEW k \in Key, NEW t \in Token, NEW c \in Captcha \cup {None}, Submit(r, k, t, c)
        PROVE  Monotone
    BY <2>1 DEF Submit, Monotone, SubmitTypeOK, At
  <2>2. CASE LookFindsNothing(r) \/ LookFindsReview(r) \/ LookForTask(r) \/ Respond(r)
             \/ HeadObject(r) \/ PresignUpload(r) \/ Fail(r)
    BY <2>2 DEF LookFindsNothing, LookFindsReview, LookForTask, Respond, HeadObject,
       PresignUpload, Fail, Monotone
  <2>3. CASE VerifyAccepts(r) \/ VerifyFails(r)
    BY <2>3 DEF VerifyAccepts, VerifyFails, Take, Monotone, SubmitTypeOK
  <2>4. CASE CreateReview(r) \/ GetReview(r)
    BY <2>4, CallFacts DEF CreateReview, GetReview, At, Monotone, SubmitTypeOK
  <2>5. CASE Upload(r)
    BY <2>5 DEF Upload, Monotone
  <2> QED
    BY <1>2, <2>1, <2>2, <2>3, <2>4, <2>5 DEF RequestStep
<1>3. CASE UNCHANGED submitVars
  BY <1>3 DEF submitVars, Monotone
<1> QED
  BY <1>1, <1>2, <1>3 DEF SubmitNext

\* A step concerns one request, or none.
LEMMA OthersStay ==
    ASSUME SubmitTypeOK, NEW r \in Request, RequestStep(r), NEW q \in Request, q # r
    PROVE  /\ stage'[q] = stage[q] /\ seen'[q] = seen[q] /\ failure'[q] = failure[q]
           /\ reply'[q] = reply[q] /\ call'[q] = call[q] /\ before'[q] = before[q]
           /\ \A c \in Captcha : usedBy'[c] = q => usedBy[c] = q
BY DEF RequestStep, Submit, LookFindsNothing, LookFindsReview, LookForTask, VerifyAccepts,
   VerifyFails, Take, CreateReview, GetReview, Respond, HeadObject, PresignUpload, Fail, Upload,
   Answer, GoTo, SubmitTypeOK

LEMMA HeldStays ==
    ASSUME SubmitTypeOK, Monotone, NEW k \in Key, NEW t, Held(k, t)
    PROVE  Held(k, t)'
BY DEF Monotone, Held

\* Whoever is told of a review has found it its own.
LEMMA BearersKnowStep ==
    ASSUME SubmitInv, SubmitTypeOK', Monotone, [SubmitNext]_submitVars
    PROVE  BearersKnow'
<1> USE DEF SubmitInv
<1>1. ASSUME NEW q \in Request, Knows(q)
      PROVE  Held(KeyOf(q), call[q].token)'
  <2>1. ~ At(q, "idle")
    BY <1>1, ReplyFacts DEF Knows, At, SubmitTypeOK
  <2>2. Held(KeyOf(q), call[q].token) /\ KeyOf(q) \in Key
    BY <1>1, <2>1, CallFacts DEF BearersKnow
  <2>3. call'[q] = call[q]
    BY <2>1 DEF Monotone
  <2> QED
    BY <2>2, <2>3, HeldStays DEF KeyOf, Held
<1>2. ASSUME NEW r \in Request, RequestStep(r) PROVE BearersKnow'
  <2>1. ASSUME NEW q \in Request, q # r, Knows(q)' PROVE Held(KeyOf(q), call[q].token)'
    BY <1>1, <1>2, <2>1, OthersStay DEF Knows
  <2>2. ASSUME Knows(r)', ~ Knows(r) PROVE Held(KeyOf(r), call[r].token)'
    <3>1. \/ LookFindsReview(r) /\ IsBearer(r)
          \/ CreateReview(r)
          \/ GetReview(r) /\ IsBearer(r)
      BY <1>2, <2>2, ReplyFacts
         DEF RequestStep, Knows, Submit, LookFindsNothing, LookFindsReview, LookForTask,
             VerifyAccepts, VerifyFails, GetReview, Respond, HeadObject, PresignUpload, Fail,
             Upload, Answer, GoTo, At, SubmitTypeOK, Refusal
    <3>2. KeyOf(r) \in Key /\ UNCHANGED call
      BY <3>1, CallFacts DEF LookFindsReview, CreateReview, GetReview, At
    <3>3. CASE CreateReview(r)
      <4>1. call[r].token \in Token
        BY <3>3, CallFacts DEF CreateReview, At
      <4>2. [token |-> call[r].token, awaiting |-> TRUE] \in Review
        BY <4>1 DEF Review
      <4>3. review'[KeyOf(r)] = [token |-> call[r].token, awaiting |-> TRUE]
        BY <3>2, <3>3 DEF CreateReview, SubmitTypeOK
      <4>4. review'[KeyOf(r)] # None /\ review'[KeyOf(r)].token = call[r].token
        <5>1. review'[KeyOf(r)] \in Review /\ review'[KeyOf(r)].token = call[r].token
          BY <4>2, <4>3
        <5> QED
          BY <5>1, ReplyFacts
      <4> QED
        BY <3>2, <4>4 DEF Held, KeyOf
    <3>4. CASE (LookFindsReview(r) \/ GetReview(r)) /\ IsBearer(r)
      BY <3>2, <3>4 DEF LookFindsReview, GetReview, IsBearer, Held, KeyOf
    <3> QED
      BY <3>1, <3>3, <3>4
  <2> QED
    BY <1>1, <2>1, <2>2 DEF BearersKnow
<1>3. CASE UNCHANGED <<stage, reply>>
  BY <1>1, <1>3 DEF BearersKnow, Knows
<1> QED
  BY <1>2, <1>3 DEF SubmitNext, MarkUploadComplete, submitVars

\* What is in a request's hand after its step, when it was not before.
LEMMA CreatorsPaidStep ==
    ASSUME SubmitInv, SubmitTypeOK', Monotone, [SubmitNext]_submitVars
    PROVE  CreatorsPaid'
<1> USE DEF SubmitInv
<1>1. ASSUME UNCHANGED <<stage, creator, usedBy, call>>,
             \A k \in Key : review'[k] # None => review[k] # None
      PROVE  CreatorsPaid'
  BY <1>1 DEF CreatorsPaid, ReviewsArePaidFor, Monotone, KeyOf, At
<1>2. ASSUME NEW r \in Request, RequestStep(r) PROVE CreatorsPaid'
  <2>1. \A q \in Request : At(q, "create")' => \E c \in Captcha : usedBy'[c] = q
    <3> SUFFICES ASSUME NEW q \in Request, At(q, "create")'
                 PROVE  \E c \in Captcha : usedBy'[c] = q
      OBVIOUS
    <3>1. CASE At(q, "create")
      BY <3>1, ReplyFacts DEF CreatorsPaid, Monotone, SubmitTypeOK
    <3>2. CASE ~ At(q, "create")
      <4>1. q = r
        BY <1>2, <3>2, OthersStay DEF At
      <4>2. VerifyAccepts(r)
        BY <1>2, <3>2, <4>1 DEF RequestStep, Submit, LookFindsNothing, LookFindsReview, LookForTask,
           VerifyFails, CreateReview, GetReview, Respond, HeadObject, PresignUpload, Fail, Upload,
           Answer, GoTo, At, SubmitTypeOK
      <4>3. call[r].captcha \in Captcha
        BY <4>2, CallFacts DEF VerifyAccepts, At, SubmitTypeOK, Call
      <4> QED
        BY <4>1, <4>2, <4>3 DEF VerifyAccepts, Take, SubmitTypeOK
    <3> QED
      BY <3>1, <3>2
  <2>2. \A q \in Request : At(q, "idle")' => \A c \in Captcha : usedBy'[c] # q
    <3> SUFFICES ASSUME NEW q \in Request, At(q, "idle")', NEW c \in Captcha, usedBy'[c] = q
                 PROVE  FALSE
      OBVIOUS
    <3>1. CASE q = r
      BY <1>2, <3>1, ReplyFacts
         DEF RequestStep, Submit, LookFindsNothing, LookFindsReview, LookForTask, VerifyAccepts,
             VerifyFails, CreateReview, GetReview, Respond, HeadObject, PresignUpload, Fail, Upload,
             Answer, GoTo, At, SubmitTypeOK, CreatorsPaid
    <3>2. CASE q # r
      BY <1>2, <3>2, OthersStay DEF At, CreatorsPaid
    <3> QED
      BY <3>1, <3>2
  <2>3. ReviewsArePaidFor'
    <3> SUFFICES ASSUME NEW k \in Key, review'[k] # None
                 PROVE  /\ \E c \in Captcha : usedBy'[c] = creator'[k]
                        /\ creator'[k] \in Request
                        /\ call'[creator'[k]].key = k
                        /\ review'[k].token = call'[creator'[k]].token
      BY DEF ReviewsArePaidFor, KeyOf
    <3>1. CASE review[k] # None
      <4>1. /\ creator'[k] = creator[k] /\ creator[k] \in Request
            /\ review'[k].token = review[k].token
        BY <3>1 DEF CreatorsPaid, ReviewsArePaidFor, Monotone
      <4>2. PICK c \in Captcha : usedBy[c] = creator[k]
        BY <3>1 DEF CreatorsPaid, ReviewsArePaidFor
      <4>3. usedBy'[c] = creator[k] /\ ~ At(creator[k], "idle")
        BY <4>1, <4>2, ReplyFacts DEF Monotone, CreatorsPaid
      <4>4. call'[creator[k]] = call[creator[k]]
        BY <4>1, <4>3 DEF Monotone
      <4> QED
        BY <3>1, <4>1, <4>3, <4>4 DEF CreatorsPaid, ReviewsArePaidFor, KeyOf
    <3>2. CASE review[k] = None
      <4>1. CreateReview(r) /\ k = KeyOf(r)
        BY <1>2, <3>2 DEF RequestStep, Submit, LookFindsNothing, LookFindsReview, LookForTask,
           VerifyAccepts, VerifyFails, CreateReview, GetReview, Respond, HeadObject, PresignUpload,
           Fail, Upload, SubmitTypeOK
      <4>2. \E c \in Captcha : usedBy[c] = r
        BY <4>1 DEF CreateReview, CreatorsPaid
      <4>3. /\ review'[k] = [token |-> call[r].token, awaiting |-> TRUE]
            /\ creator'[k] = r
            /\ UNCHANGED <<usedBy, call>>
        BY <4>1 DEF CreateReview, SubmitTypeOK
      <4> QED
        BY <4>1, <4>2, <4>3 DEF KeyOf
    <3> QED
      BY <3>1, <3>2
  <2> QED
    BY <2>1, <2>2, <2>3 DEF CreatorsPaid
<1>3. ASSUME NEW k \in Key, MarkUploadComplete(k) PROVE CreatorsPaid'
  BY <1>1, <1>3 DEF MarkUploadComplete, SubmitTypeOK
<1>4. CASE UNCHANGED submitVars
  BY <1>1, <1>4 DEF submitVars
<1> QED
  BY <1>2, <1>3, <1>4 DEF SubmitNext

LEMMA ReviewsAreLinkedStep ==
    ASSUME SubmitInv, [SubmitNext]_submitVars
    PROVE  ReviewsAreLinked'
<1> USE DEF SubmitInv
<1>1. ASSUME NEW r \in Request, RequestStep(r) PROVE ReviewsAreLinked'
  <2>1. CASE CreateReview(r)
    BY <2>1 DEF CreateReview, ReviewsAreLinked, SubmitTypeOK
  <2>2. CASE ~ CreateReview(r)
    BY <1>1, <2>2 DEF RequestStep, Submit, LookFindsNothing, LookFindsReview, LookForTask,
       VerifyAccepts, VerifyFails, GetReview, Respond, HeadObject, PresignUpload, Fail, Upload,
       ReviewsAreLinked
  <2> QED
    BY <2>1, <2>2
<1>2. ASSUME NEW k \in Key, MarkUploadComplete(k) PROVE ReviewsAreLinked'
  BY <1>2 DEF MarkUploadComplete, ReviewsAreLinked, SubmitTypeOK
<1>3. CASE UNCHANGED submitVars
  BY <1>3 DEF submitVars, ReviewsAreLinked
<1> QED
  BY <1>1, <1>2, <1>3 DEF SubmitNext

LEMMA FreshStep ==
    ASSUME SubmitInv, SubmitTypeOK', [SubmitNext]_submitVars
    PROVE  Fresh'
<1> USE DEF SubmitInv
<1>1. ASSUME NEW r \in Request, RequestStep(r) PROVE Fresh'
  <2>1. ~ At(r, "idle")'
    BY <1>1, ReplyFacts
       DEF RequestStep, Submit, LookFindsNothing, LookFindsReview, LookForTask, VerifyAccepts,
           VerifyFails, CreateReview, GetReview, Respond, HeadObject, PresignUpload, Fail, Upload,
           Answer, GoTo, At, SubmitTypeOK
  <2> QED
    BY <1>1, <2>1, OthersStay DEF Fresh, At
<1>2. CASE UNCHANGED <<stage, seen, failure>>
  BY <1>2 DEF Fresh, At
<1> QED
  BY <1>1, <1>2 DEF SubmitNext, MarkUploadComplete, submitVars

\* What a request goes by: a row that has moved on was uploaded, and stays so.
LEMMA MovedIsUploadedStep ==
    ASSUME SubmitInv, SubmitTypeOK', Monotone, [SubmitNext]_submitVars
    PROVE  MovedIsUploaded'
<1> USE DEF SubmitInv
<1>1. \A k \in Key : (review[k] # None /\ ~ review[k].awaiting => k \in uploaded)'
  <2>1. ASSUME NEW r \in Request, CreateReview(r)
        PROVE  \A k \in Key : (review[k] # None /\ ~ review[k].awaiting => k \in uploaded)'
    BY <2>1 DEF CreateReview, MovedIsUploaded, SubmitTypeOK
  <2>2. ASSUME NEW m \in Key, MarkUploadComplete(m)
        PROVE  \A k \in Key : (review[k] # None /\ ~ review[k].awaiting => k \in uploaded)'
    BY <2>2 DEF MarkUploadComplete, MovedIsUploaded, SubmitTypeOK
  <2>3. CASE UNCHANGED review
    BY <2>3 DEF MovedIsUploaded, Monotone
  <2> QED
    BY <2>1, <2>2, <2>3 DEF SubmitNext, RequestStep, Submit, LookFindsNothing, LookFindsReview,
       LookForTask, VerifyAccepts, VerifyFails, GetReview, Respond, HeadObject, PresignUpload,
       Fail, Upload, submitVars
<1>2. \A k \in uploaded' : review'[k] # None
  <2>1. ASSUME NEW r \in Request, Upload(r) PROVE review[KeyOf(r)] # None
    BY <2>1 DEF Upload, BearersKnow, Knows, Held
  <2>2. \A k \in uploaded' \ uploaded : review[k] # None
    BY <2>1 DEF SubmitNext, RequestStep, Submit, LookFindsNothing, LookFindsReview,
       LookForTask, VerifyAccepts, VerifyFails, CreateReview, GetReview, Respond, HeadObject,
       PresignUpload, Fail, Upload, MarkUploadComplete, submitVars
  <2> QED
    BY <2>2 DEF MovedIsUploaded, Monotone, SubmitTypeOK
<1>3. ASSUME NEW q \in Request, (seen[q] # None /\ ~ seen[q].awaiting) \/ reply[q] = "existing"
      PROVE  KeyOf(q)' \in uploaded'
  <2>1. ~ At(q, "idle")
    BY <1>3, ReplyFacts DEF Fresh, At, SubmitTypeOK
  <2> QED
    BY <1>3, <2>1 DEF MovedIsUploaded, NoUrlMeansUploaded, Monotone, KeyOf
<1>4. ASSUME NEW r \in Request, RequestStep(r), seen'[r] # None, ~ seen'[r].awaiting
      PROVE  KeyOf(r)' \in uploaded'
  <2>1. CASE seen'[r] = seen[r]
    BY <1>3, <1>4, <2>1
  <2>2. CASE seen'[r] # seen[r]
    <3>1. CASE CreateReview(r)
      BY <1>4, <3>1 DEF CreateReview, SubmitTypeOK
    <3>2. CASE LookFindsReview(r) \/ GetReview(r)
      <4>1. /\ seen'[r] = FoundByKey(KeyOf(r)) /\ KeyOf(r) \in Key
            /\ review[KeyOf(r)] # None /\ UNCHANGED <<uploaded, call>>
        BY <2>2, <3>2, CallFacts DEF LookFindsReview, GetReview, At, SubmitTypeOK
      <4> QED
        BY <1>4, <4>1 DEF FoundByKey, MovedIsUploaded, KeyOf
    <3> QED
      BY <1>4, <2>2, <3>1, <3>2
         DEF RequestStep, Submit, LookFindsNothing, LookForTask, VerifyAccepts, VerifyFails,
             Respond, HeadObject, PresignUpload, Fail, Upload
  <2> QED
    BY <2>1, <2>2
<1>5. ASSUME NEW r \in Request, RequestStep(r), reply'[r] = "existing"
      PROVE  KeyOf(r)' \in uploaded'
  <2>1. CASE reply[r] = "existing"
    BY <1>3, <2>1
  <2>2. CASE reply[r] # "existing"
    <3>a. reply'[r] # reply[r]
      BY <1>5, <2>2
    <3>b. LookFindsNothing(r) => reply'[r] # "existing"
      BY <3>a, ReplyFacts DEF LookFindsNothing, Answer, SubmitTypeOK, Refusal
    <3>c. LookFindsReview(r) \/ LookForTask(r) \/ GetReview(r) => reply'[r] # "existing"
      BY <3>a DEF LookFindsReview, LookForTask, GetReview, Answer, SubmitTypeOK
    <3>d. PresignUpload(r) \/ Fail(r) => reply'[r] # "existing"
      BY DEF PresignUpload, Fail, Answer, SubmitTypeOK
    <3>e. Respond(r) => ~ seen[r].awaiting
      BY <3>a DEF Respond, Answer, SubmitTypeOK
    <3>f. HeadObject(r) => KeyOf(r) \in uploaded
      BY <3>a DEF HeadObject, Answer, SubmitTypeOK
    <3>g. ~ (\E k \in Key, t \in Token, c \in Captcha \cup {None} : Submit(r, k, t, c))
      BY <3>a DEF Submit
    <3>h. ~ (VerifyAccepts(r) \/ VerifyFails(r) \/ CreateReview(r) \/ Upload(r))
      BY <3>a DEF VerifyAccepts, VerifyFails, CreateReview, Upload
    <3>1. (Respond(r) /\ ~ seen[r].awaiting) \/ (HeadObject(r) /\ KeyOf(r) \in uploaded)
      BY <1>5, <3>b, <3>c, <3>d, <3>e, <3>f, <3>g, <3>h DEF RequestStep
    <3>2. CASE Respond(r) /\ ~ seen[r].awaiting
      BY <1>3, <3>2 DEF Respond, At, SubmitTypeOK
    <3>3. CASE HeadObject(r) /\ KeyOf(r) \in uploaded
      BY <3>3 DEF HeadObject, KeyOf
    <3> QED
      BY <3>1, <3>2, <3>3
  <2> QED
    BY <2>1, <2>2
<1>6. ASSUME NEW r \in Request, RequestStep(r)
      PROVE  \A q \in Request :
                 (seen'[q] # None /\ ~ seen'[q].awaiting) \/ reply'[q] = "existing"
                     => KeyOf(q)' \in uploaded'
  BY <1>3, <1>4, <1>5, <1>6, OthersStay
<1>7. CASE UNCHANGED <<seen, reply>>
  BY <1>1, <1>2, <1>3, <1>7 DEF MovedIsUploaded, NoUrlMeansUploaded
<1> QED
  BY <1>1, <1>2, <1>6, <1>7
     DEF SubmitNext, MovedIsUploaded, NoUrlMeansUploaded, MarkUploadComplete, submitVars

\* A request that comes after the upload stays away from a URL.
LEMMA LateRequestsStep ==
    ASSUME SubmitInv, SubmitTypeOK', Monotone, [SubmitNext]_submitVars
    PROVE  LateRequests'
<1> USE DEF SubmitInv
<1> DEFINE Late(q) == /\ KeyOf(q) \in uploaded
                      /\ seen[q] # None => ~ seen[q].created
                      /\ ~ At(q, "presign")
                      /\ reply[q] # "url"
<1>1. ASSUME NEW q \in Request, before[q] # None, before[q].uploaded, ~ At(q, "idle"),
             stage'[q] = stage[q], seen'[q] = seen[q], reply'[q] = reply[q]
      PROVE  Late(q)'
  BY <1>1 DEF LateRequests, Monotone, KeyOf, At
<1>2. ASSUME NEW r \in Request, RequestStep(r), before'[r] # None, before'[r].uploaded
      PROVE  Late(r)'
  <2>1. CASE At(r, "idle")
    <3>1. PICK k \in Key, t \in Token, c \in Captcha \cup {None} : Submit(r, k, t, c)
      BY <1>2, <2>1, ReplyFacts
         DEF RequestStep, LookFindsNothing, LookFindsReview, LookForTask, VerifyAccepts,
             VerifyFails, CreateReview, GetReview, Respond, HeadObject, PresignUpload, Fail,
             Upload, At, SubmitTypeOK
    <3>2. k \in uploaded /\ KeyOf(r)' = k /\ UNCHANGED uploaded
      BY <1>2, <3>1 DEF Submit, SubmitTypeOK, KeyOf
    <3>3. seen'[r] = None /\ reply'[r] = None /\ stage'[r] = "look"
      BY <3>1 DEF Submit, GoTo, Fresh, At, SubmitTypeOK
    <3> QED
      BY <3>2, <3>3, ReplyFacts DEF At
  <2>2. CASE ~ At(r, "idle")
    <3>1. Late(r) /\ before'[r] = before[r]
      BY <1>2, <2>2 DEF LateRequests, Monotone
    <3>2. KeyOf(r)' \in uploaded'
      BY <2>2, <3>1 DEF Monotone, KeyOf
    <3>3. review[KeyOf(r)] # None
      BY <3>1 DEF MovedIsUploaded
    <3>4. seen'[r] # None => ~ seen'[r].created
      BY <1>2, <2>2, <3>1, <3>3
         DEF RequestStep, Submit, LookFindsNothing, LookFindsReview, LookForTask, VerifyAccepts,
             VerifyFails, CreateReview, GetReview, Respond, HeadObject, PresignUpload, Fail,
             Upload, FoundByKey, SubmitTypeOK
    <3>5. ~ At(r, "presign")' /\ reply'[r] # "url"
      BY <1>2, <2>2, <3>1, <3>3, ReplyFacts
         DEF RequestStep, Submit, LookFindsNothing, LookFindsReview, LookForTask, VerifyAccepts,
             VerifyFails, CreateReview, GetReview, Respond, HeadObject, PresignUpload, Fail,
             Upload, Answer, GoTo, At, SubmitTypeOK, Refusal
    <3> QED
      BY <3>2, <3>4, <3>5
  <2> QED
    BY <2>1, <2>2
<1>3. \A q \in Request : before[q] # None => ~ At(q, "idle")
  BY DEF SubmitTypeOK
<1>4. ASSUME NEW r \in Request, RequestStep(r) PROVE LateRequests'
  BY <1>1, <1>2, <1>3, <1>4, OthersStay DEF LateRequests
<1>5. CASE UNCHANGED <<before, stage, seen, reply>>
  BY <1>1, <1>3, <1>5 DEF LateRequests
<1> QED
  BY <1>4, <1>5 DEF SubmitNext, MarkUploadComplete, submitVars

\* A replay by the bearer stays away from a verification.
LEMMA ReplaysStep ==
    ASSUME SubmitInv, SubmitTypeOK', Monotone, [SubmitNext]_submitVars
    PROVE  Replays'
<1> USE DEF SubmitInv
<1> DEFINE Free(q) == /\ stage[q] \notin {"verify", "create"}
                      /\ failure[q] = None
                      /\ reply[q] \notin Refusal \cup {"unauthenticated", "invalid"}
                      /\ \A c \in Captcha : usedBy[c] # q
<1>1. ASSUME NEW q \in Request, before[q] # None, before[q].held
      PROVE  Held(KeyOf(q), call[q].token)'
  <2>1. ~ At(q, "idle") /\ Held(KeyOf(q), call[q].token)
    BY <1>1 DEF SubmitTypeOK, Replays
  <2>2. KeyOf(q) \in Key /\ call'[q] = call[q]
    BY <2>1, CallFacts DEF Monotone
  <2> QED
    BY <2>1, <2>2, HeldStays DEF KeyOf, Held
<1>2. ASSUME NEW r \in Request, RequestStep(r), before'[r] # None, before'[r].held
      PROVE  Held(KeyOf(r), call[r].token)' /\ Free(r)'
  <2>1. CASE At(r, "idle")
    <3>1. PICK k \in Key, t \in Token, c \in Captcha \cup {None} : Submit(r, k, t, c)
      BY <1>2, <2>1, ReplyFacts
         DEF RequestStep, LookFindsNothing, LookFindsReview, LookForTask, VerifyAccepts,
             VerifyFails, CreateReview, GetReview, Respond, HeadObject, PresignUpload, Fail,
             Upload, At, SubmitTypeOK
    <3>2. Held(k, t) /\ KeyOf(r)' = k /\ call'[r].token = t /\ UNCHANGED review
      BY <1>2, <3>1 DEF Submit, SubmitTypeOK, KeyOf
    <3>3. failure'[r] = None /\ reply'[r] = None /\ stage'[r] = "look" /\ UNCHANGED usedBy
      BY <3>1 DEF Submit, GoTo, Fresh, At, SubmitTypeOK
    <3>4. \A a \in Captcha : usedBy'[a] # r
      BY <2>1, <3>3 DEF CreatorsPaid
    <3> QED
      BY <3>2, <3>3, <3>4, ReplyFacts DEF Held
  <2>2. CASE ~ At(r, "idle")
    <3>1. Held(KeyOf(r), call[r].token) /\ Free(r) /\ before'[r] = before[r]
      BY <1>2, <2>2 DEF Replays, Monotone
    <3>2. review[KeyOf(r)] # None /\ IsBearer(r)
      BY <3>1 DEF Held, IsBearer
    <3>3. Free(r)'
      BY <1>2, <2>2, <3>1, <3>2, ReplyFacts
         DEF RequestStep, Submit, LookFindsNothing, LookFindsReview, LookForTask, VerifyAccepts,
             VerifyFails, CreateReview, GetReview, Respond, HeadObject, PresignUpload, Fail,
             Upload, Answer, GoTo, At, SubmitTypeOK, Refusal
    <3> QED
      BY <1>1, <1>2, <3>1, <3>3
  <2> QED
    BY <2>1, <2>2
<1>3. ASSUME NEW r \in Request, RequestStep(r) PROVE Replays'
  <2>1. ASSUME NEW q \in Request, q # r, before'[q] # None, before'[q].held
        PROVE  Held(KeyOf(q), call[q].token)' /\ Free(q)'
    <3>1. before[q] # None /\ before[q].held /\ Free(q)
      BY <1>3, <2>1, OthersStay DEF Replays
    <3>2. Free(q)'
      BY <1>3, <2>1, <3>1, OthersStay
    <3> QED
      BY <1>1, <3>1, <3>2
  <2> QED
    BY <1>2, <1>3, <2>1 DEF Replays
<1>4. CASE UNCHANGED <<before, stage, failure, reply, usedBy>>
  BY <1>1, <1>4 DEF Replays
<1> QED
  BY <1>3, <1>4 DEF SubmitNext, MarkUploadComplete, submitVars

LEMMA SubmitInvariant == SubmitSpec => []SubmitInv
<1>1. SubmitInv /\ [SubmitNext]_submitVars => SubmitInv'
  BY SubmitTypeStep, StepsAreMonotone, BearersKnowStep, CreatorsPaidStep, ReviewsAreLinkedStep,
     FreshStep, MovedIsUploadedStep, LateRequestsStep, ReplaysStep DEF SubmitInv
<1> QED
  BY <1>1, SubmitInvInit, PTL DEF SubmitSpec

-----------------------------------------------------------------------------
(* The properties                                                          *)

\* Types, and what a request has in hand at each of its stages.
THEOREM SubmitTypeCorrect == SubmitSpec => []SubmitTypeOK
<1>1. SubmitInv => SubmitTypeOK
  BY DEF SubmitInv
<1> QED
  BY <1>1, SubmitInvariant, PTL

\* However many requests race for a key with whatever tokens, only the bearer of
\* the review is told of it.
THEOREM RepliesGoToTheBearerAlways == SubmitSpec => []RepliesGoToTheBearer
<1>1. SubmitInv => RepliesGoToTheBearer
  BY DEF SubmitInv, BearersKnow, Knows, Held, RepliesGoToTheBearer, IsBearer
<1> QED
  BY <1>1, SubmitInvariant, PTL

\* Every review has one creator, whose Turnstile answer was taken.
THEOREM ReviewsArePaidForAlways == SubmitSpec => []ReviewsArePaidFor
<1>1. SubmitInv => ReviewsArePaidFor
  BY DEF SubmitInv, CreatorsPaid
<1> QED
  BY <1>1, SubmitInvariant, PTL

\* The two queries of existing_submission never find a review without its task.
THEOREM ReviewsHaveTheirTaskAlways == SubmitSpec => []ReviewsHaveTheirTask
<1>1. SubmitInv => ReviewsHaveTheirTask
  BY CallFacts DEF SubmitInv, BearersKnow, Knows, Held, ReviewsAreLinked, ReviewsHaveTheirTask, At
<1> QED
  BY <1>1, SubmitInvariant, PTL

\* A reply without a URL means that the audio is there.
THEOREM NoUrlMeansUploadedAlways == SubmitSpec => []NoUrlMeansUploaded
<1>1. SubmitInv => NoUrlMeansUploaded
  BY DEF SubmitInv, MovedIsUploaded
<1> QED
  BY <1>1, SubmitInvariant, PTL

\* A request that comes in after the upload is given no URL.
THEOREM UrlsPrecedeUploadsAlways == SubmitSpec => []UrlsPrecedeUploads
<1>1. SubmitInv => UrlsPrecedeUploads
  <2> SUFFICES ASSUME SubmitInv, NEW r \in Request, reply[r] = "url" PROVE ~ before[r].uploaded
    BY DEF UrlsPrecedeUploads
  <2>1. before[r] # None
    BY ReplyFacts DEF SubmitInv, SubmitTypeOK, At
  <2> QED
    BY <2>1 DEF SubmitInv, LateRequests
<1> QED
  BY <1>1, SubmitInvariant, PTL

\* A replay by the bearer is neither refused nor verified.
THEOREM ReplaysAreFreeAlways == SubmitSpec => []ReplaysAreFree
<1>1. SubmitInv => ReplaysAreFree
  BY DEF SubmitInv, Replays, ReplaysAreFree
<1> QED
  BY <1>1, SubmitInvariant, PTL

\* A bearer is refused only while there is no review.
THEOREM BearersAreNeverRefused == SubmitSpec => BearersAreNotRefused
<1>1. SubmitInv /\ [SubmitNext]_submitVars =>
         [\A r \in Request : (reply[r] = None /\ reply'[r] \in Refusal) =>
             ~ Held(call[r].key, call[r].token)]_submitVars
  <2> SUFFICES ASSUME SubmitInv, SubmitNext, NEW r \in Request,
                      reply[r] = None, reply'[r] \in Refusal
               PROVE  ~ Held(call[r].key, call[r].token)
    OBVIOUS
  <2>1. PICK q \in Request : RequestStep(q)
    BY ReplyFacts DEF SubmitNext, MarkUploadComplete
  <2>2. q = r
    BY <2>1, OthersStay, ReplyFacts DEF SubmitInv
  <2>3. LookFindsNothing(r)
    BY <2>1, <2>2, ReplyFacts
       DEF SubmitInv, RequestStep, Submit, LookFindsReview, LookForTask, VerifyAccepts, VerifyFails,
           CreateReview, GetReview, Respond, HeadObject, PresignUpload, Fail, Upload, Answer,
           SubmitTypeOK, Refusal
  <2> QED
    BY <2>3 DEF LookFindsNothing, Held, KeyOf
<1> QED
  BY <1>1, SubmitInvariant, PTL DEF SubmitSpec, BearersAreNotRefused

=============================================================================
