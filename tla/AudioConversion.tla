------------------------------ MODULE AudioConversion ------------------------------
(***************************************************************************)
(* What the audio worker does between its transactions: it downloads the   *)
(* files of an evaluation, has ffmpeg stitch them in the order of their    *)
(* sequence numbers, and puts the result where the execution's input says. *)
(*                                                                         *)
(* The execution invokes the worker again when the answer of an invocation *)
(* is lost, so that several conversions of the same files may overlap; and *)
(* as long as its upload URL is valid a caller may replace a file.         *)
(*                                                                         *)
(* What the store makes of the worker's transactions is in                 *)
(* PipelineTaskStore and EvaluationWorkflow.                               *)
(***************************************************************************)
EXTENDS Naturals, Sequences, FiniteSets

CONSTANTS
    Uri,         \* what a request may name as a file
    Location,    \* those that are S3 locations
    Content,     \* what an upload may hold
    Audio,       \* those that ffmpeg can decode
    Requests,    \* the files of an execution's input, in the order they are listed
    Conversion,  \* invocations of the worker for the evaluation
    MaxPuts,     \* bound: uploads that replace a file
    MaxFaults,   \* bound: failed calls and killed invocations
    None

\* A file of the request.
AudioSource == [uri : Uri, sequence : Nat]

\* None is nothing else.
ASSUME ConversionAssumption ==
    /\ Location \subseteq Uri
    /\ Audio \subseteq Content
    /\ Requests \subseteq Seq(AudioSource)
    /\ MaxPuts \in Nat /\ MaxFaults \in Nat
    /\ None \notin Content /\ None \notin Seq(Content)

\* validate_input: what an input names, files and target, are S3 locations.
Valid(files, target) ==
    /\ files # <<>>
    /\ target = "location"
    /\ \A i \in DOMAIN files : files[i].uri \in Location
    /\ \A i, j \in DOMAIN files : files[i].sequence = files[j].sequence => i = j

-----------------------------------------------------------------------------
(* The stitcher *)

\* LocalAudioSegment: what was downloaded of a file.
Segment == [segmentId : Nat, file : Content, sequence : Nat]

\* The sort key: (sequence, segment_id).
Before(s, t) ==
    \/ s.sequence < t.sequence
    \/ s.sequence = t.sequence /\ s.segmentId < t.segmentId

Position(segments, i) ==
    Cardinality({j \in DOMAIN segments : Before(segments[j], segments[i])}) + 1

\* Fault: the segments stay as they were listed.
Listed(segments) == segments

Sorted(segments) ==
    [p \in DOMAIN segments |->
        segments[CHOOSE i \in DOMAIN segments : Position(segments, i) = p]]

\* concat_filter: one input after the other, whatever their formats.
Stitched(segments) == [p \in DOMAIN segments |-> Sorted(segments)[p].file]

\* ffmpeg -xerror exits with an error on the first one it cannot decode.
Decodes(segments) == \A p \in DOMAIN segments : segments[p].file \in Audio

-----------------------------------------------------------------------------

VARIABLES
    request,   \* the files of the execution's input
    output,    \* where it wants the artifact: an S3 location, or no such thing
    object,    \* S3: what the uploads hold
    held,      \* all they have held
    stitched,  \* S3: the artifact, as the contents it plays
    recorded,  \* complete_audio_processing has recorded the artifact
    stage,     \* where each conversion is
    segments,  \* what it has downloaded
    wav,       \* its local output
    puts, faults

conversionVars ==
    <<request, output, object, held, stitched, recorded, stage, segments, wav, puts, faults>>

input == <<request, output>>
s3 == <<object, held, stitched, puts>>
local == <<segments, wav>>

Stage == {"idle", "downloading", "uploading", "recording", "ok", "error", "gone"}

\* An invocation that has begun and not ended.
Working(c) == stage[c] \in {"downloading", "uploading", "recording"}

GoTo(c, next) == stage' = [stage EXCEPT ![c] = next]

ConversionInit ==
    /\ request \in Requests
    /\ output \in {"location", "malformed"}
    /\ object \in [Location -> Content \cup {None}]
    /\ held = [l \in Location |-> {object[l]} \ {None}]
    /\ stitched = None
    /\ recorded = FALSE
    /\ stage = [c \in Conversion |-> "idle"]
    /\ segments = [c \in Conversion |-> <<>>]
    /\ wav = [c \in Conversion |-> None]
    /\ puts = 0
    /\ faults = 0

Fault ==
    /\ faults < MaxFaults
    /\ faults' = faults + 1

\* Outside: a caller puts audio under its URL, or puts other audio there.
Put(l, content) ==
    /\ puts < MaxPuts
    /\ puts' = puts + 1
    /\ object' = [object EXCEPT ![l] = content]
    /\ held' = [held EXCEPT ![l] = @ \cup {content}]
    /\ UNCHANGED <<input, stitched, recorded, stage, local, faults>>

\* The input is looked at, start_audio_processing goes through and its event is
\* sent; a job id that is no number, a call that is refused and an event that is
\* not sent are errors as an input that is not valid is.
Begin(c) ==
    /\ stage[c] = "idle"
    /\ \/ Valid(request, output) /\ GoTo(c, "downloading")
       \/ GoTo(c, "error")
    /\ UNCHANGED <<input, s3, recorded, local, faults>>

\* One file after the other, as they are listed.
Download(c) ==
    LET next == Len(segments[c]) + 1
    IN  /\ stage[c] = "downloading"
        /\ next \in DOMAIN request
        /\ object[request[next].uri] # None
        /\ segments' = [segments EXCEPT ![c] =
               Append(@, [segmentId |-> next,
                          file      |-> object[request[next].uri],
                          sequence  |-> request[next].sequence])]
        /\ UNCHANGED <<input, s3, recorded, stage, wav, faults>>

DownloadFails(c) ==
    LET next == Len(segments[c]) + 1
    IN  /\ stage[c] = "downloading"
        /\ next \in DOMAIN request
        /\ IF object[request[next].uri] = None THEN UNCHANGED faults ELSE Fault
        /\ GoTo(c, "error")
        /\ UNCHANGED <<input, s3, recorded, local>>

Downloaded(c) == stage[c] = "downloading" /\ Len(segments[c]) = Len(request)

\* Fault: the file is persisted before the exit status is looked at.
StitchPersistsFirst(c) ==
    /\ Downloaded(c)
    /\ \/ Decodes(segments[c]) /\ wav' = [wav EXCEPT ![c] = Stitched(segments[c])] /\ UNCHANGED faults
       \/ Fault /\ \E n \in 1 .. Len(request) :
             wav' = [wav EXCEPT ![c] = SubSeq(Stitched(segments[c]), 1, n)]
    /\ GoTo(c, "uploading")
    /\ UNCHANGED <<input, s3, recorded, segments>>

\* write_wav has persisted the output of an ffmpeg that exited with success.
Stitch(c) ==
    /\ Downloaded(c)
    /\ Decodes(segments[c])
    /\ wav' = [wav EXCEPT ![c] = Stitched(segments[c])]
    /\ GoTo(c, "uploading")
    /\ UNCHANGED <<input, s3, recorded, segments, faults>>

\* ffmpeg exits with an error, or there is none, or the disk is full.
StitchFails(c) ==
    /\ Downloaded(c)
    /\ IF Decodes(segments[c]) THEN Fault ELSE UNCHANGED faults
    /\ GoTo(c, "error")
    /\ UNCHANGED <<input, s3, recorded, local>>

Upload(c) ==
    /\ stage[c] = "uploading"
    /\ stitched' = wav[c]
    /\ GoTo(c, "recording")
    /\ UNCHANGED <<input, object, held, puts, recorded, local, faults>>

\* Before it had an effect, or its answer is lost.
UploadFails(c) ==
    /\ stage[c] = "uploading"
    /\ Fault
    /\ stitched' \in {wav[c], stitched}
    /\ GoTo(c, "error")
    /\ UNCHANGED <<input, object, held, puts, recorded, local>>

\* complete_audio_processing goes through or is refused; its event may fail.
Record(c) ==
    /\ stage[c] = "recording"
    /\ \/ recorded' = TRUE /\ (GoTo(c, "ok") \/ GoTo(c, "error"))
       \/ recorded' = recorded /\ GoTo(c, "error")
    /\ UNCHANGED <<input, s3, local, faults>>

\* The invocation is killed when its time is up, its files go with it.
Killed(c) ==
    /\ Working(c)
    /\ Fault
    /\ GoTo(c, "gone")
    /\ UNCHANGED <<input, s3, recorded, local>>

WorkerStep(c) ==
    \/ Begin(c) \/ Download(c) \/ DownloadFails(c) \/ Stitch(c) \/ StitchFails(c)
    \/ Upload(c) \/ UploadFails(c) \/ Record(c) \/ Killed(c)

ConversionNext ==
    \/ \E l \in Location, content \in Content : Put(l, content)
    \/ \E c \in Conversion : WorkerStep(c)

ConversionSpec == ConversionInit /\ [][ConversionNext]_conversionVars

(***************************************************************************)
(* Properties                                                              *)
(***************************************************************************)
ConversionTypeOK ==
    /\ request \in Requests
    /\ output \in {"location", "malformed"}
    /\ object \in [Location -> Content \cup {None}]
    /\ held \in [Location -> SUBSET Content]
    /\ stitched \in Seq(Content) \cup {None}
    /\ recorded \in BOOLEAN
    /\ stage \in [Conversion -> Stage]
    /\ segments \in [Conversion -> Seq(Segment)]
    /\ wav \in [Conversion -> Seq(Content) \cup {None}]
    /\ puts \in 0 .. MaxPuts
    /\ faults \in 0 .. MaxFaults

\* However many conversions overlap, fail or are killed, the artifact plays
\* every file once, as some upload of it was, in the order of the sequence
\* numbers and not in the order the files are listed in; what is no audio is
\* not left out of it, nor cut short.  When the store has it, it is there.
PlaysInOrder ==
    /\ recorded => stitched # None
    /\ stitched # None =>
          /\ DOMAIN stitched = DOMAIN request
          /\ \E place \in [DOMAIN request -> DOMAIN stitched] :
                /\ \A i \in DOMAIN request : stitched[place[i]] \in held[request[i].uri] \cap Audio
                /\ \A i, j \in DOMAIN request :
                      request[i].sequence < request[j].sequence => place[i] < place[j]

\* No file of the request has been replaced.
Unreplaced ==
    \A i \in DOMAIN request : \A x, y \in held[request[i].uri] : x = y

\* A conversion that comes late, or comes again, leaves the artifact as it is
\* when a model service may already have read it, unless a file was replaced.
RetriesAgree ==
    [][stitched # None /\ Unreplaced => stitched' = stitched]_conversionVars

=============================================================================
