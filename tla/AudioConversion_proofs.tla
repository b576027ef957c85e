-------------------------- MODULE AudioConversion_proofs --------------------------
(***************************************************************************)
(* Proofs about the conversion, for any requests, contents, conversions,   *)
(* uploads and faults.  The sort that the stitcher relies on puts every    *)
(* segment in one place, so that whatever was downloaded of a file is      *)
(* played once; and what is in a local output or in the artifact was       *)
(* stitched from a complete download of the request.                       *)
(***************************************************************************)
EXTENDS AudioConversion, FiniteSetTheorems, TLAPS

-----------------------------------------------------------------------------
(* The sort *)

\* Segments as handle numbers them.
Numbered(segs) ==
    /\ segs \in Seq(Segment)
    /\ \A i \in DOMAIN segs : segs[i].segmentId = i

Below(segs, i) == {j \in DOMAIN segs : Before(segs[j], segs[i])}

LEMMA NumberedFacts ==
    ASSUME NEW segs, Numbered(segs)
    PROVE  /\ Len(segs) \in Nat /\ DOMAIN segs = 1 .. Len(segs)
           /\ \A i \in DOMAIN segs :
                 /\ i \in Nat /\ segs[i] \in Segment
                 /\ segs[i].segmentId = i /\ segs[i].sequence \in Nat /\ segs[i].file \in Content
<1>1. Len(segs) \in Nat /\ DOMAIN segs = 1 .. Len(segs) /\ \A i \in DOMAIN segs : segs[i] \in Segment
  BY DEF Numbered
<1> QED
  BY <1>1 DEF Numbered, Segment

\* The sort key orders the segments.
LEMMA BeforeIsAnOrder ==
    ASSUME NEW segs, Numbered(segs), NEW i \in DOMAIN segs, NEW j \in DOMAIN segs
    PROVE  /\ ~ Before(segs[i], segs[i])
           /\ i # j => Before(segs[i], segs[j]) \/ Before(segs[j], segs[i])
           /\ \A k \in DOMAIN segs :
                 Before(segs[i], segs[j]) /\ Before(segs[j], segs[k]) => Before(segs[i], segs[k])
<1>1. \A k \in DOMAIN segs : k \in Nat /\ segs[k].segmentId = k /\ segs[k].sequence \in Nat
  BY NumberedFacts
<1> QED
  BY <1>1 DEF Before

LEMMA Positions ==
    ASSUME NEW segs, Numbered(segs), NEW i \in DOMAIN segs
    PROVE  /\ Position(segs, i) \in 1 .. Len(segs)
           /\ IsFiniteSet(Below(segs, i)) /\ Position(segs, i) = Cardinality(Below(segs, i)) + 1
<1> DEFINE D == 1 .. Len(segs)
<1>1. DOMAIN segs = D /\ Len(segs) \in Nat /\ i \in D
  BY NumberedFacts
<1>2. IsFiniteSet(D) /\ Cardinality(D) = Len(segs)
  <2>1. 1 \in Int /\ Len(segs) \in Int /\ ~ (1 > Len(segs)) /\ Len(segs) - 1 + 1 = Len(segs)
    BY <1>1
  <2>2. IsFiniteSet(D) /\ Cardinality(D) = IF 1 > Len(segs) THEN 0 ELSE Len(segs) - 1 + 1
    BY <2>1, FS_Interval
  <2> QED
    BY <2>1, <2>2
<1> HIDE DEF D
<1>3. IsFiniteSet(D \ {i}) /\ Cardinality(D \ {i}) = Len(segs) - 1
  BY <1>1, <1>2, FS_RemoveElement
<1>4. Below(segs, i) \in SUBSET (D \ {i})
  BY <1>1, BeforeIsAnOrder DEF Below
<1>5. IsFiniteSet(Below(segs, i)) /\ Cardinality(Below(segs, i)) <= Len(segs) - 1
  BY <1>3, <1>4, FS_Subset
<1>6. Cardinality(Below(segs, i)) \in Nat
  BY <1>5, FS_CardinalityType
<1>7. Position(segs, i) = Cardinality(Below(segs, i)) + 1
  BY DEF Position, Below
<1> QED
  BY <1>1, <1>5, <1>6, <1>7 DEF D

LEMMA PositionsAscend ==
    ASSUME NEW segs, Numbered(segs), NEW i \in DOMAIN segs, NEW j \in DOMAIN segs,
           Before(segs[i], segs[j])
    PROVE  Position(segs, i) < Position(segs, j)
<1>1. Below(segs, i) \in SUBSET Below(segs, j)
  BY BeforeIsAnOrder DEF Below
<1>2. Below(segs, i) # Below(segs, j)
  BY BeforeIsAnOrder DEF Below
<1>3. IsFiniteSet(Below(segs, i)) /\ IsFiniteSet(Below(segs, j))
  BY Positions
<1>4. Cardinality(Below(segs, i)) \in Nat /\ Cardinality(Below(segs, j)) \in Nat
  BY <1>3, FS_CardinalityType
<1>5. /\ Cardinality(Below(segs, i)) <= Cardinality(Below(segs, j))
      /\ Cardinality(Below(segs, i)) # Cardinality(Below(segs, j))
  BY <1>1, <1>2, <1>3, FS_Subset
<1> QED
  BY <1>4, <1>5, Positions

\* The sort is one: every segment has a place of its own, and every place a
\* segment.
LEMMA PositionsAreOnes ==
    ASSUME NEW segs, Numbered(segs)
    PROVE  /\ \A i, j \in DOMAIN segs : Position(segs, i) = Position(segs, j) => i = j
           /\ \A p \in DOMAIN segs : \E i \in DOMAIN segs : Position(segs, i) = p
<1> DEFINE D == 1 .. Len(segs)
           f == [i \in D |-> Position(segs, i)]
<1>1. DOMAIN segs = D /\ Len(segs) \in Nat
  BY NumberedFacts
<1>2. ASSUME NEW i \in D, NEW j \in D, i # j
      PROVE  Position(segs, i) # Position(segs, j)
  <2>1. Before(segs[i], segs[j]) \/ Before(segs[j], segs[i])
    BY <1>1, <1>2, BeforeIsAnOrder
  <2>2. Position(segs, i) < Position(segs, j) \/ Position(segs, j) < Position(segs, i)
    BY <1>1, <2>1, PositionsAscend
  <2>3. Position(segs, i) \in Int /\ Position(segs, j) \in Int
    BY <1>1, Positions
  <2> QED
    BY <2>2, <2>3
<1>3. f \in [D -> D]
  BY <1>1, Positions
<1>4. f \in Injection(D, D)
  <2>1. \A i, j \in D : f[i] = f[j] => i = j
    BY <1>2
  <2> QED
    BY <1>3, <2>1 DEF Injection, IsInjective
<1>5. IsFiniteSet(D)
  BY <1>1, FS_Interval
<1>6. f \in Surjection(D, D)
  BY <1>4, <1>5, FS_Injection
<1>7. \A p \in D : \E i \in D : f[i] = p
  BY <1>6 DEF Surjection
<1> QED
  BY <1>1, <1>2, <1>7

\* What is played: the file of every segment in its place.
LEMMA StitchedFacts ==
    ASSUME NEW segs, Numbered(segs)
    PROVE  /\ Stitched(segs) \in Seq(Content)
           /\ DOMAIN Stitched(segs) = DOMAIN segs
           /\ \A i \in DOMAIN segs :
                 /\ Position(segs, i) \in DOMAIN segs
                 /\ Stitched(segs)[Position(segs, i)] = segs[i].file
           /\ \A p \in DOMAIN segs : \E i \in DOMAIN segs : Stitched(segs)[p] = segs[i].file
<1> DEFINE Index(p) == CHOOSE i \in DOMAIN segs : Position(segs, i) = p
<1>1. DOMAIN segs = 1 .. Len(segs) /\ Len(segs) \in Nat
  BY NumberedFacts
<1>2. \A p \in DOMAIN segs : Index(p) \in DOMAIN segs /\ Position(segs, Index(p)) = p
  BY PositionsAreOnes
<1>3. \A p \in DOMAIN segs : Stitched(segs)[p] = segs[Index(p)].file
  BY DEF Stitched, Sorted
<1>4. DOMAIN Stitched(segs) = DOMAIN segs
  BY DEF Stitched
<1> HIDE DEF Index
<1>5. ASSUME NEW i \in DOMAIN segs
      PROVE  /\ Position(segs, i) \in DOMAIN segs
             /\ Stitched(segs)[Position(segs, i)] = segs[i].file
  <2>1. Position(segs, i) \in DOMAIN segs
    BY <1>1, Positions
  <2>2. Index(Position(segs, i)) = i
    BY <1>2, <2>1, PositionsAreOnes
  <2> QED
    BY <1>3, <2>1, <2>2
<1>6. Stitched(segs) \in Seq(Content)
  <2>1. \A p \in 1 .. Len(segs) : Stitched(segs)[p] \in Content
    BY <1>1, <1>2, <1>3, NumberedFacts
  <2>2. Stitched(segs) = [p \in 1 .. Len(segs) |-> Stitched(segs)[p]]
    BY <1>1 DEF Stitched
  <2>3. Stitched(segs) \in [1 .. Len(segs) -> Content]
    BY <2>1, <2>2
  <2> QED
    BY <1>1, <2>3
<1> QED
  BY <1>2, <1>3, <1>4, <1>5, <1>6

-----------------------------------------------------------------------------
(* The invariant *)

\* A complete download of the request: a file may have been replaced since, or
\* between two of its downloads.
Complete(segs) ==
    /\ Numbered(segs)
    /\ DOMAIN segs = DOMAIN request
    /\ \A i \in DOMAIN segs :
          segs[i].sequence = request[i].sequence /\ segs[i].file \in held[request[i].uri]

\* Stitched from a complete download that could be decoded.
IsReal(w) ==
    /\ Valid(request, output)
    /\ \E segs \in Seq(Segment) : Complete(segs) /\ Decodes(segs) /\ w = Stitched(segs)

ObjectsAreHeld == \A l \in Location : object[l] # None => object[l] \in held[l]

\* What has been downloaded so far is the beginning of a complete download.
SegmentsAreReal ==
    \A c \in Conversion :
        /\ stage[c] \in {"downloading", "uploading", "recording"} => Valid(request, output)
        /\ Numbered(segments[c])
        /\ \A i \in DOMAIN segments[c] :
              /\ i \in DOMAIN request
              /\ request[i].uri \in Location
              /\ segments[c][i].sequence = request[i].sequence
              /\ segments[c][i].file \in held[request[i].uri]

WavsAreReal ==
    \A c \in Conversion :
        /\ wav[c] # None => IsReal(wav[c])
        /\ stage[c] \in {"uploading", "recording"} => wav[c] # None

ArtifactIsReal ==
    /\ stitched # None => IsReal(stitched)
    /\ \A c \in Conversion : stage[c] = "recording" => stitched # None
    /\ recorded => stitched # None

ConversionInv ==
    /\ ConversionTypeOK
    /\ ObjectsAreHeld
    /\ SegmentsAreReal
    /\ WavsAreReal
    /\ ArtifactIsReal

LEMMA RequestFacts ==
    ASSUME ConversionTypeOK
    PROVE  /\ request \in Seq(AudioSource)
           /\ Len(request) \in Nat /\ DOMAIN request = 1 .. Len(request)
           /\ \A i \in DOMAIN request : request[i].uri \in Uri /\ request[i].sequence \in Nat
<1>1. request \in Seq(AudioSource)
  BY ConversionAssumption DEF ConversionTypeOK
<1>2. Len(request) \in Nat /\ DOMAIN request = 1 .. Len(request) /\ \A i \in DOMAIN request : request[i] \in AudioSource
  BY <1>1
<1> QED
  BY <1>1, <1>2 DEF AudioSource

LEMMA RealIsAWav ==
    ASSUME NEW w, IsReal(w)
    PROVE  w \in Seq(Content) /\ w # None
<1>1. w \in Seq(Content)
  BY StitchedFacts DEF IsReal, Complete
<1> QED
  BY <1>1, ConversionAssumption

LEMMA ConversionInvInit == ASSUME ConversionInit PROVE ConversionInv
<1>1. held \in [Location -> SUBSET Content]
  BY DEF ConversionInit
<1>2. /\ segments \in [Conversion -> Seq(Segment)] /\ \A c \in Conversion : segments[c] = <<>>
      /\ puts \in 0 .. MaxPuts /\ faults \in 0 .. MaxFaults
      /\ stage \in [Conversion -> Stage] /\ wav \in [Conversion -> Seq(Content) \cup {None}]
  BY ConversionAssumption DEF ConversionInit, Stage
<1>3. ConversionTypeOK
  BY <1>1, <1>2 DEF ConversionInit, ConversionTypeOK
<1>4. ObjectsAreHeld
  BY DEF ConversionInit, ObjectsAreHeld
<1>5. SegmentsAreReal
  BY <1>2 DEF ConversionInit, SegmentsAreReal, Numbered
<1>6. WavsAreReal /\ ArtifactIsReal
  BY DEF ConversionInit, WavsAreReal, ArtifactIsReal
<1> QED
  BY <1>3, <1>4, <1>5, <1>6 DEF ConversionInv

\* What was real stays so when files are replaced.
LEMMA RealStays ==
    ASSUME ConversionTypeOK, request' = request, output' = output,
           \A l \in Location : held[l] \subseteq held'[l],
           NEW w, IsReal(w)
    PROVE  IsReal(w)'
<1>1. PICK segs \in Seq(Segment) : Complete(segs) /\ Decodes(segs) /\ w = Stitched(segs)
  BY DEF IsReal
<1>2. Valid(request, output) /\ \A i \in DOMAIN request : request[i].uri \in Location
  BY DEF IsReal, Valid
<1>3. \A i \in DOMAIN segs : held[request[i].uri] \subseteq held'[request[i].uri]
  BY <1>1, <1>2 DEF Complete
<1>4. /\ Numbered(segs) /\ DOMAIN segs = DOMAIN request'
      /\ \A i \in DOMAIN segs :
            segs[i].sequence = request'[i].sequence /\ segs[i].file \in held'[request'[i].uri]
  BY <1>1, <1>3 DEF Complete
<1> QED
  BY <1>1, <1>2, <1>4 DEF IsReal, Complete

\* A step that only replaces a file, or moves a conversion on.
LEMMA InvStays ==
    ASSUME ConversionInv, ConversionTypeOK', request' = request, output' = output,
           \A l \in Location : held[l] \subseteq held'[l],
           ObjectsAreHeld',
           \A c \in Conversion :
              /\ segments'[c] = segments[c] /\ wav'[c] = wav[c]
              /\ stage'[c] \in {"downloading", "uploading", "recording"} => Valid(request, output)
              /\ stage'[c] \in {"uploading", "recording"} => wav[c] # None
              /\ stage'[c] = "recording" => stitched' # None,
           stitched' = stitched \/ \E c \in Conversion : stitched' = wav[c] /\ wav[c] # None,
           recorded' => stitched' # None
    PROVE  ConversionInv'
<1> USE DEF ConversionInv
<1>1. SegmentsAreReal'
  BY DEF SegmentsAreReal
<1>2. WavsAreReal'
  <2>1. ASSUME NEW c \in Conversion, wav'[c] # None
        PROVE  IsReal(wav[c])'
    <3>1. ASSUME NEW w, IsReal(w), w = wav'[c]
          PROVE  IsReal(wav[c])'
      BY <3>1, RealStays DEF IsReal
    <3> QED
      BY <2>1, <3>1 DEF WavsAreReal
  <2> QED
    BY <2>1 DEF WavsAreReal
<1>3. ArtifactIsReal'
  <2>1. ASSUME stitched' # None
        PROVE  IsReal(stitched)'
    <3>1. ASSUME NEW w, IsReal(w), w = stitched'
          PROVE  IsReal(stitched)'
      BY <3>1, RealStays DEF IsReal
    <3> QED
      BY <2>1, <3>1 DEF WavsAreReal, ArtifactIsReal
  <2> QED
    BY <2>1 DEF ArtifactIsReal
<1> QED
  BY <1>1, <1>2, <1>3

LEMMA PutStep ==
    ASSUME ConversionInv, NEW l \in Location, NEW content \in Content, Put(l, content)
    PROVE  ConversionInv'
<1>1. /\ object \in [Location -> Content \cup {None}] /\ held \in [Location -> SUBSET Content]
      /\ puts \in 0 .. MaxPuts /\ MaxPuts \in Nat
  BY ConversionAssumption DEF ConversionInv, ConversionTypeOK
<1>2. /\ object' \in [Location -> Content \cup {None}] /\ held' \in [Location -> SUBSET Content]
      /\ puts' \in 0 .. MaxPuts
      /\ UNCHANGED <<request, output, stitched, recorded, stage, segments, wav, faults>>
  BY <1>1 DEF Put, input, local
<1>3. ConversionTypeOK'
  BY <1>2 DEF ConversionInv, ConversionTypeOK
<1>4. \A k \in Location : held[k] \subseteq held'[k]
  BY <1>1 DEF Put
<1>5. ObjectsAreHeld'
  BY <1>1 DEF Put, ObjectsAreHeld, ConversionInv
<1> QED
  BY <1>2, <1>3, <1>4, <1>5, InvStays
     DEF ConversionInv, SegmentsAreReal, WavsAreReal, ArtifactIsReal

LEMMA FaultType ==
    ASSUME ConversionTypeOK, Fault \/ UNCHANGED faults
    PROVE  faults' \in 0 .. MaxFaults
BY ConversionAssumption DEF ConversionTypeOK, Fault

LEMMA StageType ==
    ASSUME ConversionTypeOK, NEW c \in Conversion, NEW next \in Stage, GoTo(c, next)
    PROVE  /\ stage' \in [Conversion -> Stage]
           /\ \A d \in Conversion : stage'[d] = IF d = c THEN next ELSE stage[d]
BY DEF ConversionTypeOK, GoTo

\* A step of a conversion that downloads nothing and stitches nothing.
LEMMA MovesOn ==
    ASSUME ConversionInv, NEW c \in Conversion, NEW next \in Stage, GoTo(c, next),
           Fault \/ UNCHANGED faults,
           UNCHANGED <<request, output, object, held, puts, segments, wav>>,
           next \in {"downloading", "uploading", "recording"} => Valid(request, output),
           next \in {"uploading", "recording"} => wav[c] # None,
           next = "recording" => stitched' # None,
           stitched' = stitched \/ (stitched' = wav[c] /\ wav[c] # None),
           recorded' \in BOOLEAN,
           recorded' => stitched' # None
    PROVE  ConversionInv'
<1>1. stitched' \in Seq(Content) \cup {None}
  BY DEF ConversionInv, ConversionTypeOK
<1>2. ConversionTypeOK'
  BY <1>1, FaultType, StageType DEF ConversionInv, ConversionTypeOK
<1>3. \A d \in Conversion : stage'[d] = IF d = c THEN next ELSE stage[d]
  BY StageType DEF ConversionInv
<1>4. ASSUME NEW d \in Conversion
      PROVE  /\ stage'[d] \in {"downloading", "uploading", "recording"} => Valid(request, output)
             /\ stage'[d] \in {"uploading", "recording"} => wav[d] # None
             /\ stage'[d] = "recording" => stitched' # None
  BY <1>3 DEF ConversionInv, SegmentsAreReal, WavsAreReal, ArtifactIsReal
<1>5. ObjectsAreHeld'
  BY DEF ConversionInv, ObjectsAreHeld
<1> QED
  BY <1>2, <1>4, <1>5, InvStays

LEMMA DownloadStep ==
    ASSUME ConversionInv, NEW c \in Conversion, Download(c)
    PROVE  ConversionInv'
<1> DEFINE next == Len(segments[c]) + 1
           seg == [segmentId |-> next, file |-> object[request[next].uri],
                   sequence |-> request[next].sequence]
<1>1. ConversionTypeOK /\ Numbered(segments[c]) /\ Valid(request, output)
  BY DEF ConversionInv, SegmentsAreReal, Download
<1>2. /\ next \in DOMAIN request /\ object[request[next].uri] # None
      /\ segments' = [segments EXCEPT ![c] = Append(@, seg)]
      /\ UNCHANGED <<request, output, object, held, stitched, puts, recorded, stage, wav, faults>>
  BY DEF Download, input, s3
<1>3. request[next].uri \in Location /\ request[next].sequence \in Nat
  BY <1>1, <1>2, RequestFacts DEF Valid
<1>4. /\ object[request[next].uri] \in Content
      /\ object[request[next].uri] \in held[request[next].uri]
  BY <1>2, <1>3 DEF ConversionInv, ConversionTypeOK, ObjectsAreHeld
<1>5. Len(segments[c]) \in Nat /\ DOMAIN segments[c] = 1 .. Len(segments[c])
  BY <1>1, NumberedFacts
<1>6. seg \in Segment
  BY <1>3, <1>4, <1>5 DEF Segment
<1>7. seg.segmentId = next /\ seg.sequence = request[next].sequence
      /\ seg.file \in held[request[next].uri]
  BY <1>4
<1> HIDE DEF seg
<1>8. /\ segments'[c] = Append(segments[c], seg)
      /\ \A d \in Conversion \ {c} : segments'[d] = segments[d]
      /\ segments' \in [Conversion -> Seq(Segment)]
  BY <1>2, <1>6 DEF ConversionInv, ConversionTypeOK
<1>9. /\ DOMAIN segments'[c] = 1 .. next
      /\ segments'[c][next] = seg
      /\ \A i \in 1 .. Len(segments[c]) : segments'[c][i] = segments[c][i]
      /\ segments'[c] \in Seq(Segment)
  <2>1. segments[c] \in Seq(Segment)
    BY <1>1 DEF Numbered
  <2> QED
    BY <1>5, <1>6, <1>8, <2>1
<1>10. ConversionTypeOK'
  BY <1>2, <1>8 DEF ConversionInv, ConversionTypeOK
<1>11. ASSUME NEW i \in DOMAIN segments'[c]
       PROVE  /\ i \in DOMAIN request
              /\ request[i].uri \in Location
              /\ segments'[c][i].segmentId = i
              /\ segments'[c][i].sequence = request[i].sequence
              /\ segments'[c][i].file \in held[request[i].uri]
  <2>1. CASE i = next
    BY <1>2, <1>3, <1>7, <1>9, <2>1
  <2>2. CASE i # next
    <3>1. i \in DOMAIN segments[c]
      BY <1>5, <1>9, <2>2
    <3> QED
      BY <1>1, <1>5, <1>9, <3>1 DEF Numbered, ConversionInv, SegmentsAreReal
  <2> QED
    BY <2>1, <2>2
<1>12. Numbered(segments[c])'
  BY <1>9, <1>11 DEF Numbered
<1>13. SegmentsAreReal'
  <2>1. ASSUME NEW d \in Conversion
        PROVE  /\ stage'[d] \in {"downloading", "uploading", "recording"} => Valid(request, output)'
               /\ Numbered(segments[d])'
               /\ \A i \in DOMAIN segments'[d] :
                     /\ i \in DOMAIN request'
                     /\ request'[i].uri \in Location
                     /\ segments'[d][i].sequence = request'[i].sequence
                     /\ segments'[d][i].file \in held'[request'[i].uri]
    <3>1. CASE d = c
      BY <1>1, <1>2, <1>11, <1>12, <3>1 DEF Valid
    <3>2. CASE d # c
      BY <1>2, <1>8, <3>2 DEF ConversionInv, SegmentsAreReal, Numbered, Valid
    <3> QED
      BY <3>1, <3>2
  <2> QED
    BY <2>1 DEF SegmentsAreReal
<1>14. ObjectsAreHeld' /\ WavsAreReal' /\ ArtifactIsReal'
  BY <1>2 DEF ConversionInv, ObjectsAreHeld, WavsAreReal, ArtifactIsReal, IsReal,
     Complete, Valid
<1> QED
  BY <1>10, <1>13, <1>14 DEF ConversionInv

LEMMA StitchStep ==
    ASSUME ConversionInv, NEW c \in Conversion, Stitch(c)
    PROVE  ConversionInv'
<1>1. /\ stage[c] = "downloading" /\ Len(segments[c]) = Len(request) /\ Decodes(segments[c])
      /\ wav' = [wav EXCEPT ![c] = Stitched(segments[c])]
      /\ GoTo(c, "uploading")
      /\ UNCHANGED <<request, output, object, held, stitched, puts, recorded, segments, faults>>
  BY DEF Stitch, Downloaded, input, s3
<1>2. ConversionTypeOK /\ Valid(request, output) /\ Numbered(segments[c]) /\ segments[c] \in Seq(Segment)
  BY <1>1 DEF ConversionInv, SegmentsAreReal, Numbered
<1>3. DOMAIN segments[c] = DOMAIN request
  BY <1>1, <1>2, NumberedFacts, RequestFacts
<1>4. Complete(segments[c])
  BY <1>2, <1>3 DEF Complete, ConversionInv, SegmentsAreReal
<1>5. IsReal(Stitched(segments[c]))
  BY <1>1, <1>2, <1>4 DEF IsReal
<1>6. Stitched(segments[c]) \in Seq(Content) /\ Stitched(segments[c]) # None
  BY <1>5, RealIsAWav
<1>7. \A d \in Conversion :
         /\ wav'[d] = IF d = c THEN Stitched(segments[c]) ELSE wav[d]
         /\ stage'[d] = IF d = c THEN "uploading" ELSE stage[d]
  BY <1>1, <1>2, StageType DEF Stage, ConversionTypeOK
<1>8. ConversionTypeOK'
  <2>1. wav' \in [Conversion -> Seq(Content) \cup {None}]
    BY <1>1, <1>2, <1>6 DEF ConversionTypeOK
  <2>2. stage' \in [Conversion -> Stage]
    BY <1>1, <1>2, StageType DEF Stage
  <2> QED
    BY <1>1, <1>2, <2>1, <2>2 DEF ConversionTypeOK
<1>9. SegmentsAreReal'
  BY <1>1, <1>2, <1>7 DEF ConversionInv, SegmentsAreReal, Numbered, Valid
<1>10. \A w : IsReal(w) => IsReal(w)'
  BY <1>1 DEF IsReal, Complete, Valid
<1>11. WavsAreReal'
  <2>1. ASSUME NEW d \in Conversion
        PROVE  /\ wav'[d] # None => IsReal(wav[d])'
               /\ stage'[d] \in {"uploading", "recording"} => wav'[d] # None
    <3>1. wav'[d] # None => IsReal(wav'[d])
      BY <1>5, <1>7 DEF ConversionInv, WavsAreReal
    <3>2. stage'[d] \in {"uploading", "recording"} => wav'[d] # None
      BY <1>6, <1>7 DEF ConversionInv, WavsAreReal
    <3> QED
      BY <1>1, <3>1, <3>2 DEF IsReal, Complete, Valid
  <2> QED
    BY <2>1 DEF WavsAreReal
<1>12. ArtifactIsReal' /\ ObjectsAreHeld'
  BY <1>1, <1>7 DEF ConversionInv, ArtifactIsReal, ObjectsAreHeld, IsReal, Complete,
     Valid
<1> QED
  BY <1>8, <1>9, <1>11, <1>12 DEF ConversionInv

LEMMA ConversionInvStep ==
    ASSUME ConversionInv, [ConversionNext]_conversionVars
    PROVE  ConversionInv'
<1> DEFINE Rest == UNCHANGED <<request, output, object, held, puts, segments, wav>>
<1>1. CASE UNCHANGED conversionVars
  <2>1. UNCHANGED <<request, output, object, held, stitched, recorded, stage, segments, wav, puts, faults>>
    BY <1>1 DEF conversionVars
  <2>2. ConversionTypeOK' /\ ObjectsAreHeld'
    BY <2>1 DEF ConversionInv, ConversionTypeOK, ObjectsAreHeld
  <2> QED
    BY <2>1, <2>2, InvStays
       DEF ConversionInv, SegmentsAreReal, WavsAreReal, ArtifactIsReal
<1>2. ASSUME NEW l \in Location, NEW content \in Content, Put(l, content)
      PROVE  ConversionInv'
  BY <1>2, PutStep
<1>3. ASSUME NEW c \in Conversion, WorkerStep(c)
      PROVE  ConversionInv'
  <2>0. /\ recorded \in BOOLEAN /\ (recorded => stitched # None)
        /\ stage[c] \in {"uploading", "recording"} => wav[c] # None
        /\ stage[c] = "recording" => stitched # None
        /\ stage[c] \in {"uploading", "recording"} => Valid(request, output)
    BY DEF ConversionInv, ConversionTypeOK, WavsAreReal, ArtifactIsReal,
       SegmentsAreReal
  <2>1. ASSUME NEW next \in {"error", "gone", "ok"}, GoTo(c, next),
               Fault \/ UNCHANGED faults, Rest, recorded' = recorded, stitched' = stitched
        PROVE  ConversionInv'
    BY <2>0, <2>1, MovesOn DEF Stage
  <2>2. CASE Begin(c)
    <3>1. Rest /\ recorded' = recorded /\ stitched' = stitched /\ UNCHANGED faults
      BY <2>2 DEF Begin, input, s3, local
    <3>2. CASE GoTo(c, "error")
      BY <2>1, <3>1, <3>2
    <3>3. CASE Valid(request, output) /\ GoTo(c, "downloading")
      BY <2>0, <3>1, <3>3, MovesOn DEF Stage
    <3> QED
      BY <2>2, <3>2, <3>3 DEF Begin
  <2>3. CASE DownloadFails(c) \/ StitchFails(c)
    <3>1. /\ Rest /\ recorded' = recorded /\ stitched' = stitched
          /\ Fault \/ UNCHANGED faults
          /\ GoTo(c, "error")
      BY <2>3 DEF DownloadFails, StitchFails, input, s3, local
    <3> QED
      BY <2>1, <3>1
  <2>4. CASE Killed(c)
    <3>1. /\ Rest /\ recorded' = recorded /\ stitched' = stitched
          /\ Fault /\ GoTo(c, "gone")
      BY <2>4 DEF Killed, input, s3, local
    <3> QED
      BY <2>1, <3>1
  <2>5. CASE Upload(c)
    <3>1. /\ Rest /\ recorded' = recorded /\ stitched' = wav[c] /\ wav[c] # None
          /\ UNCHANGED faults /\ GoTo(c, "recording") /\ Valid(request, output)
      BY <2>0, <2>5 DEF Upload, input, local
    <3> QED
      BY <2>0, <3>1, MovesOn DEF Stage
  <2>6. CASE UploadFails(c)
    <3>1. /\ Rest /\ recorded' = recorded /\ wav[c] # None
          /\ stitched' = wav[c] \/ stitched' = stitched
          /\ Fault /\ GoTo(c, "error")
      BY <2>0, <2>6 DEF UploadFails, input, local
    <3> QED
      BY <2>0, <3>1, MovesOn DEF Stage
  <2>7. CASE Record(c)
    <3>1. /\ Rest /\ stitched' = stitched /\ stitched # None /\ recorded' \in BOOLEAN
          /\ UNCHANGED faults /\ (GoTo(c, "ok") \/ GoTo(c, "error"))
      BY <2>0, <2>7 DEF Record, input, s3, local
    <3> QED
      BY <2>0, <3>1, MovesOn DEF Stage
  <2> QED
    BY <1>3, <2>2, <2>3, <2>4, <2>5, <2>6, <2>7, DownloadStep, StitchStep DEF WorkerStep
<1> QED
  BY <1>1, <1>2, <1>3 DEF ConversionNext

-----------------------------------------------------------------------------
(* Theorems *)

\* Whatever invocations overlap, fail and are killed, the local outputs and the
\* artifact are stitched from complete downloads.
THEOREM ConversionInvariant == ConversionSpec => []ConversionInv
BY ConversionInvInit, ConversionInvStep, PTL DEF ConversionSpec

\* The conversion's state has its type.
THEOREM ConversionTypeCorrect == ConversionSpec => []ConversionTypeOK
<1>1. ConversionInv => ConversionTypeOK
  BY DEF ConversionInv
<1> QED
  BY <1>1, ConversionInvariant, PTL

\* What is stitched from a complete download has a place for every file.
LEMMA RealIsInOrder ==
    ASSUME ConversionTypeOK, NEW w, IsReal(w)
    PROVE  /\ DOMAIN w = DOMAIN request
           /\ \E place \in [DOMAIN request -> DOMAIN w] :
                 /\ \A i \in DOMAIN request : w[place[i]] \in held[request[i].uri] \cap Audio
                 /\ \A i, j \in DOMAIN request :
                       request[i].sequence < request[j].sequence => place[i] < place[j]
<1>1. PICK segs \in Seq(Segment) : Complete(segs) /\ Decodes(segs) /\ w = Stitched(segs)
  BY DEF IsReal
<1>2. Numbered(segs) /\ DOMAIN segs = DOMAIN request
  BY <1>1 DEF Complete
<1>3. /\ DOMAIN w = DOMAIN request
      /\ \A i \in DOMAIN request :
            Position(segs, i) \in DOMAIN w /\ w[Position(segs, i)] = segs[i].file
  <2> DEFINE v == Stitched(segs)
  <2>1. /\ DOMAIN v = DOMAIN segs
        /\ \A i \in DOMAIN segs :
              Position(segs, i) \in DOMAIN segs /\ v[Position(segs, i)] = segs[i].file
    BY <1>2, StitchedFacts
  <2>2. w = v
    BY <1>1
  <2> HIDE DEF v
  <2> QED
    BY <1>2, <2>1, <2>2
<1> DEFINE place == [i \in DOMAIN request |-> Position(segs, i)]
<1>4. place \in [DOMAIN request -> DOMAIN w]
  BY <1>3
<1>5. \A i \in DOMAIN request : w[place[i]] \in held[request[i].uri] \cap Audio
  BY <1>1, <1>2, <1>3 DEF Complete, Decodes
<1>6. ASSUME NEW i \in DOMAIN request, NEW j \in DOMAIN request,
             request[i].sequence < request[j].sequence
      PROVE  place[i] < place[j]
  <2>1. Before(segs[i], segs[j])
    BY <1>1, <1>2, <1>6 DEF Complete, Before
  <2> QED
    BY <1>2, <2>1, PositionsAscend
<1> HIDE DEF place
<1> QED
  BY <1>3, <1>4, <1>5, <1>6

\* handle and stitch play every file of the request once, in the order of the
\* sequence numbers, and nothing that cannot be decoded; the artifact is
\* recorded after it has been uploaded.
THEOREM PlaysInOrderAlways == ConversionSpec => []PlaysInOrder
<1>1. ConversionInv => PlaysInOrder
  BY RealIsInOrder DEF ConversionInv, ArtifactIsReal, PlaysInOrder
<1> QED
  BY <1>1, ConversionInvariant, PTL

\* Two complete downloads of files that were not replaced are the same.
LEMMA DownloadsAgree ==
    ASSUME ConversionTypeOK, Unreplaced,
           NEW segs \in Seq(Segment), Complete(segs), NEW other \in Seq(Segment), Complete(other)
    PROVE  segs = other
<1>1. /\ DOMAIN segs = DOMAIN request /\ DOMAIN other = DOMAIN request
      /\ Numbered(segs) /\ Numbered(other)
  BY DEF Complete
<1>2. ASSUME NEW i \in DOMAIN request
      PROVE  segs[i] = other[i]
  <2>1. segs[i] \in Segment /\ other[i] \in Segment
    BY <1>1, NumberedFacts
  <2>2. segs[i].segmentId = other[i].segmentId
    BY <1>1 DEF Numbered
  <2>3. segs[i].sequence = other[i].sequence
    BY <1>1 DEF Complete
  <2>4. segs[i].file = other[i].file
    <3>1. segs[i].file \in held[request[i].uri] /\ other[i].file \in held[request[i].uri]
      BY <1>1 DEF Complete
    <3>2. \A x, y \in held[request[i].uri] : x = y
      BY DEF Unreplaced
    <3> QED
      BY <3>1, <3>2
  <2>5. ASSUME NEW s \in Segment
        PROVE  s = [segmentId |-> s.segmentId, file |-> s.file, sequence |-> s.sequence]
    BY DEF Segment
  <2> HIDE DEF Segment
  <2> QED
    BY <2>1, <2>2, <2>3, <2>4, <2>5
<1>3. /\ segs = [i \in DOMAIN segs |-> segs[i]]
      /\ other = [i \in DOMAIN other |-> other[i]]
  OBVIOUS
<1> QED
  BY <1>1, <1>2, <1>3

\* A late or repeated conversion does not change an artifact that may have been
\* read, as long as no caller has replaced a file.
THEOREM RetriesAgreeAlways == ConversionSpec => RetriesAgree
<1>1. ASSUME ConversionInv, [ConversionNext]_conversionVars, stitched # None, Unreplaced
      PROVE  stitched' = stitched
  <2>1. ASSUME NEW c \in Conversion, stage[c] = "uploading"
        PROVE  wav[c] = stitched
    <3>1. IsReal(wav[c]) /\ IsReal(stitched)
      BY <1>1, <2>1 DEF ConversionInv, WavsAreReal, ArtifactIsReal
    <3>2. PICK segs \in Seq(Segment) : Complete(segs) /\ wav[c] = Stitched(segs)
      BY <3>1 DEF IsReal
    <3>3. PICK other \in Seq(Segment) : Complete(other) /\ stitched = Stitched(other)
      BY <3>1 DEF IsReal
    <3>4. segs = other
      BY <1>1, <3>2, <3>3, DownloadsAgree DEF ConversionInv
    <3> QED
      BY <3>2, <3>3, <3>4
  <2>2. CASE UNCHANGED conversionVars
    BY <2>2 DEF conversionVars
  <2>3. ASSUME NEW l \in Location, NEW content \in Content, Put(l, content)
        PROVE  stitched' = stitched
    BY <2>3 DEF Put
  <2>4. ASSUME NEW c \in Conversion, Upload(c) \/ UploadFails(c)
        PROVE  stitched' = stitched
    <3>1. stage[c] = "uploading" /\ stitched' \in {wav[c], stitched}
      BY <2>4 DEF Upload, UploadFails
    <3> QED
      BY <2>1, <3>1
  <2>5. ASSUME NEW c \in Conversion,
               \/ Begin(c) \/ Download(c) \/ DownloadFails(c) \/ Stitch(c) \/ StitchFails(c)
               \/ Record(c) \/ Killed(c)
        PROVE  stitched' = stitched
    BY <2>5 DEF Begin, Download, DownloadFails, Stitch, StitchFails, Record, Killed, s3
  <2> QED
    BY <1>1, <2>2, <2>3, <2>4, <2>5 DEF ConversionNext, WorkerStep
<1>2. ConversionInv /\ [ConversionNext]_conversionVars =>
          [stitched # None /\ Unreplaced => stitched' = stitched]_conversionVars
  BY <1>1
<1> QED
  BY <1>2, ConversionInvariant, PTL DEF ConversionSpec, RetriesAgree

=============================================================================
