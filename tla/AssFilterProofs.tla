---------------------------- MODULE AssFilterProofs ---------------------------
(***************************************************************************)
(* Proofs about AssFilter, for any streams, files, media and bounds.       *)
(*                                                                         *)
(* The types, the mode of the filter and the two vectors of external       *)
(* subtitles are proved together (IInv): the frame RequestFrame delivers   *)
(* has a source only because the subscripts are in range, and they are in  *)
(* range only because of the order in which the filter loads and connects. *)
(*                                                                         *)
(* On that rest: the consumer never keeps a frame of a track that is no    *)
(* longer shown, the samples of a stream go to the track of that stream,   *)
(* and what the filter tells about itself is about the track it shows.     *)
(***************************************************************************)
EXTENDS AssFilter, FiniteSetTheorems, SequenceTheorems, TLAPS

-----------------------------------------------------------------------------
(* Lemmas about the operators.                                             *)

\* The ReadOrder given to libass is a natural number.
LEMMA EntryType ==
  ASSUME TypeOK, NEW line \in Line
  PROVE  EntryOf(mapSubLine, line) \in Entry
<1> DEFINE occ == Occurrences(mapSubLine, line.readOrder)
<1>1. occ \in SUBSET mapSubLine
  BY DEF Occurrences
<1>2. Cardinality(occ) \in Nat
  BY <1>1, FS_Subset, FS_CardinalityType DEF TypeOK
<1>3. line.readOrder \in Nat /\ line.readOrder \in ReadOrders /\ line.text \in Texts
  BY ReadOrderAssumption DEF Line
<1>4. Cardinality(occ) * Stride \in Nat
  BY <1>2, ReadOrderAssumption, Z3
<1> QED
  BY <1>3, <1>4 DEF EntryOf, Remapped, Entry

\* LoadedTrackIsOfItsFile of any two vectors.
Agree(files, tracks) ==
  \A i \in 1 .. Len(files) :
    LET pos == files[i].vecPos
    IN  pos # 0 =>
          /\ pos \in 1 .. Len(tracks)
          /\ tracks[pos] \in {files[i].file, None}
          /\ \A j \in 1 .. Len(files) : files[j].vecPos = pos => j = i

\* LoadExternalFile appends files that are not loaded.
LEMMA FoundFilesAgree ==
  ASSUME TypeOK, LoadedTrackIsOfItsFile, media # None,
         NEW files, files = m_ExtSubFiles \o FoundFiles
  PROVE  /\ files \in Seq(ExtSub)
         /\ Len(files) = Len(m_ExtSubFiles) + Len(MediaFiles[media])
         /\ \A k \in 1 .. Len(m_ExtSubFiles) : files[k] = m_ExtSubFiles[k]
         /\ \A k \in 1 .. Len(files) :
              \/ k \in 1 .. Len(m_ExtSubFiles) /\ files[k] = m_ExtSubFiles[k]
              \/ files[k].vecPos = 0 /\ files[k].yuvMatrix = "None"
         /\ Agree(files, m_extSubTrack)
<1>1. MediaFiles[media] \in Seq(Files) /\ Len(MediaFiles[media]) \in Nat
  BY FilterAssumption DEF TypeOK
<1>2. /\ FoundFiles \in Seq(ExtSub)
      /\ Len(FoundFiles) = Len(MediaFiles[media])
      /\ \A k \in 1 .. Len(FoundFiles) :
           FoundFiles[k].vecPos = 0 /\ FoundFiles[k].yuvMatrix = "None"
  <2>1. \A k \in 1 .. Len(MediaFiles[media]) : MediaFiles[media][k] \in Files
    BY <1>1
  <2> QED
    BY <1>1, <2>1 DEF FoundFiles, ExtSub, Matrices
<1>3. m_ExtSubFiles \in Seq(ExtSub)
  BY DEF TypeOK
<1>4. /\ files \in Seq(ExtSub)
      /\ Len(files) = Len(m_ExtSubFiles) + Len(FoundFiles)
      /\ \A k \in 1 .. Len(files) :
           files[k] = IF k <= Len(m_ExtSubFiles) THEN m_ExtSubFiles[k]
                      ELSE FoundFiles[k - Len(m_ExtSubFiles)]
  <2> HIDE DEF FoundFiles
  <2> DEFINE found == FoundFiles
  <2>1. found \in Seq(ExtSub) /\ files = m_ExtSubFiles \o found
    BY <1>2
  <2> HIDE DEF found
  <2>2. /\ files \in Seq(ExtSub)
        /\ Len(files) = Len(m_ExtSubFiles) + Len(found)
        /\ \A k \in 1 .. Len(m_ExtSubFiles) + Len(found) :
             files[k] = IF k <= Len(m_ExtSubFiles) THEN m_ExtSubFiles[k]
                        ELSE found[k - Len(m_ExtSubFiles)]
    BY <1>3, <2>1, ConcatProperties, ZenonT(30)
  <2> QED
    BY <2>2 DEF found
<1>5. \A k \in 1 .. Len(files) :
        \/ k \in 1 .. Len(m_ExtSubFiles) /\ files[k] = m_ExtSubFiles[k]
        \/ files[k].vecPos = 0 /\ files[k].yuvMatrix = "None"
  BY <1>2, <1>3, <1>4
<1>6. Agree(files, m_extSubTrack)
  BY <1>5 DEF Agree, LoadedTrackIsOfItsFile
<1> QED
  BY <1>1, <1>2, <1>3, <1>4, <1>5, <1>6

\* A file that is shown for the first time gets the next track, and no other
\* file or track changes.
LEMMA SelectLoads ==
  ASSUME TypeOK, NEW files \in Seq(ExtSub),
         NEW i \in 1 .. Len(files), NEW readable \in BOOLEAN,
         SelectExternalSub(files, i, readable), files[i].vecPos = 0
  PROVE  LET n == Len(m_extSubTrack)
             track == TrackRead(files[i].file, readable)
         IN  /\ m_ExtSubFiles' \in Seq(ExtSub)
             /\ Len(m_ExtSubFiles') = Len(files)
             /\ m_ExtSubFiles'[i] = [file |-> files[i].file,
                                     yuvMatrix |-> MatrixRead(files[i], readable),
                                     vecPos |-> n + 1]
             /\ \A k \in 1 .. Len(files) : k # i => m_ExtSubFiles'[k] = files[k]
             /\ m_extSubTrack' \in Seq(Files \cup {None})
             /\ Len(m_extSubTrack') = n + 1
             /\ m_extSubTrack'[n + 1] = track
             /\ \A k \in 1 .. n : m_extSubTrack'[k] = m_extSubTrack[k]
<1> DEFINE n == Len(m_extSubTrack)
           track == TrackRead(files[i].file, readable)
           loaded == [file |-> files[i].file,
                      yuvMatrix |-> MatrixRead(files[i], readable),
                      vecPos |-> n + 1]
<1>1. m_extSubTrack \in Seq(Files \cup {None}) /\ n \in Nat
  BY DEF TypeOK
<1>2. files[i] \in ExtSub
  OBVIOUS
<1>3. loaded \in ExtSub
  <2>1. MatrixRead(files[i], readable) \in Matrices
    BY <1>2, FilterAssumption DEF ExtSub, MatrixRead, Headers, Matrices
  <2> QED
    BY <1>1, <1>2, <2>1 DEF ExtSub
<1>4. m_ExtSubFiles' = [files EXCEPT ![i] = loaded]
  <2>1. m_ExtSubFiles' = Loaded(files, i, readable)
    BY DEF SelectExternalSub
  <2> QED
    BY <2>1 DEF Loaded
<1>5. m_extSubTrack' = Append(m_extSubTrack, track)
  BY DEF SelectExternalSub
<1>6. track \in Files \cup {None}
  BY <1>2 DEF ExtSub, TrackRead
<1>7. /\ m_extSubTrack' \in Seq(Files \cup {None})
      /\ Len(m_extSubTrack') = n + 1
      /\ m_extSubTrack'[n + 1] = track
      /\ \A k \in 1 .. n : m_extSubTrack'[k] = m_extSubTrack[k]
  BY <1>1, <1>5, <1>6
<1>8. /\ m_ExtSubFiles' \in Seq(ExtSub)
      /\ Len(m_ExtSubFiles') = Len(files)
      /\ m_ExtSubFiles'[i] = loaded
      /\ \A k \in 1 .. Len(files) : k # i => m_ExtSubFiles'[k] = files[k]
  BY <1>3, <1>4
<1> QED
  BY <1>7, <1>8

\* SetCurExternalSub on two vectors that agree: the file chosen is loaded, the
\* vectors agree again, and no other file changes.
LEMMA SelectAgrees ==
  ASSUME TypeOK,
         NEW files \in Seq(ExtSub), Agree(files, m_extSubTrack),
         NEW i \in 1 .. Len(files), NEW readable \in BOOLEAN,
         SelectExternalSub(files, i, readable)
  PROVE  /\ m_ExtSubFiles' \in Seq(ExtSub)
         /\ m_extSubTrack' \in Seq(Files \cup {None})
         /\ Len(m_ExtSubFiles') = Len(files)
         /\ \A k \in 1 .. Len(files) : m_ExtSubFiles'[k].file = files[k].file
         /\ m_ExtSubFiles'[i].vecPos # 0
         /\ Agree(m_ExtSubFiles', m_extSubTrack')
<1> DEFINE n == Len(m_extSubTrack)
<1>1. m_extSubTrack \in Seq(Files \cup {None}) /\ n \in Nat
  BY DEF TypeOK
<1>2. files[i] \in ExtSub
  OBVIOUS
<1>3. CASE files[i].vecPos # 0
  BY <1>1, <1>3 DEF SelectExternalSub
<1>4. CASE files[i].vecPos = 0
  <2> DEFINE track == TrackRead(files[i].file, readable)
  <2>1. track \in {files[i].file, None}
    BY DEF TrackRead
  <2>2. /\ m_extSubTrack' \in Seq(Files \cup {None})
        /\ Len(m_extSubTrack') = n + 1
        /\ m_extSubTrack'[n + 1] = track
        /\ \A k \in 1 .. n : m_extSubTrack'[k] = m_extSubTrack[k]
    BY <1>4, SelectLoads
  <2>3. /\ m_ExtSubFiles' \in Seq(ExtSub)
        /\ Len(m_ExtSubFiles') = Len(files)
        /\ m_ExtSubFiles'[i].file = files[i].file
        /\ m_ExtSubFiles'[i].vecPos = n + 1
        /\ \A k \in 1 .. Len(files) : k # i => m_ExtSubFiles'[k] = files[k]
    <3> DEFINE matrix == MatrixRead(files[i], readable)
    <3>1. /\ m_ExtSubFiles' \in Seq(ExtSub)
          /\ Len(m_ExtSubFiles') = Len(files)
          /\ m_ExtSubFiles'[i] = [file |-> files[i].file, yuvMatrix |-> matrix,
                                  vecPos |-> n + 1]
          /\ \A k \in 1 .. Len(files) : k # i => m_ExtSubFiles'[k] = files[k]
      BY <1>4, SelectLoads, Zenon
    <3> HIDE DEF matrix
    <3> QED
      BY <3>1
  <2>4. Agree(m_ExtSubFiles', m_extSubTrack')
    <3> SUFFICES ASSUME NEW k \in 1 .. Len(files), m_ExtSubFiles'[k].vecPos # 0
                 PROVE  /\ m_ExtSubFiles'[k].vecPos \in 1 .. Len(m_extSubTrack')
                        /\ m_extSubTrack'[m_ExtSubFiles'[k].vecPos]
                             \in {m_ExtSubFiles'[k].file, None}
                        /\ \A j \in 1 .. Len(files) :
                             m_ExtSubFiles'[j].vecPos = m_ExtSubFiles'[k].vecPos => j = k
      BY <2>3 DEF Agree
    <3>1. ASSUME NEW j \in 1 .. Len(files), j # i, files[j].vecPos # 0
          PROVE  files[j].vecPos \in 1 .. n
      BY <3>1 DEF Agree
    <3>2. CASE k = i
      <4>1. /\ m_ExtSubFiles'[k].vecPos = n + 1
            /\ m_ExtSubFiles'[k].file = files[i].file
        BY <2>3, <3>2
      <4>2. n + 1 \in 1 .. Len(m_extSubTrack')
        BY <1>1, <2>2
      <4>3. ASSUME NEW j \in 1 .. Len(files), m_ExtSubFiles'[j].vecPos = n + 1, j # i
            PROVE  FALSE
        <5>1. files[j].vecPos = n + 1
          BY <2>3, <4>3
        <5>2. files[j].vecPos \in 1 .. n
          BY <1>1, <3>1, <4>3, <5>1
        <5> QED
          BY <1>1, <5>1, <5>2
      <4> QED
        BY <2>1, <2>2, <3>2, <4>1, <4>2, <4>3
    <3>3. CASE k # i
      <4>1. files[k].vecPos \in 1 .. n /\ m_ExtSubFiles'[k] = files[k]
        BY <2>3, <3>1, <3>3
      <4>2. \A j \in 1 .. Len(files) : files[j].vecPos = files[k].vecPos => j = k
        BY <4>1 DEF Agree
      <4>3. m_extSubTrack[files[k].vecPos] \in {files[k].file, None}
        BY <4>1 DEF Agree
      <4>4. ASSUME NEW j \in 1 .. Len(files),
                   m_ExtSubFiles'[j].vecPos = m_ExtSubFiles'[k].vecPos
            PROVE  j = k
        <5>1. j # i
          BY <1>1, <2>3, <4>1, <4>4
        <5> QED
          BY <2>3, <4>1, <4>2, <4>4, <5>1
      <4>5. /\ files[k].vecPos \in 1 .. Len(m_extSubTrack')
            /\ m_extSubTrack'[files[k].vecPos] = m_extSubTrack[files[k].vecPos]
        BY <1>1, <2>2, <4>1
      <4> QED
        BY <4>1, <4>3, <4>4, <4>5
    <3> QED
      BY <3>2, <3>3
  <2>5. /\ m_ExtSubFiles'[i].vecPos # 0
        /\ \A k \in 1 .. Len(files) : m_ExtSubFiles'[k].file = files[k].file
    BY <1>1, <2>3
  <2> QED
    BY <2>2, <2>3, <2>4, <2>5
<1> QED
  BY <1>3, <1>4

\* A sample is parsed into the track that is there.
LEMMA ProcessKeepsStream ==
  ASSUME m_track \in Track, NEW header \in BOOLEAN, NEW ro \in Nat, NEW text \in Texts,
         Process(header, ro, text)
  PROVE  m_track' \in Track /\ m_track'.stream = m_track.stream
<1> DEFINE events == IF header THEN ProcessChunk(m_track.events, ro, text)
                               ELSE m_track.events
<1>1. m_track.stream \in Streams /\ m_track.events \in SUBSET Event
  BY DEF Track
<1>2. events \in SUBSET Event
  BY <1>1 DEF ProcessChunk, Event
<1>3. m_track' = [stream |-> m_track.stream, header |-> header, events |-> events]
  BY DEF Process, Track
<1> QED
  BY <1>1, <1>2, <1>3 DEF Track

-----------------------------------------------------------------------------
(* The inductive invariant, one lemma per operation that does more than    *)
(* set a flag.                                                             *)

LEMMA ReceiveConnectionKeepsIInv ==
  ASSUME IInv, NEW s \in Streams, ReceiveConnection(s)
  PROVE  IInv'
<1> USE DEF lifeVars, extVars
<1>1. StreamType[s] \in SubTypes
  BY FilterAssumption
<1>2. m_track' \in Track
  BY DEF ReceiveConnection, SetMediaType, NewTrack, Track
<1>3. options' \in [yuvMatrix : Matrices, isMovable : BOOLEAN]
  BY <1>1 DEF ReceiveConnection, SetMediaType, MediaOptions, FoundInHeader, IInv, TypeOK, Matrices
<1>4. mapSubLine' \in {{}, mapSubLine} /\ cache' \in {{}, cache}
  BY DEF ReceiveConnection, SetMediaType, Flush
<1>5. trayFiles' \in Seq(ExtSub) \cup {None}
  BY DEF ReceiveConnection, SetMediaType, CreateTrayIcon, IInv, TypeOK
<1>6. m_bSrtHeaderDone' \in BOOLEAN /\ m_bUnsupportedSub' \in BOOLEAN
  BY DEF ReceiveConnection, SetMediaType, ResetSrtHeader, IInv, TypeOK
<1>7. TypeOK'
  BY <1>1, <1>2, <1>3, <1>4, <1>5, <1>6, FS_EmptySet
     DEF ReceiveConnection, SetMediaType, NewTrack, IInv, TypeOK
<1>8. PinInv'
  BY <1>2 DEF ReceiveConnection, SetMediaType, IInv, PinInv
<1>9. m_ExtSubFiles = <<>> /\ ~m_bExternalFile
  BY DEF ReceiveConnection, IInv, ExtInv
<1>10. ExtInv' /\ LoadedTrackIsOfItsFile'
  BY <1>9 DEF ReceiveConnection, SetMediaType, IInv, ExtInv, LoadedTrackIsOfItsFile
<1> QED
  BY <1>7, <1>8, <1>10 DEF IInv

LEMMA ReceiveLockedKeepsTrack ==
  ASSUME IInv, ReceiveLocked
  PROVE  /\ m_track \in Track /\ m_track' \in Track
         /\ m_track'.stream = m_track.stream
         /\ m_bSrtHeaderDone' \in BOOLEAN
         /\ mapSubLine' \subseteq Entry /\ IsFiniteSet(mapSubLine')
<1> USE DEF lifeVars, extVars, infoVars, consumerVars
<1>1. /\ inFlight \in Sample
      /\ inFlight.line \in Line
      /\ inFlight.line.readOrder \in Nat
      /\ inFlight.line.text \in Texts
  BY ReadOrderAssumption DEF ReceiveLocked, IInv, TypeOK, Sample, Line
<1>2. m_track \in Track /\ m_track.header \in BOOLEAN /\ m_bSrtHeaderDone \in BOOLEAN
  BY DEF ReceiveLocked, IInv, PinInv, TypeOK, Track
<1>3. /\ m_track' \in Track /\ m_track'.stream = m_track.stream
      /\ m_bSrtHeaderDone' \in BOOLEAN
      /\ mapSubLine' \subseteq Entry /\ IsFiniteSet(mapSubLine')
  <2>1. CASE m_wsSubType = "SRT"
    <3>1. ReceiveSrt(inFlight.line)
      BY <2>1 DEF ReceiveLocked
    <3>2. m_track' \in Track /\ m_track'.stream = m_track.stream
      <4>1. CASE inFlight.line.text \in Fatal
        BY <1>2, <3>1, <4>1 DEF ReceiveSrt, Track
      <4>2. CASE inFlight.line.text \notin Fatal
        BY <1>1, <1>2, <3>1, <4>2, ProcessKeepsStream DEF ReceiveSrt
      <4> QED
        BY <4>1, <4>2
    <3> QED
      BY <3>1, <3>2 DEF ReceiveSrt, IInv, TypeOK
  <2>2. CASE m_wsSubType # "SRT"
    <3> DEFINE entry == EntryOf(mapSubLine, inFlight.line)
    <3>1. ReceiveAss(inFlight.line)
      BY <2>2 DEF ReceiveLocked
    <3>2. entry \in Entry
      BY <1>1, EntryType DEF IInv
    <3>3. CASE Known(mapSubLine, inFlight.line)
      BY <1>2, <3>1, <3>3 DEF ReceiveAss, IInv, TypeOK
    <3>4. CASE ~Known(mapSubLine, inFlight.line)
      <4>1. /\ Process(m_track.header, entry.readOrder, entry.text)
            /\ mapSubLine' = mapSubLine \cup {entry}
            /\ m_bSrtHeaderDone' = m_bSrtHeaderDone
        BY <3>1, <3>4 DEF ReceiveAss
      <4>2. entry.readOrder \in Nat /\ entry.text \in Texts
        BY <3>2 DEF Entry
      <4>3. m_track' \in Track /\ m_track'.stream = m_track.stream
        BY <1>2, <4>1, <4>2, ProcessKeepsStream
      <4>4. IsFiniteSet(mapSubLine')
        BY <4>1, FS_AddElement DEF IInv, TypeOK
      <4> QED
        BY <3>2, <4>1, <4>3, <4>4 DEF IInv, TypeOK
    <3> QED
      BY <3>3, <3>4
  <2> QED
    BY <2>1, <2>2
<1> QED
  BY <1>2, <1>3

LEMMA ReceiveLockedKeepsIInv ==
  ASSUME IInv, ReceiveLocked
  PROVE  IInv'
<1> USE DEF lifeVars, extVars, infoVars, consumerVars
<1>1. /\ m_track' \in Track
      /\ m_bSrtHeaderDone' \in BOOLEAN
      /\ mapSubLine' \subseteq Entry /\ IsFiniteSet(mapSubLine')
  BY ReceiveLockedKeepsTrack
<1>2. /\ inFlight \in Sample
      /\ received' \in {received, received \cup {inFlight}}
      /\ crashed' \in {crashed, "sample"}
  BY DEF ReceiveLocked, ReceiveSrt, ReceiveAss, IInv, TypeOK
<1>3. TypeOK'
  BY <1>1, <1>2 DEF ReceiveLocked, IInv, TypeOK
<1>4. PinInv'
  BY <1>1 DEF ReceiveLocked, IInv, PinInv
<1>5. ExtInv' /\ LoadedTrackIsOfItsFile'
  BY DEF ReceiveLocked, IInv, ExtInv, LoadedTrackIsOfItsFile
<1> QED
  BY <1>3, <1>4, <1>5 DEF IInv

LEMMA SetCurExternalSubKeepsIInv ==
  ASSUME IInv, NEW i \in 1 .. Len(m_ExtSubFiles), NEW readable \in BOOLEAN,
         SetCurExternalSub(i, readable)
  PROVE  IInv'
<1> USE DEF lifeVars, sampleVars
<1>1. SelectExternalSub(m_ExtSubFiles, i, readable)
  BY DEF SetCurExternalSub
<1>2. m_ExtSubFiles \in Seq(ExtSub) /\ Agree(m_ExtSubFiles, m_extSubTrack)
  BY DEF IInv, TypeOK, LoadedTrackIsOfItsFile, Agree
<1>3. /\ m_ExtSubFiles' \in Seq(ExtSub)
      /\ m_extSubTrack' \in Seq(Files \cup {None})
      /\ Len(m_ExtSubFiles') = Len(m_ExtSubFiles)
      /\ m_ExtSubFiles'[i].vecPos # 0
      /\ Agree(m_ExtSubFiles', m_extSubTrack')
  BY <1>1, <1>2, SelectAgrees DEF IInv
<1>4. m_iCurExtSubTrack' = i
  BY <1>1 DEF SelectExternalSub
<1>5. /\ m_track' \in {None, m_track}
      /\ received' \in {{}, received}
      /\ m_bSrtHeaderDone' = m_bSrtHeaderDone
      /\ mapSubLine' = mapSubLine
  BY <1>1 DEF SelectExternalSub
<1>6. /\ m_wsSubType' \in SubTypes
      /\ options' \in [yuvMatrix : Matrices, isMovable : BOOLEAN]
  <2>1. m_ExtSubFiles'[i] \in ExtSub /\ m_ExtSubFiles[i] \in ExtSub
    BY <1>2, <1>3
  <2> QED
    BY <1>1, <2>1, FilterAssumption DEF SelectExternalSub, ExtSub, SubTypes
<1>7. cache' \in {{}, cache}
  BY DEF SetCurExternalSub
<1>8. TypeOK'
  BY <1>3, <1>4, <1>5, <1>6, <1>7 DEF SetCurExternalSub, IInv, TypeOK
<1>9. m_ExtSubFiles # <<>> /\ m_ExtSubFiles' # <<>>
  BY <1>2, <1>3
<1>10. m_bExternalFile /\ m_pin = None /\ inFlight = None
  BY <1>9 DEF IInv, ExtInv, PinInv
<1>11. PinInv'
  BY <1>10 DEF SetCurExternalSub, IInv, PinInv
<1>12. ExtInv'
  BY <1>3, <1>4, <1>9, <1>10 DEF SetCurExternalSub, IInv, ExtInv
<1>13. LoadedTrackIsOfItsFile'
  BY <1>3 DEF Agree, LoadedTrackIsOfItsFile
<1> QED
  BY <1>8, <1>11, <1>12, <1>13 DEF IInv

\* What LoadExternalFile leaves: the current file is loaded.
LEMMA LoadExternalFileLoads ==
  ASSUME IInv, media # None, m_bExternalFile, MediaFiles[media] # <<>>,
         NEW readable \in BOOLEAN, LoadExternalFile(readable)
  PROVE  /\ m_ExtSubFiles' \in Seq(ExtSub)
         /\ m_extSubTrack' \in Seq(Files \cup {None})
         /\ m_iCurExtSubTrack' = m_iCurExtSubTrack
         /\ m_iCurExtSubTrack \in 1 .. Len(m_ExtSubFiles')
         /\ m_ExtSubFiles'[m_iCurExtSubTrack].vecPos # 0
         /\ Agree(m_ExtSubFiles', m_extSubTrack')
         /\ m_track' \in {None, m_track} /\ received' \in {{}, received}
         /\ UNCHANGED <<m_bSrtHeaderDone, mapSubLine>>
         /\ m_wsSubType' \in SubTypes
         /\ options' \in [yuvMatrix : Matrices, isMovable : BOOLEAN]
<1> DEFINE i == m_iCurExtSubTrack
<1>1. PICK files : files = m_ExtSubFiles \o FoundFiles
  OBVIOUS
<1>2. SelectExternalSub(files, i, readable)
  BY <1>1 DEF LoadExternalFile
<1>3. /\ files \in Seq(ExtSub)
      /\ Len(files) = Len(m_ExtSubFiles) + Len(MediaFiles[media])
      /\ Agree(files, m_extSubTrack)
  BY <1>1, FoundFilesAgree DEF IInv
<1>4. i \in 1 .. Len(files)
  <2>1. MediaFiles[media] \in Seq(Files)
    BY FilterAssumption DEF IInv, TypeOK
  <2>2. Len(MediaFiles[media]) \in Nat /\ Len(MediaFiles[media]) >= 1
    BY <2>1
  <2>3. Len(m_ExtSubFiles) \in Nat
    BY DEF IInv, TypeOK
  <2> QED
    BY <1>3, <2>2, <2>3 DEF IInv, ExtInv
<1>5. /\ m_ExtSubFiles' \in Seq(ExtSub)
      /\ m_extSubTrack' \in Seq(Files \cup {None})
      /\ Len(m_ExtSubFiles') = Len(files)
      /\ m_ExtSubFiles'[i].vecPos # 0
      /\ Agree(m_ExtSubFiles', m_extSubTrack')
  BY <1>2, <1>3, <1>4, SelectAgrees DEF IInv
<1>6. /\ m_wsSubType' \in SubTypes
      /\ options' \in [yuvMatrix : Matrices, isMovable : BOOLEAN]
  <2>1. m_ExtSubFiles'[i] \in ExtSub /\ files[i] \in ExtSub
    BY <1>3, <1>4, <1>5
  <2> QED
    BY <1>2, <2>1, FilterAssumption DEF SelectExternalSub, ExtSub, SubTypes
<1> QED
  BY <1>2, <1>4, <1>5, <1>6 DEF SelectExternalSub

LEMMA FirstPauseKeepsIInv ==
  ASSUME IInv, NEW readable \in BOOLEAN, Pause(readable), FirstPause(readable)
  PROVE  IInv'
<1> USE DEF sampleVars, trackVars, extVars, infoVars, consumerVars
<1> DEFINE loads == m_bExternalFile /\ MediaFiles[media] # <<>>
<1>1. media # None /\ ~m_consumer
  BY DEF Pause, FirstPause, IInv, ExtInv
<1>2. /\ m_ExtSubFiles' \in Seq(ExtSub)
      /\ m_extSubTrack' \in Seq(Files \cup {None})
      /\ m_iCurExtSubTrack' = m_iCurExtSubTrack
      /\ m_track' \in {None, m_track} /\ received' \in {{}, received}
      /\ UNCHANGED <<m_bSrtHeaderDone, mapSubLine>>
      /\ m_wsSubType' \in SubTypes \cup {"none"}
      /\ options' \in [yuvMatrix : Matrices, isMovable : BOOLEAN]
      /\ LoadedTrackIsOfItsFile'
  <2>1. CASE loads
    BY <1>1, <2>1, LoadExternalFileLoads DEF FirstPause, Agree, LoadedTrackIsOfItsFile
  <2>2. CASE ~loads
    BY <2>2 DEF FirstPause, IInv, TypeOK, LoadedTrackIsOfItsFile
  <2> QED
    BY <2>1, <2>2
<1>3. /\ m_consumer' \in BOOLEAN /\ m_consumerLastId' \in Nat
      /\ renderer' \in {"absent", "free", "taken", "ours"}
      /\ cache' = cache
      /\ m_consumer' => ~m_bNoExtFile'
  <2>1. CASE m_bNoExtFile'
    BY <1>1, <2>1 DEF FirstPause, IInv, TypeOK
  <2>2. CASE ~m_bNoExtFile'
    <3>1. ConnectToConsumer
      BY <2>2 DEF FirstPause
    <3>2. CASE renderer = "free"
      BY <2>2, <3>1, <3>2 DEF ConnectToConsumer, IInv, TypeOK
    <3>3. CASE renderer # "free"
      <4>1. UNCHANGED consumerVars
        BY <3>1, <3>3 DEF ConnectToConsumer
      <4> QED
        BY <1>1, <4>1 DEF IInv, TypeOK
    <3> QED
      BY <3>2, <3>3
  <2> QED
    BY <2>1, <2>2
<1>4. trayFiles' \in Seq(ExtSub) \cup {None}
  BY <1>2 DEF FirstPause, CreateTrayIcon, IInv, TypeOK
<1>5. TypeOK'
  <2>1. m_bNoExtFile' \in BOOLEAN
    BY DEF FirstPause, IInv, TypeOK
  <2> QED
    BY <1>2, <1>3, <1>4, <2>1 DEF Pause, FirstPause, IInv, TypeOK
<1>6. PinInv'
  <2>1. loads \/ UNCHANGED m_track
    BY DEF FirstPause
  <2> QED
    BY <1>1, <1>2, <2>1 DEF Pause, IInv, PinInv
<1>7. ExtInv'
  <2>1. CASE loads
    <3>1. /\ m_iCurExtSubTrack \in 1 .. Len(m_ExtSubFiles')
          /\ m_ExtSubFiles'[m_iCurExtSubTrack].vecPos # 0
      BY <1>1, <2>1, LoadExternalFileLoads DEF FirstPause
    <3>2. m_ExtSubFiles' # <<>>
      BY <3>1
    <3> QED
      BY <1>2, <2>1, <3>1, <3>2 DEF Pause, FirstPause, ExtInv
  <2>2. CASE ~loads
    <3>1. UNCHANGED <<m_ExtSubFiles, m_iCurExtSubTrack, m_bExternalFile>>
      BY <2>2 DEF Pause, FirstPause
    <3>2. m_bExternalFile => m_bNoExtFile'
      BY <2>2 DEF FirstPause
    <3> QED
      BY <1>3, <3>1, <3>2 DEF FirstPause, IInv, ExtInv
  <2> QED
    BY <2>1, <2>2
<1> QED
  BY <1>2, <1>5, <1>6, <1>7 DEF IInv

LEMMA RequestFrameKeepsIInv ==
  ASSUME IInv, RequestFrame
  PROVE  IInv'
<1> USE DEF lifeVars, sampleVars, trackVars, extVars, infoVars
<1>1. RenderedSource \in Streams \cup Files \cup {None}
  <2>1. CASE m_bExternalFile
    <3>1. m_iCurExtSubTrack \in 1 .. Len(m_ExtSubFiles)
      BY <2>1 DEF RequestFrame, IInv, ExtInv
    <3>2. m_ExtSubFiles[m_iCurExtSubTrack].vecPos \in 1 .. Len(m_extSubTrack)
      BY <2>1, <3>1 DEF RequestFrame, IInv, ExtInv, LoadedTrackIsOfItsFile
    <3> QED
      BY <2>1, <3>2 DEF RenderedSource, IInv, TypeOK
  <2>2. CASE ~m_bExternalFile
    BY <2>2 DEF RenderedSource, IInv, TypeOK, Track
  <2> QED
    BY <2>1, <2>2
<1>2. cache' \subseteq Frame
  BY <1>1 DEF RequestFrame, IInv, TypeOK, Frame
<1>3. TypeOK'
  BY <1>2 DEF RequestFrame, IInv, TypeOK
<1>4. PinInv' /\ ExtInv' /\ LoadedTrackIsOfItsFile'
  BY DEF RequestFrame, IInv, PinInv, ExtInv, LoadedTrackIsOfItsFile
<1> QED
  BY <1>3, <1>4 DEF IInv

\* The other operations move flags and pointers only.
LEMMA GraphStepKeepsIInv ==
  ASSUME IInv,
         \/ \E name \in GraphNames, md \in Media, rend \in {"absent", "free", "taken"} :
              JoinFilterGraph(name, md, rend)
         \/ LeaveFilterGraph
  PROVE  IInv'
<1> USE DEF sampleVars, trackVars, extVars, infoVars
<1>1. ASSUME NEW name \in GraphNames, NEW md \in Media,
             NEW rend \in {"absent", "free", "taken"}, JoinFilterGraph(name, md, rend)
      PROVE  IInv'
  <2>1. m_bExternalFile' \in BOOLEAN /\ (m_bExternalFile => m_bExternalFile')
    BY <1>1 DEF JoinFilterGraph, IInv, TypeOK
  <2>2. media = None /\ media' # None
    BY <1>1, NoneAssumption DEF JoinFilterGraph
  <2>3. TypeOK'
    BY <1>1, <2>1 DEF JoinFilterGraph, IInv, TypeOK
  <2>4. PinInv'
    BY <1>1, <2>2 DEF JoinFilterGraph, IInv, PinInv
  <2>5. ExtInv'
    BY <1>1, <2>1, <2>2 DEF JoinFilterGraph, IInv, PinInv, ExtInv
  <2>6. LoadedTrackIsOfItsFile'
    BY <1>1 DEF JoinFilterGraph, IInv, LoadedTrackIsOfItsFile
  <2> QED
    BY <2>3, <2>4, <2>5, <2>6 DEF IInv
<1>2. CASE LeaveFilterGraph
  <2>1. TypeOK'
    <3>1. /\ media' = None /\ m_consumer' = FALSE /\ cache' = {} /\ renderer' = "absent"
          /\ m_bNotFirstPause' = FALSE /\ trayFiles' = None
      BY <1>2 DEF LeaveFilterGraph
    <3>2. UNCHANGED <<m_bActive, m_bNoExtFile, joins, m_bExternalFile, m_pin, upstream,
                      inFlight, m_bUnsupportedSub, m_track, m_bSrtHeaderDone, mapSubLine,
                      received, m_ExtSubFiles, m_extSubTrack, m_iCurExtSubTrack, m_wsSubType,
                      options, m_consumerLastId, crashed>>
      BY <1>2 DEF LeaveFilterGraph
    <3>3. TypeOK
      BY DEF IInv
    <3>4. /\ media' \in Media \cup {None} /\ m_consumer' \in BOOLEAN /\ cache' \subseteq Frame
          /\ renderer' \in {"absent", "free", "taken", "ours"}
          /\ m_bNotFirstPause' \in BOOLEAN /\ trayFiles' \in Seq(ExtSub) \cup {None}
      BY <3>1
    <3>5. /\ m_bActive' \in BOOLEAN /\ m_bNoExtFile' \in BOOLEAN /\ joins' \in Nat
          /\ m_bExternalFile' \in BOOLEAN /\ m_pin' \in Streams \cup {None}
          /\ upstream' \in Streams \cup {None} /\ inFlight' \in Sample \cup {None}
          /\ m_bUnsupportedSub' \in BOOLEAN /\ m_track' \in Track \cup {None}
          /\ m_bSrtHeaderDone' \in BOOLEAN /\ mapSubLine' \subseteq Entry
          /\ IsFiniteSet(mapSubLine') /\ received' \subseteq Sample
      BY <3>2, <3>3, Zenon DEF TypeOK
    <3>6. /\ m_ExtSubFiles' \in Seq(ExtSub) /\ m_extSubTrack' \in Seq(Files \cup {None})
          /\ m_iCurExtSubTrack' \in Nat \ {0} /\ m_wsSubType' \in SubTypes \cup {"none"}
          /\ options' \in [yuvMatrix : Matrices, isMovable : BOOLEAN]
          /\ m_consumerLastId' \in Nat
          /\ crashed' \in {"no", "embedded", "external", "sample"}
      BY <3>2, <3>3, Zenon DEF TypeOK
    <3> QED
      BY <3>4, <3>5, <3>6, Zenon DEF TypeOK
  <2>2. PinInv'
    <3>1. /\ m_pin = None /\ m_pin' = None /\ inFlight = None /\ inFlight' = None
          /\ ~m_consumer'
      BY <1>2 DEF LeaveFilterGraph, sampleVars
    <3> QED
      BY <3>1 DEF PinInv
  <2>3. ExtInv'
    BY <1>2 DEF LeaveFilterGraph, IInv, ExtInv
  <2>4. LoadedTrackIsOfItsFile'
    BY <1>2 DEF LeaveFilterGraph, IInv, LoadedTrackIsOfItsFile
  <2> QED
    BY <2>1, <2>2, <2>3, <2>4 DEF IInv
<1> QED
  BY <1>1, <1>2

LEMMA PinStepKeepsIInv ==
  ASSUME IInv,
         \/ \E s \in Streams : ChangeTypeInBand(s)
         \/ DisconnectPin
         \/ \E line \in Line : ReceiveCheck(line)
  PROVE  IInv'
<1> USE DEF lifeVars, trackVars, extVars, infoVars, consumerVars
<1>1. ASSUME NEW s \in Streams, ChangeTypeInBand(s) PROVE IInv'
  BY <1>1
     DEF ChangeTypeInBand, IInv, TypeOK, PinInv, ExtInv, LoadedTrackIsOfItsFile
<1>2. CASE DisconnectPin
  BY <1>2 DEF DisconnectPin, IInv, TypeOK, PinInv, ExtInv, LoadedTrackIsOfItsFile
<1>3. ASSUME NEW line \in Line, ReceiveCheck(line) PROVE IInv'
  <2>1. media # None /\ inFlight' \in Sample
    BY <1>3 DEF ReceiveCheck, IInv, PinInv, Sample
  <2> QED
    BY <1>3, <2>1
       DEF ReceiveCheck, IInv, TypeOK, PinInv, ExtInv, LoadedTrackIsOfItsFile
<1> QED
  BY <1>1, <1>2, <1>3

LEMMA PauseKeepsIInv ==
  ASSUME IInv, NEW readable \in BOOLEAN, Pause(readable)
  PROVE  IInv'
<1>1. CASE FirstPause(readable)
  BY <1>1, FirstPauseKeepsIInv
<1>2. CASE ~FirstPause(readable)
  BY <1>2
     DEF Pause, sampleVars, trackVars, extVars, infoVars, consumerVars,
         IInv, TypeOK, PinInv, ExtInv, LoadedTrackIsOfItsFile
<1> QED
  BY <1>1, <1>2

LEMMA StopOrDisconnectKeepsIInv ==
  ASSUME IInv, Stop \/ Disconnect
  PROVE  IInv'
<1> USE DEF lifeVars, sampleVars, trackVars, extVars, infoVars, consumerVars
<1>1. CASE Stop
  <2>1. TypeOK'
    <3>1. m_bActive' \in BOOLEAN
      BY <1>1 DEF Stop
    <3>2. /\ UNCHANGED <<media, m_bNotFirstPause, m_bNoExtFile, joins>>
          /\ UNCHANGED <<m_bExternalFile, m_pin, sampleVars, m_bUnsupportedSub>>
          /\ UNCHANGED <<trackVars, extVars, infoVars, trayFiles>>
          /\ UNCHANGED <<consumerVars, crashed>>
      BY <1>1 DEF Stop
    <3> QED
      BY <3>1, <3>2 DEF IInv, TypeOK
  <2>2. PinInv'
    BY <1>1 DEF Stop, IInv, PinInv
  <2>3. ExtInv'
    BY <1>1 DEF Stop, IInv, ExtInv
  <2>4. LoadedTrackIsOfItsFile'
    BY <1>1 DEF Stop, IInv, LoadedTrackIsOfItsFile
  <2> QED
    BY <2>1, <2>2, <2>3, <2>4 DEF IInv
<1>2. CASE Disconnect
  <2>1. TypeOK'
    <3>1. /\ m_consumer' \in BOOLEAN
          /\ renderer' \in {"absent", "free", "taken", "ours"}
          /\ cache' \subseteq Frame
      BY <1>2 DEF Disconnect
    <3>2. /\ UNCHANGED <<lifeVars, m_bExternalFile, m_pin, sampleVars>>
          /\ UNCHANGED <<m_bUnsupportedSub, trackVars, extVars, infoVars>>
          /\ UNCHANGED <<trayFiles, m_consumerLastId, crashed>>
      BY <1>2 DEF Disconnect
    <3> QED
      BY <3>1, <3>2 DEF IInv, TypeOK
  <2>2. PinInv'
    BY <1>2 DEF Disconnect, IInv, PinInv
  <2>3. ExtInv'
    BY <1>2 DEF Disconnect, IInv, ExtInv
  <2>4. LoadedTrackIsOfItsFile'
    BY <1>2 DEF Disconnect, IInv, LoadedTrackIsOfItsFile
  <2> QED
    BY <2>1, <2>2, <2>3, <2>4 DEF IInv
<1> QED
  BY <1>1, <1>2

\* In every life of the filter, the types hold, no sample meets a null track,
\* the two vectors of external subtitles agree, and the current file is loaded
\* before a consumer is connected.
THEOREM Invariance == Spec => []IInv
<1>1. ASSUME Init PROVE IInv
  <2>1. TypeOK
    <3>1. IsFiniteSet({})
      BY FS_EmptySet
    <3>2. <<>> \in Seq(ExtSub) /\ <<>> \in Seq(Files \cup {None})
      OBVIOUS
    <3>3. options \in [yuvMatrix : Matrices, isMovable : BOOLEAN]
      BY <1>1 DEF Init, Matrices
    <3>4. {} \subseteq Entry /\ {} \subseteq Sample /\ {} \subseteq Frame
      OBVIOUS
    <3>5. /\ media \in Media \cup {None} /\ m_pin \in Streams \cup {None}
          /\ upstream \in Streams \cup {None} /\ inFlight \in Sample \cup {None}
          /\ m_track \in Track \cup {None} /\ trayFiles \in Seq(ExtSub) \cup {None}
      BY <1>1 DEF Init
    <3>6. /\ m_bActive \in BOOLEAN /\ m_bNotFirstPause \in BOOLEAN
          /\ m_bNoExtFile \in BOOLEAN /\ m_bExternalFile \in BOOLEAN
          /\ m_bUnsupportedSub \in BOOLEAN /\ m_bSrtHeaderDone \in BOOLEAN
          /\ m_consumer \in BOOLEAN
      BY <1>1 DEF Init
    <3>7. /\ joins \in Nat /\ m_iCurExtSubTrack \in Nat \ {0}
          /\ m_consumerLastId \in Nat
      BY <1>1 DEF Init
    <3>8. /\ m_wsSubType \in SubTypes \cup {"none"}
          /\ renderer \in {"absent", "free", "taken", "ours"}
          /\ crashed \in {"no", "embedded", "external"}
      BY <1>1 DEF Init
    <3>9. /\ mapSubLine \subseteq Entry /\ IsFiniteSet(mapSubLine)
          /\ received \subseteq Sample /\ cache \subseteq Frame
          /\ m_ExtSubFiles \in Seq(ExtSub) /\ m_extSubTrack \in Seq(Files \cup {None})
      BY <1>1, <3>1, <3>2, <3>4 DEF Init
    <3> QED
      BY <3>3, <3>5, <3>6, <3>7, <3>8, <3>9 DEF TypeOK
  <2>2. PinInv /\ ExtInv /\ LoadedTrackIsOfItsFile
    BY <1>1, NoneAssumption DEF Init, PinInv, ExtInv, LoadedTrackIsOfItsFile
  <2> QED
    BY <2>1, <2>2 DEF IInv
<1>2. IInv /\ [Next]_vars => IInv'
  <2> SUFFICES ASSUME IInv, [Next]_vars PROVE IInv'
    OBVIOUS
  <2>1. ASSUME NEW s \in Streams, ReceiveConnection(s) PROVE IInv'
    BY <2>1, ReceiveConnectionKeepsIInv
  <2>2. CASE ReceiveLocked
    BY <2>2, ReceiveLockedKeepsIInv
  <2>3. ASSUME NEW readable \in BOOLEAN, Pause(readable) PROVE IInv'
    BY <2>3, PauseKeepsIInv
  <2>4. ASSUME NEW i \in 1 .. Len(m_ExtSubFiles), NEW readable \in BOOLEAN,
               SetCurExternalSub(i, readable)
        PROVE  IInv'
    BY <2>4, SetCurExternalSubKeepsIInv
  <2>5. CASE RequestFrame
    BY <2>5, RequestFrameKeepsIInv
  <2>6. CASE UNCHANGED vars
    BY <2>6
       DEF vars, lifeVars, sampleVars, trackVars, extVars, infoVars, consumerVars,
           IInv, TypeOK, PinInv, ExtInv, LoadedTrackIsOfItsFile
  <2> QED
    BY <2>1, <2>2, <2>3, <2>4, <2>5, <2>6, GraphStepKeepsIInv, PinStepKeepsIInv,
       StopOrDisconnectKeepsIInv
       DEF Next
<1> QED
  BY <1>1, <1>2, PTL DEF Spec

-----------------------------------------------------------------------------
(* What follows from the invariant.                                        *)

THEOREM TypeCorrect == Spec => []TypeOK
<1>1. IInv => TypeOK
  BY DEF IInv
<1> QED
  BY <1>1, Invariance, PTL

\* Every file that was loaded names a track of its own, read from that file.
THEOREM TracksAreOfTheirFiles == Spec => []LoadedTrackIsOfItsFile
<1>1. IInv => LoadedTrackIsOfItsFile
  BY DEF IInv
<1> QED
  BY <1>1, Invariance, PTL

\* RequestFrame never subscripts a vector of external subtitles out of range.
THEOREM ExternalSubtitlesRenderable == Spec => []ExternalRenderable
<1>1. IInv => ExternalRenderable
  BY DEF IInv, ExtInv, LoadedTrackIsOfItsFile, ExternalRenderable
<1> QED
  BY <1>1, Invariance, PTL

-----------------------------------------------------------------------------
(* The consumer's frames.                                                  *)

\* A filter without a consumer has no frames out.
FrameInv ==
  /\ ~m_consumer => cache = {}
  /\ NoStaleFrames

\* Most operations leave the rendered track alone: they change none of the
\* variables RenderedSource reads, and add no frame.
LEMMA SourceKept ==
  ASSUME FrameInv, cache' = cache, m_consumer' = m_consumer,
         UNCHANGED <<m_bExternalFile, m_track, extVars>>
  PROVE  FrameInv'
BY DEF FrameInv, NoStaleFrames, RenderedSource, extVars

\* A consumer that has no frame of this provider has no stale one.
LEMMA NothingCached == cache' = {} => FrameInv'
BY DEF FrameInv, NoStaleFrames

LEMMA JoinOrLeaveKeepsFrameInv ==
  ASSUME IInv, FrameInv,
         \/ \E name \in GraphNames, md \in Media, rend \in {"absent", "free", "taken"} :
              JoinFilterGraph(name, md, rend)
         \/ LeaveFilterGraph
  PROVE  FrameInv'
<1>1. CASE LeaveFilterGraph
  BY <1>1, NothingCached DEF LeaveFilterGraph
<1>2. ASSUME NEW name \in GraphNames, NEW md \in Media,
             NEW rend \in {"absent", "free", "taken"}, JoinFilterGraph(name, md, rend)
      PROVE  FrameInv'
  <2>1. ~m_consumer
    BY <1>2 DEF JoinFilterGraph, IInv, PinInv
  <2> QED
    BY <1>2, <2>1, NothingCached DEF JoinFilterGraph, FrameInv
<1> QED
  BY <1>1, <1>2

\* SetMediaType clears the consumer when there is a track; without one, no
\* frame was rendered.
LEMMA ReceiveConnectionKeepsFrameInv ==
  ASSUME IInv, FrameInv, NEW s \in Streams, ReceiveConnection(s)
  PROVE  FrameInv'
<1>1. Flush /\ ~m_bExternalFile
  BY DEF ReceiveConnection, SetMediaType
<1>2. CASE m_track # None /\ m_consumer
  BY <1>1, <1>2, NothingCached DEF Flush
<1>3. CASE m_track = None \/ ~m_consumer
  <2>1. cache' = cache
    BY <1>1, <1>3 DEF Flush
  <2>2. cache = {}
    <3>1. CASE ~m_consumer
      BY <3>1 DEF FrameInv
    <3>2. CASE m_track = None
      <4>1. RenderedSource = None
        BY <1>1, <3>2 DEF RenderedSource
      <4>2. \A f \in cache : f.source = None /\ f.source \in Streams \cup Files
        BY <4>1 DEF FrameInv, NoStaleFrames, IInv, TypeOK, Frame
      <4> QED
        BY <4>2, NoneAssumption
    <3> QED
      BY <1>3, <3>1, <3>2
  <2> QED
    BY <2>1, <2>2, NothingCached
<1> QED
  BY <1>2, <1>3

\* A sample adds events to the track; it stays the track it is.
LEMMA ReceiveLockedKeepsFrameInv ==
  ASSUME IInv, FrameInv, ReceiveLocked
  PROVE  FrameInv'
<1>1. m_track # None /\ ~m_bExternalFile
  BY NoneAssumption DEF ReceiveLocked, IInv, PinInv
<1>2. m_track' # None /\ m_track'.stream = m_track.stream
  BY ReceiveLockedKeepsTrack, NoneAssumption
<1>3. UNCHANGED <<m_bExternalFile, extVars, m_consumer, cache>>
  BY DEF ReceiveLocked, consumerVars
<1>4. RenderedSource' = RenderedSource
  BY <1>1, <1>2, <1>3 DEF RenderedSource
<1> QED
  BY <1>3, <1>4 DEF FrameInv, NoStaleFrames

LEMMA PauseKeepsFrameInv ==
  ASSUME IInv, FrameInv, NEW readable \in BOOLEAN, Pause(readable)
  PROVE  FrameInv'
<1>1. CASE FirstPause(readable)
  <2>1. ~m_consumer
    BY <1>1 DEF FirstPause, IInv, ExtInv
  <2>2. cache' = cache
    BY <1>1 DEF FirstPause, ConnectToConsumer, consumerVars
  <2> QED
    BY <2>1, <2>2, NothingCached DEF FrameInv
<1>2. CASE ~FirstPause(readable)
  BY <1>2, SourceKept DEF Pause, trackVars, consumerVars
<1> QED
  BY <1>1, <1>2

\* The frame that is added was rendered from the current track.
LEMMA RequestFrameKeepsFrameInv ==
  ASSUME FrameInv, RequestFrame
  PROVE  FrameInv'
<1>1. RenderedSource' = RenderedSource
  BY DEF RequestFrame, RenderedSource, trackVars, extVars
<1>2. cache' \subseteq cache \cup {[id |-> m_consumerLastId, source |-> RenderedSource]}
  BY DEF RequestFrame
<1>3. \A f \in cache' : f.source = RenderedSource
  BY <1>2 DEF FrameInv, NoStaleFrames
<1> QED
  BY <1>1, <1>3 DEF RequestFrame, FrameInv, NoStaleFrames

LEMMA SetCurExternalSubKeepsFrameInv ==
  ASSUME FrameInv, NEW i, NEW readable, SetCurExternalSub(i, readable)
  PROVE  FrameInv'
BY NothingCached DEF SetCurExternalSub, FrameInv

\* A frame the consumer holds was rendered from the track that is shown now, in
\* every life of the filter and for every sequence of connections, samples and
\* switches.
THEOREM FramesAreNotStale == Spec => []NoStaleFrames
<1>1. Init => FrameInv
  BY DEF Init, FrameInv, NoStaleFrames
<1>2. IInv /\ FrameInv /\ [Next]_vars => FrameInv'
  <2> SUFFICES ASSUME IInv, FrameInv, [Next]_vars PROVE FrameInv'
    OBVIOUS
  <2>1. ASSUME NEW s \in Streams, ReceiveConnection(s) PROVE FrameInv'
    BY <2>1, ReceiveConnectionKeepsFrameInv
  <2>2. ASSUME NEW s \in Streams, ChangeTypeInBand(s) PROVE FrameInv'
    BY <2>2, SourceKept DEF ChangeTypeInBand, trackVars, consumerVars
  <2>3. CASE DisconnectPin
    BY <2>3, SourceKept DEF DisconnectPin, trackVars, consumerVars
  <2>4. ASSUME NEW line \in Line, ReceiveCheck(line) PROVE FrameInv'
    BY <2>4, SourceKept DEF ReceiveCheck, trackVars, consumerVars
  <2>5. CASE ReceiveLocked
    BY <2>5, ReceiveLockedKeepsFrameInv
  <2>6. ASSUME NEW readable \in BOOLEAN, Pause(readable) PROVE FrameInv'
    BY <2>6, PauseKeepsFrameInv
  <2>7. CASE Stop
    BY <2>7, SourceKept DEF Stop, trackVars, consumerVars
  <2>8. ASSUME NEW i, NEW readable, SetCurExternalSub(i, readable) PROVE FrameInv'
    BY <2>8, SetCurExternalSubKeepsFrameInv
  <2>9. CASE RequestFrame
    BY <2>9, RequestFrameKeepsFrameInv
  <2>10. CASE Disconnect
    BY <2>10, NothingCached DEF Disconnect
  <2>11. CASE UNCHANGED vars
    BY <2>11, SourceKept DEF vars, trackVars, consumerVars
  <2> QED
    BY <2>1, <2>2, <2>3, <2>4, <2>5, <2>6, <2>7, <2>8, <2>9, <2>10, <2>11,
       JoinOrLeaveKeepsFrameInv
       DEF Next
<1>3. FrameInv => NoStaleFrames
  BY DEF FrameInv
<1> QED
  BY <1>1, <1>2, <1>3, Invariance, PTL DEF Spec

-----------------------------------------------------------------------------
(* The samples of a stream.                                                *)

\* While the pin is connected for a stream, upstream sends samples of it and
\* the track is the one made for it.  A sample under way that is of another
\* stream was under way when the track was made, so nothing was received since.
StreamInv ==
  /\ m_pin # None => upstream = m_pin /\ m_track.stream = m_pin
  /\ inFlight # None /\ inFlight.stream # m_track.stream => received = {}
  /\ UpstreamDrains /\ inFlight # None => m_pin # None /\ inFlight.stream = m_pin
  /\ LinesOfTheirStream

\* Most operations touch neither the pin nor the track.
LEMMA StreamKept ==
  ASSUME StreamInv, UNCHANGED <<m_pin, sampleVars, m_track, received>>
  PROVE  StreamInv'
BY DEF StreamInv, LinesOfTheirStream, Strays, sampleVars

\* A track for which nothing was received has no strays.
LEMMA NothingReceived ==
  ASSUME received = {} PROVE LinesOfTheirStream
BY DEF LinesOfTheirStream, Strays

\* An external subtitle is selected only when no pin is connected; what was
\* received for a track goes with the track.
LEMMA SelectKeepsStreamInv ==
  ASSUME IInv, StreamInv, m_bExternalFile, UNCHANGED <<m_pin, sampleVars>>,
         NEW files, NEW i, NEW readable, SelectExternalSub(files, i, readable)
  PROVE  StreamInv'
<1>1. m_pin = None /\ inFlight = None
  BY DEF IInv, PinInv
<1>2. received' = {} \/ UNCHANGED <<m_track, received>>
  BY DEF SelectExternalSub
<1>3. LinesOfTheirStream'
  BY <1>2 DEF StreamInv, LinesOfTheirStream, Strays
<1> QED
  BY <1>1, <1>3 DEF StreamInv, sampleVars

LEMMA ReceiveConnectionKeepsStreamInv ==
  ASSUME StreamInv, NEW s \in Streams, ReceiveConnection(s)
  PROVE  StreamInv'
<1>1. m_pin' = s /\ upstream' = s /\ inFlight' = inFlight /\ m_pin = None
  BY DEF ReceiveConnection
<1>2. m_track'.stream = s /\ received' = {}
  BY DEF ReceiveConnection, SetMediaType, NewTrack
<1>3. LinesOfTheirStream'
  BY <1>2 DEF LinesOfTheirStream, Strays
<1> QED
  BY <1>1, <1>2, <1>3 DEF StreamInv

LEMMA ReceiveLockedKeepsStreamInv ==
  ASSUME IInv, StreamInv, ReceiveLocked
  PROVE  StreamInv'
<1>1. m_track # None /\ m_track' # None /\ m_track'.stream = m_track.stream
  BY ReceiveLockedKeepsTrack, NoneAssumption DEF ReceiveLocked, IInv, PinInv
<1>2. /\ inFlight # None /\ inFlight' = None
      /\ received' \in {received, received \cup {inFlight}}
      /\ UNCHANGED <<m_pin, upstream>>
  BY DEF ReceiveLocked, ReceiveSrt, ReceiveAss
<1>3. LinesOfTheirStream'
  <2>1. CASE inFlight.stream = m_track.stream
    <3>1. Strays' = Strays
      BY <1>1, <1>2, <2>1 DEF Strays
    <3> QED
      BY <3>1 DEF StreamInv, LinesOfTheirStream
  <2>2. CASE inFlight.stream # m_track.stream
    <3>1. ~UpstreamDrains
      BY <1>2, <2>2 DEF StreamInv
    <3>2. \A r \in Strays' : r = inFlight
      BY <1>2, <2>2 DEF StreamInv, Strays
    <3> QED
      BY <3>1, <3>2 DEF LinesOfTheirStream
  <2> QED
    BY <2>1, <2>2
<1> QED
  BY <1>1, <1>2, <1>3 DEF StreamInv

LEMMA PauseKeepsStreamInv ==
  ASSUME IInv, StreamInv, NEW readable \in BOOLEAN, Pause(readable)
  PROVE  StreamInv'
<1>1. UNCHANGED <<m_pin, sampleVars>>
  BY DEF Pause
<1>2. \/ m_bExternalFile /\ LoadExternalFile(readable)
      \/ UNCHANGED trackVars
  BY DEF Pause, FirstPause
<1>3. CASE m_bExternalFile /\ LoadExternalFile(readable)
  BY <1>1, <1>3, SelectKeepsStreamInv DEF LoadExternalFile
<1>4. CASE UNCHANGED trackVars
  BY <1>1, <1>4, StreamKept DEF trackVars
<1> QED
  BY <1>2, <1>3, <1>4

\* An external subtitle is there to be selected only in external mode.
LEMMA SetCurExternalSubKeepsStreamInv ==
  ASSUME IInv, StreamInv, NEW i \in 1 .. Len(m_ExtSubFiles), NEW readable \in BOOLEAN,
         SetCurExternalSub(i, readable)
  PROVE  StreamInv'
<1>1. m_ExtSubFiles # <<>>
  OBVIOUS
<1>2. m_bExternalFile
  BY <1>1 DEF IInv, ExtInv
<1> QED
  BY <1>2, SelectKeepsStreamInv DEF SetCurExternalSub

\* A sample that passes the flag test is of the stream the pin is connected for.
LEMMA PinStepKeepsStreamInv ==
  ASSUME IInv, StreamInv,
         DisconnectPin \/ \E line \in Line : ReceiveCheck(line)
  PROVE  StreamInv'
<1>1. CASE DisconnectPin
  BY <1>1 DEF DisconnectPin, trackVars, StreamInv, LinesOfTheirStream, Strays
<1>2. ASSUME NEW line \in Line, ReceiveCheck(line) PROVE StreamInv'
  <2>1. m_pin # None /\ inFlight'.stream = upstream
    BY <1>2 DEF ReceiveCheck
  <2> QED
    BY <1>2, <2>1 DEF ReceiveCheck, trackVars, StreamInv, LinesOfTheirStream, Strays
<1> QED
  BY <1>1, <1>2

\* With an upstream filter that changes the type of its stream by a connection
\* only, a track gets at most one sample that is not of its stream: one that had
\* passed the flag test when the track was made.  It gets none if upstream waits
\* for its samples before it disconnects.
THEOREM SamplesGoToTheirTrack ==
  ASSUME ~InBandTypeChange
  PROVE  Spec => []LinesOfTheirStream
<1>1. Init => StreamInv
  BY NothingReceived DEF Init, StreamInv
<1>2. IInv /\ StreamInv /\ [Next]_vars => StreamInv'
  <2> SUFFICES ASSUME IInv, StreamInv, [Next]_vars PROVE StreamInv'
    OBVIOUS
  <2>1. ASSUME NEW name \in GraphNames, NEW md \in Media,
               NEW rend \in {"absent", "free", "taken"}, JoinFilterGraph(name, md, rend)
        PROVE  StreamInv'
    BY <2>1, StreamKept DEF JoinFilterGraph, trackVars
  <2>2. CASE LeaveFilterGraph
    BY <2>2, StreamKept DEF LeaveFilterGraph, trackVars
  <2>3. ASSUME NEW s \in Streams, ReceiveConnection(s) PROVE StreamInv'
    BY <2>3, ReceiveConnectionKeepsStreamInv
  <2>4. ASSUME NEW s \in Streams, ChangeTypeInBand(s) PROVE FALSE
    BY <2>4 DEF ChangeTypeInBand
  <2>5. CASE ReceiveLocked
    BY <2>5, ReceiveLockedKeepsStreamInv
  <2>6. ASSUME NEW readable \in BOOLEAN, Pause(readable) PROVE StreamInv'
    BY <2>6, PauseKeepsStreamInv
  <2>7. CASE Stop
    BY <2>7, StreamKept DEF Stop, trackVars
  <2>8. ASSUME NEW i \in 1 .. Len(m_ExtSubFiles), NEW readable \in BOOLEAN,
               SetCurExternalSub(i, readable)
        PROVE  StreamInv'
    BY <2>8, SetCurExternalSubKeepsStreamInv
  <2>9. CASE RequestFrame
    BY <2>9, StreamKept DEF RequestFrame, trackVars
  <2>10. CASE Disconnect
    BY <2>10, StreamKept DEF Disconnect, trackVars
  <2>11. CASE UNCHANGED vars
    BY <2>11, StreamKept DEF vars, trackVars
  <2> QED
    BY <2>1, <2>2, <2>3, <2>4, <2>5, <2>6, <2>7, <2>8, <2>9, <2>10, <2>11,
       PinStepKeepsStreamInv
       DEF Next
<1>3. StreamInv => LinesOfTheirStream
  BY DEF StreamInv
<1> QED
  BY <1>1, <1>2, <1>3, Invariance, PTL DEF Spec

-----------------------------------------------------------------------------
(* What the filter tells about itself.                                     *)

StreamOptions(s) ==
  /\ StreamType[s] = "ASS" => options.yuvMatrix = FoundInHeader(s)
  /\ StreamType[s] # "ASS" => options.yuvMatrix = "None"
  /\ StreamType[s] \in TextTypes => options.isMovable = (StreamType[s] = "SRT")

FileOptions(sub) ==
  options = [yuvMatrix |-> sub.yuvMatrix, isMovable |-> FileType[sub.file] # "ASS"]

\* What ExtractYuvMatrix says of a file that can be opened.
FoundInFile(file) ==
  IF FileType[file] = "ASS" /\ FileMatrix[file] # "absent" THEN FileMatrix[file] ELSE "None"

\* A file's matrix is looked for when the file is read, which is once; it is known
\* for every file whose track could be read, and that is every SRT file.
FilesRead(files, tracks) ==
  \A i \in 1 .. Len(files) :
    /\ files[i].vecPos = 0 => files[i].yuvMatrix = "None"
    /\ files[i].vecPos # 0 =>
         IF tracks[files[i].vecPos] = None
         THEN FileType[files[i].file] = "ASS"
         ELSE files[i].yuvMatrix = FoundInFile(files[i].file)

\* The options are those of the embedded track while there is one, and an external
\* subtitle, whose options replace them, leaves none.
OptionsInv ==
  /\ m_ExtSubFiles # <<>> =>
       m_track = None /\ FileOptions(m_ExtSubFiles[m_iCurExtSubTrack])
  /\ m_track # None => StreamOptions(m_track.stream)
  /\ FilesRead(m_ExtSubFiles, m_extSubTrack)

\* What is said of external subtitles and of the embedded track covers what is
\* rendered.
LEMMA OptionsMatch == IInv /\ OptionsInv => OptionsMatchTrack
<1> SUFFICES ASSUME IInv, OptionsInv, m_consumer, RenderedSource # None
             PROVE  OptionsMatchTrack
  BY DEF OptionsMatchTrack
<1>1. CASE m_bExternalFile
  <2> DEFINE cur == m_ExtSubFiles[m_iCurExtSubTrack]
  <2>1. /\ m_iCurExtSubTrack \in 1 .. Len(m_ExtSubFiles)
        /\ m_ExtSubFiles # <<>>
        /\ cur.vecPos # 0
    BY <1>1 DEF IInv, ExtInv
  <2>2. cur \in ExtSub
    BY <2>1 DEF IInv, TypeOK
  <2>3. RenderedSource = m_extSubTrack[cur.vecPos] /\ RenderedSource = cur.file
    BY <1>1, <2>1 DEF RenderedSource, IInv, LoadedTrackIsOfItsFile
  <2>4. FileOptions(cur)
    BY <2>1 DEF OptionsInv
  <2>5. cur.yuvMatrix = FoundInFile(cur.file)
    BY <2>1, <2>3 DEF OptionsInv, FilesRead
  <2>6. FileType[cur.file] \in TextTypes
    BY <2>2, FilterAssumption DEF ExtSub
  <2> QED
    BY <1>1, <2>3, <2>4, <2>5, <2>6
       DEF OptionsMatchTrack, FileOptions, TextTypes, FoundInFile, MatrixPromised, MatrixMissed
<1>2. CASE ~m_bExternalFile
  <2>1. m_track # None /\ RenderedSource = m_track.stream
    BY <1>2 DEF RenderedSource
  <2>2. StreamOptions(RenderedSource)
    BY <2>1 DEF OptionsInv
  <2> QED
    BY <1>2, <2>2
       DEF OptionsMatchTrack, StreamOptions, FoundInHeader, MatrixPromised, MatrixMissed
<1> QED
  BY <1>1, <1>2

\* The matrix of a file that is loaded is read with it.
LEMMA SelectReadsMatrix ==
  ASSUME TypeOK, NEW files \in Seq(ExtSub), Agree(files, m_extSubTrack),
         FilesRead(files, m_extSubTrack),
         NEW i \in 1 .. Len(files), NEW readable \in BOOLEAN,
         SelectExternalSub(files, i, readable)
  PROVE  FilesRead(m_ExtSubFiles', m_extSubTrack')
<1>1. CASE files[i].vecPos # 0
  BY <1>1 DEF SelectExternalSub
<1>2. CASE files[i].vecPos = 0
  <2> DEFINE n == Len(m_extSubTrack)
             file == files[i].file
             matrix == MatrixRead(files[i], readable)
             track == TrackRead(file, readable)
  <2>1. /\ Len(m_ExtSubFiles') = Len(files)
        /\ m_ExtSubFiles'[i] = [file |-> file, yuvMatrix |-> matrix, vecPos |-> n + 1]
        /\ \A k \in 1 .. Len(files) : k # i => m_ExtSubFiles'[k] = files[k]
        /\ m_extSubTrack'[n + 1] = track
        /\ \A k \in 1 .. n : m_extSubTrack'[k] = m_extSubTrack[k]
    BY <1>2, SelectLoads, ZenonT(30)
  <2>2. files[i].yuvMatrix = "None"
    BY <1>2 DEF FilesRead
  <2>3. IF track = None THEN FileType[file] = "ASS" ELSE matrix = FoundInFile(file)
    <3>1. files[i] \in ExtSub
      OBVIOUS
    <3>2. file # None
      BY <3>1, NoneAssumption DEF ExtSub
    <3>3. CASE FileType[file] # "ASS"
      <4>1. matrix = "None" /\ FoundInFile(file) = "None"
        BY <2>2, <3>3 DEF MatrixRead, FoundInFile
      <4>2. track # None
        BY <3>2, <3>3 DEF TrackRead
      <4> QED
        BY <4>1, <4>2
    <3>4. CASE FileType[file] = "ASS" /\ readable
      <4>1. matrix = FoundInFile(file)
        BY <3>4 DEF MatrixRead, FoundInFile
      <4>2. track # None
        BY <3>2, <3>4 DEF TrackRead
      <4> QED
        BY <4>1, <4>2
    <3>5. CASE FileType[file] = "ASS" /\ ~readable
      BY <3>5 DEF TrackRead
    <3> QED
      BY <3>3, <3>4, <3>5
  <2>4. n + 1 # 0
    BY DEF TypeOK
  <2> HIDE DEF n, track, matrix, file
  <2>5. ASSUME NEW k \in 1 .. Len(files), k # i
        PROVE  files[k].vecPos # 0 =>
                 m_extSubTrack'[files[k].vecPos] = m_extSubTrack[files[k].vecPos]
    BY <2>1 DEF Agree, n
  <2>6. \A k \in 1 .. Len(files) :
          /\ m_ExtSubFiles'[k].vecPos = 0 => m_ExtSubFiles'[k].yuvMatrix = "None"
          /\ m_ExtSubFiles'[k].vecPos # 0 =>
               IF m_extSubTrack'[m_ExtSubFiles'[k].vecPos] = None
               THEN FileType[m_ExtSubFiles'[k].file] = "ASS"
               ELSE m_ExtSubFiles'[k].yuvMatrix = FoundInFile(m_ExtSubFiles'[k].file)
    <3> SUFFICES ASSUME NEW k \in 1 .. Len(files)
                 PROVE
          /\ m_ExtSubFiles'[k].vecPos = 0 => m_ExtSubFiles'[k].yuvMatrix = "None"
          /\ m_ExtSubFiles'[k].vecPos # 0 =>
               IF m_extSubTrack'[m_ExtSubFiles'[k].vecPos] = None
               THEN FileType[m_ExtSubFiles'[k].file] = "ASS"
               ELSE m_ExtSubFiles'[k].yuvMatrix = FoundInFile(m_ExtSubFiles'[k].file)
      OBVIOUS
    <3>1. CASE k = i
      BY <2>1, <2>3, <2>4, <3>1
    <3>2. CASE k # i
      BY <2>1, <2>5, <3>2 DEF FilesRead
    <3> QED
      BY <3>1, <3>2
  <2> QED
    BY <2>1, <2>6 DEF FilesRead
<1> QED
  BY <1>1, <1>2

\* An external subtitle that is selected leaves its options and no embedded track:
\* the first one is read into m_track, which is then moved away.
LEMMA SelectKeepsOptionsInv ==
  ASSUME IInv, NEW files \in Seq(ExtSub), Agree(files, m_extSubTrack),
         FilesRead(files, m_extSubTrack),
         NEW i \in 1 .. Len(files), NEW readable \in BOOLEAN,
         SelectExternalSub(files, i, readable),
         files[i].vecPos = 0 \/ m_track = None
  PROVE  OptionsInv'
<1>1. FilesRead(m_ExtSubFiles', m_extSubTrack')
  BY SelectReadsMatrix DEF IInv
<1>2. m_track' = None /\ m_iCurExtSubTrack' = i
  BY DEF SelectExternalSub
<1>3. m_ExtSubFiles'[i].file = files[i].file
  BY SelectAgrees DEF IInv
<1>4. FileOptions(m_ExtSubFiles[i])'
  BY <1>3 DEF SelectExternalSub, FileOptions
<1> QED
  BY <1>1, <1>2, <1>4 DEF OptionsInv

LEMMA SetCurExternalSubKeepsOptionsInv ==
  ASSUME IInv, OptionsInv, NEW i \in 1 .. Len(m_ExtSubFiles), NEW readable \in BOOLEAN,
         SetCurExternalSub(i, readable)
  PROVE  OptionsInv'
<1>1. m_ExtSubFiles \in Seq(ExtSub) /\ Agree(m_ExtSubFiles, m_extSubTrack)
  BY DEF IInv, TypeOK, LoadedTrackIsOfItsFile, Agree
<1>2. m_track = None /\ FilesRead(m_ExtSubFiles, m_extSubTrack)
  <2>1. m_ExtSubFiles # <<>>
    BY <1>1
  <2> QED
    BY <2>1 DEF OptionsInv
<1>3. SelectExternalSub(m_ExtSubFiles, i, readable)
  BY DEF SetCurExternalSub
<1> QED
  BY <1>1, <1>2, <1>3, SelectKeepsOptionsInv

\* The file LoadExternalFile selects is a new one unless there were some before.
LEMMA LoadKeepsOptionsInv ==
  ASSUME IInv, OptionsInv, media # None, MediaFiles[media] # <<>>,
         NEW readable \in BOOLEAN, LoadExternalFile(readable)
  PROVE  OptionsInv'
<1> DEFINE i == m_iCurExtSubTrack
<1>1. PICK files : files = m_ExtSubFiles \o FoundFiles
  OBVIOUS
<1>2. SelectExternalSub(files, i, readable)
  BY <1>1 DEF LoadExternalFile
<1>3. /\ files \in Seq(ExtSub)
      /\ Len(files) = Len(m_ExtSubFiles) + Len(MediaFiles[media])
      /\ \A k \in 1 .. Len(files) :
           \/ k \in 1 .. Len(m_ExtSubFiles) /\ files[k] = m_ExtSubFiles[k]
           \/ files[k].vecPos = 0 /\ files[k].yuvMatrix = "None"
      /\ Agree(files, m_extSubTrack)
  BY <1>1, FoundFilesAgree DEF IInv
<1>4. Len(m_ExtSubFiles) \in Nat /\ Len(MediaFiles[media]) \in Nat \ {0}
  <2>1. MediaFiles[media] \in Seq(Files) /\ m_ExtSubFiles \in Seq(ExtSub)
    BY FilterAssumption DEF IInv, TypeOK
  <2> QED
    BY <2>1
<1>5. i \in 1 .. Len(files)
  BY <1>3, <1>4 DEF IInv, ExtInv
<1>6. files[i].vecPos = 0 \/ m_track = None
  <2>1. CASE m_ExtSubFiles = <<>>
    BY <1>3, <1>5, <2>1
  <2>2. CASE m_ExtSubFiles # <<>>
    BY <2>2 DEF OptionsInv
  <2> QED
    BY <2>1, <2>2
<1>7. FilesRead(files, m_extSubTrack)
  BY <1>3 DEF OptionsInv, FilesRead
<1> QED
  BY <1>2, <1>3, <1>5, <1>6, <1>7, SelectKeepsOptionsInv

\* The pin is connected only when there are no external subtitles.
LEMMA ReceiveConnectionKeepsOptionsInv ==
  ASSUME IInv, OptionsInv, NEW s \in Streams, ReceiveConnection(s)
  PROVE  OptionsInv'
<1>1. m_ExtSubFiles = <<>> /\ UNCHANGED extVars
  BY DEF ReceiveConnection, IInv, ExtInv
<1>2. m_track'.stream = s /\ options' = MediaOptions(s)
  BY DEF ReceiveConnection, SetMediaType, NewTrack
<1>3. StreamOptions(s)'
  BY <1>2 DEF StreamOptions, MediaOptions, FoundInHeader, TextTypes
<1>4. StreamOptions(m_track.stream)'
  BY <1>2, <1>3 DEF StreamOptions
<1> QED
  BY <1>1, <1>4 DEF OptionsInv, FilesRead, extVars

LEMMA ReceiveLockedKeepsOptionsInv ==
  ASSUME IInv, OptionsInv, ReceiveLocked
  PROVE  OptionsInv'
<1>1. m_track # None /\ m_track'.stream = m_track.stream
  BY ReceiveLockedKeepsTrack, NoneAssumption DEF ReceiveLocked, IInv, PinInv
<1>2. UNCHANGED <<extVars, infoVars>>
  BY DEF ReceiveLocked
<1> QED
  BY <1>1, <1>2 DEF OptionsInv, FilesRead, FileOptions, StreamOptions, extVars, infoVars

\* Every other operation leaves tracks, files and options alone.
LEMMA OptionsKept ==
  ASSUME OptionsInv, UNCHANGED <<m_track, extVars, infoVars>>
  PROVE  OptionsInv'
BY DEF OptionsInv, FilesRead, FileOptions, StreamOptions, extVars, infoVars

LEMMA PauseKeepsOptionsInv ==
  ASSUME IInv, OptionsInv, NEW readable \in BOOLEAN, Pause(readable)
  PROVE  OptionsInv'
<1>1. media # None
  BY DEF Pause
<1>2. CASE FirstPause(readable) /\ m_bExternalFile /\ MediaFiles[media] # <<>>
  BY <1>1, <1>2, LoadKeepsOptionsInv DEF FirstPause
<1>3. CASE UNCHANGED <<trackVars, extVars, infoVars>>
  BY <1>3, OptionsKept DEF trackVars
<1> QED
  BY <1>2, <1>3 DEF Pause, FirstPause

LEMMA OptionsInvariance == Spec => []OptionsInv
<1>1. Init => OptionsInv
  BY DEF Init, OptionsInv, FilesRead
<1>2. IInv /\ OptionsInv /\ [Next]_vars => OptionsInv'
  <2> SUFFICES ASSUME IInv, OptionsInv, [Next]_vars PROVE OptionsInv'
    OBVIOUS
  <2>1. ASSUME NEW s \in Streams, ReceiveConnection(s) PROVE OptionsInv'
    BY <2>1, ReceiveConnectionKeepsOptionsInv
  <2>2. CASE ReceiveLocked
    BY <2>2, ReceiveLockedKeepsOptionsInv
  <2>3. ASSUME NEW readable \in BOOLEAN, Pause(readable) PROVE OptionsInv'
    BY <2>3, PauseKeepsOptionsInv
  <2>4. ASSUME NEW i \in 1 .. Len(m_ExtSubFiles), NEW readable \in BOOLEAN,
               SetCurExternalSub(i, readable)
        PROVE  OptionsInv'
    BY <2>4, SetCurExternalSubKeepsOptionsInv
  <2>5. ASSUME NEW name \in GraphNames, NEW md \in Media,
               NEW rend \in {"absent", "free", "taken"}, JoinFilterGraph(name, md, rend)
        PROVE  OptionsInv'
    BY <2>5, OptionsKept DEF JoinFilterGraph, trackVars
  <2>6. ASSUME NEW s \in Streams, ChangeTypeInBand(s) PROVE OptionsInv'
    BY <2>6, OptionsKept DEF ChangeTypeInBand, trackVars
  <2>7. ASSUME NEW line \in Line, ReceiveCheck(line) PROVE OptionsInv'
    BY <2>7, OptionsKept DEF ReceiveCheck, trackVars
  <2>8. CASE LeaveFilterGraph \/ DisconnectPin \/ Stop
    BY <2>8, OptionsKept DEF LeaveFilterGraph, DisconnectPin, Stop, trackVars
  <2>9. CASE RequestFrame \/ Disconnect \/ UNCHANGED vars
    BY <2>9, OptionsKept DEF RequestFrame, Disconnect, vars, trackVars
  <2> QED
    BY <2>1, <2>2, <2>3, <2>4, <2>5, <2>6, <2>7, <2>8, <2>9 DEF Next
<1> QED
  BY <1>1, <1>2, Invariance, PTL DEF Spec

\* The matrix and the mobility the consumer is told are those of the subtitle it is
\* given frames of, however streams were connected and files loaded and switched.
THEOREM OptionsAreOfTheTrack == Spec => []OptionsMatchTrack
BY OptionsMatch, OptionsInvariance, Invariance, PTL

\* A null track is rendered only for an ASS file that could not be read, or while
\* no pin is connected.
THEOREM NullTracksHaveACause == Spec => []NullTrackHasCause
<1>1. IInv /\ OptionsInv => NullTrackHasCause
  <2> SUFFICES ASSUME IInv, OptionsInv, m_consumer, RenderedSource = None
               PROVE  IF m_bExternalFile
                      THEN FileType[m_ExtSubFiles[m_iCurExtSubTrack].file] = "ASS"
                      ELSE m_pin = None
    BY DEF NullTrackHasCause
  <2>1. CASE m_bExternalFile
    <3>1. /\ m_iCurExtSubTrack \in 1 .. Len(m_ExtSubFiles)
          /\ m_ExtSubFiles[m_iCurExtSubTrack].vecPos # 0
      BY <2>1 DEF IInv, ExtInv
    <3>2. m_extSubTrack[m_ExtSubFiles[m_iCurExtSubTrack].vecPos] = None
      BY <2>1 DEF RenderedSource
    <3> QED
      BY <2>1, <3>1, <3>2 DEF OptionsInv, FilesRead
  <2>2. CASE ~m_bExternalFile
    <3>1. m_track \in Track => m_track.stream \in Streams
      BY DEF Track
    <3>2. m_track = None
      BY <2>2, <3>1, NoneAssumption DEF RenderedSource, IInv, TypeOK
    <3> QED
      BY <2>2, <3>2, NoneAssumption DEF IInv, PinInv
  <2> QED
    BY <2>1, <2>2
<1> QED
  BY <1>1, OptionsInvariance, Invariance, PTL

-----------------------------------------------------------------------------
(* The lines of an SRT stream.                                             *)

\* A track that is said to have its generated header has it.  An external
\* subtitle leaves no track behind that could take the name SRT over.
SrtInv ==
  /\ m_track # None /\ m_wsSubType = "SRT" /\ m_bSrtHeaderDone => m_track.header
  /\ SrtLinesKept

\* Without a track there is nothing to say of its lines.
LEMMA NoTrackNoLines == m_track' = None => SrtInv'
BY DEF SrtInv, SrtLinesKept

LEMMA SrtKept ==
  ASSUME SrtInv, UNCHANGED <<trackVars, m_wsSubType>>
  PROVE  SrtInv'
BY DEF SrtInv, SrtLinesKept, trackVars

\* SetMediaType takes the header from an SRT track when it replaces the track.
LEMMA ReceiveConnectionKeepsSrtInv ==
  ASSUME NEW s \in Streams, ReceiveConnection(s)
  PROVE  SrtInv'
<1>1. received' = {} /\ m_wsSubType' = StreamType[s]
  BY DEF ReceiveConnection, SetMediaType, NewTrack
<1>2. m_wsSubType' = "SRT" => ~m_bSrtHeaderDone'
  BY <1>1 DEF ReceiveConnection, SetMediaType, ResetSrtHeader
<1> QED
  BY <1>1, <1>2 DEF SrtInv, SrtLinesKept

\* libass keeps every line whose number it does not hold yet.
LEMMA ChunkIsThere ==
  ASSUME NEW events, NEW ro, NEW text
  PROVE  /\ events \subseteq ProcessChunk(events, ro, text)
         /\ \E e \in ProcessChunk(events, ro, text) : e.readOrder = ro
<1>1. CASE \E e \in events : e.readOrder = ro
  BY <1>1 DEF ProcessChunk
<1>2. CASE ~ \E e \in events : e.readOrder = ro
  <2> DEFINE event == [readOrder |-> ro, text |-> text]
  <2>1. ProcessChunk(events, ro, text) = events \cup {event}
    BY <1>2 DEF ProcessChunk
  <2>2. event.readOrder = ro
    OBVIOUS
  <2> QED
    BY <2>1, <2>2
<1> QED
  BY <1>1, <1>2

\* A sample finds the header there or brings it.
LEMMA ReceiveLockedKeepsSrtInv ==
  ASSUME IInv, SrtInv, ReceiveLocked
  PROVE  SrtInv'
<1>1. UNCHANGED m_wsSubType
  BY DEF ReceiveLocked, infoVars
<1>2. CASE m_wsSubType # "SRT"
  BY <1>1, <1>2 DEF SrtInv, SrtLinesKept
<1>3. CASE m_wsSubType = "SRT"
  <2> DEFINE line == inFlight.line
             ro == line.readOrder
  <2>1. m_track \in Track /\ m_track # None
    BY NoneAssumption DEF ReceiveLocked, IInv, PinInv
  <2>2. ReceiveSrt(line)
    BY <1>3 DEF ReceiveLocked
  <2>3. m_track.header \/ ~m_bSrtHeaderDone
    BY <1>3, <2>1 DEF SrtInv
  <2>7. \A r \in received : \E e \in m_track.events : e.readOrder = r.line.readOrder
    BY <1>3, <2>1 DEF SrtInv, SrtLinesKept
  <2>5. CASE line.text \in Fatal
    <3>1. m_track' = [m_track EXCEPT !.header = TRUE] /\ received' = received
      BY <2>2, <2>3, <2>5 DEF ReceiveSrt
    <3>2. m_track'.header /\ m_track'.events = m_track.events
      BY <2>1, <3>1 DEF Track
    <3> QED
      BY <2>7, <3>1, <3>2 DEF SrtInv, SrtLinesKept
  <2>6. CASE line.text \notin Fatal
    <3>1. received' = received \cup {inFlight}
      BY <2>2, <2>6 DEF ReceiveSrt
    <3>2. m_track' = [m_track EXCEPT !.header = TRUE,
                                     !.events = ProcessChunk(@, ro, line.text)]
      BY <2>2, <2>3, <2>6 DEF ReceiveSrt, Process
    <3>3. m_track'.header /\ m_track'.events = ProcessChunk(m_track.events, ro, line.text)
      BY <2>1, <3>2 DEF Track
    <3>4. /\ m_track.events \subseteq m_track'.events
          /\ \E e \in m_track'.events : e.readOrder = ro
      BY <3>3, ChunkIsThere
    <3> QED
      BY <2>7, <3>1, <3>3, <3>4 DEF SrtInv, SrtLinesKept
  <2> QED
    BY <2>5, <2>6
<1> QED
  BY <1>2, <1>3

\* When a subtitle is selected there is no embedded track afterwards.
LEMMA PauseKeepsSrtInv ==
  ASSUME IInv, OptionsInv, SrtInv, NEW readable \in BOOLEAN, Pause(readable)
  PROVE  SrtInv'
<1>1. CASE FirstPause(readable) /\ m_bExternalFile /\ MediaFiles[media] # <<>>
  <2>1. OptionsInv' /\ m_ExtSubFiles' # <<>>
    <3>1. media # None
      BY DEF Pause
    <3>2. m_iCurExtSubTrack \in 1 .. Len(m_ExtSubFiles')
      BY <1>1, <3>1, LoadExternalFileLoads DEF FirstPause
    <3>3. m_ExtSubFiles' # <<>>
      BY <3>2
    <3> QED
      BY <3>3, PauseKeepsOptionsInv
  <2> QED
    BY <2>1, NoTrackNoLines DEF OptionsInv
<1>2. CASE UNCHANGED <<trackVars, extVars, infoVars>>
  BY <1>2, SrtKept DEF infoVars
<1> QED
  BY <1>1, <1>2 DEF Pause, FirstPause

LEMMA SetCurExternalSubKeepsSrtInv ==
  ASSUME OptionsInv, NEW i \in 1 .. Len(m_ExtSubFiles), NEW readable,
         SetCurExternalSub(i, readable)
  PROVE  SrtInv'
<1>1. m_ExtSubFiles # <<>>
  OBVIOUS
<1>2. m_track = None
  BY <1>1 DEF OptionsInv
<1> QED
  BY <1>2, NoTrackNoLines DEF SetCurExternalSub, SelectExternalSub

\* No SRT line is lost but to another one with the same start time: the track has
\* its generated header from the first sample on, through every reconnection.
THEOREM SrtLinesAreKept == Spec => []SrtLinesKept
<1>1. Init => SrtInv
  BY DEF Init, SrtInv, SrtLinesKept
<1>2. IInv /\ OptionsInv /\ SrtInv /\ [Next]_vars => SrtInv'
  <2> SUFFICES ASSUME IInv, OptionsInv, SrtInv, [Next]_vars PROVE SrtInv'
    OBVIOUS
  <2>1. ASSUME NEW s \in Streams, ReceiveConnection(s) PROVE SrtInv'
    BY <2>1, ReceiveConnectionKeepsSrtInv
  <2>2. CASE ReceiveLocked
    BY <2>2, ReceiveLockedKeepsSrtInv
  <2>3. ASSUME NEW readable \in BOOLEAN, Pause(readable) PROVE SrtInv'
    BY <2>3, PauseKeepsSrtInv
  <2>4. ASSUME NEW i \in 1 .. Len(m_ExtSubFiles), NEW readable \in BOOLEAN,
               SetCurExternalSub(i, readable)
        PROVE  SrtInv'
    BY <2>4, SetCurExternalSubKeepsSrtInv
  <2>5. ASSUME NEW name \in GraphNames, NEW md \in Media,
               NEW rend \in {"absent", "free", "taken"}, JoinFilterGraph(name, md, rend)
        PROVE  SrtInv'
    BY <2>5, SrtKept DEF JoinFilterGraph, infoVars
  <2>6. ASSUME NEW s \in Streams, ChangeTypeInBand(s) PROVE SrtInv'
    BY <2>6, SrtKept DEF ChangeTypeInBand, infoVars
  <2>7. ASSUME NEW line \in Line, ReceiveCheck(line) PROVE SrtInv'
    BY <2>7, SrtKept DEF ReceiveCheck, infoVars
  <2>8. CASE LeaveFilterGraph \/ DisconnectPin \/ Stop
    BY <2>8, SrtKept DEF LeaveFilterGraph, DisconnectPin, Stop, infoVars
  <2>9. CASE RequestFrame \/ Disconnect \/ UNCHANGED vars
    BY <2>9, SrtKept DEF RequestFrame, Disconnect, vars, infoVars
  <2> QED
    BY <2>1, <2>2, <2>3, <2>4, <2>5, <2>6, <2>7, <2>8, <2>9 DEF Next
<1>3. SrtInv => SrtLinesKept
  BY DEF SrtInv
<1> QED
  BY <1>1, <1>2, <1>3, Invariance, OptionsInvariance, PTL DEF Spec

-----------------------------------------------------------------------------
(* The tray menu.                                                          *)

\* The icon lives from the first pause, or from a connection in a filter that has
\* no external subtitles, to the end of a life in a graph.
TrayInv ==
  /\ media = None => trayFiles = None
  /\ m_bExternalFile /\ ~m_bNotFirstPause => trayFiles = None
  /\ TrayMenuNamesFiles

LEMMA TrayKept ==
  ASSUME TrayInv, UNCHANGED <<media, trayFiles, m_bExternalFile, m_bNotFirstPause, m_ExtSubFiles>>
  PROVE  TrayInv'
BY DEF TrayInv, TrayMenuNamesFiles

\* The copy is made after the files were found.
LEMMA PauseKeepsTrayInv ==
  ASSUME TrayInv, NEW readable \in BOOLEAN, Pause(readable)
  PROVE  TrayInv'
<1>1. media # None /\ UNCHANGED <<media, m_bExternalFile>>
  BY DEF Pause
<1>2. CASE ~FirstPause(readable)
  BY <1>1, <1>2, TrayKept DEF Pause, extVars
<1>3. CASE FirstPause(readable) /\ m_bExternalFile
  <2>1. trayFiles = None /\ m_bNotFirstPause' /\ CreateTrayIcon(m_ExtSubFiles')
    BY <1>3 DEF TrayInv, FirstPause
  <2>2. trayFiles' = None \/ trayFiles' = m_ExtSubFiles'
    BY <2>1 DEF CreateTrayIcon
  <2>3. TrayMenuNamesFiles'
    BY <2>2 DEF TrayMenuNamesFiles
  <2> QED
    BY <1>1, <2>1, <2>3 DEF TrayInv
<1>4. CASE FirstPause(readable) /\ ~m_bExternalFile
  BY <1>1, <1>4 DEF FirstPause, TrayInv, TrayMenuNamesFiles
<1> QED
  BY <1>2, <1>3, <1>4

\* A switch loads files and reorders none.
LEMMA SetCurExternalSubKeepsTrayInv ==
  ASSUME IInv, TrayInv, NEW i \in 1 .. Len(m_ExtSubFiles), NEW readable \in BOOLEAN,
         SetCurExternalSub(i, readable)
  PROVE  TrayInv'
<1>1. /\ Len(m_ExtSubFiles') = Len(m_ExtSubFiles)
      /\ \A k \in 1 .. Len(m_ExtSubFiles) : m_ExtSubFiles'[k].file = m_ExtSubFiles[k].file
  <2>1. m_ExtSubFiles \in Seq(ExtSub) /\ Agree(m_ExtSubFiles, m_extSubTrack)
    BY DEF IInv, TypeOK, LoadedTrackIsOfItsFile, Agree
  <2>2. SelectExternalSub(m_ExtSubFiles, i, readable)
    BY DEF SetCurExternalSub
  <2> QED
    BY <2>1, <2>2, SelectAgrees DEF IInv
<1>2. UNCHANGED <<media, trayFiles, m_bExternalFile, m_bNotFirstPause>>
  BY DEF SetCurExternalSub, lifeVars
<1> QED
  BY <1>1, <1>2 DEF TrayInv, TrayMenuNamesFiles

\* Item i of the tray menu is file i of SetCurExternalSub, though the menu has a
\* copy of the list and the filter keeps the lists of several graphs.
THEOREM TrayMenuIsRight == Spec => []TrayMenuNamesFiles
<1>1. Init => TrayInv
  BY DEF Init, TrayInv, TrayMenuNamesFiles
<1>2. IInv /\ TrayInv /\ [Next]_vars => TrayInv'
  <2> SUFFICES ASSUME IInv, TrayInv, [Next]_vars PROVE TrayInv'
    OBVIOUS
  <2>1. ASSUME NEW s \in Streams, ReceiveConnection(s) PROVE TrayInv'
    BY <2>1 DEF ReceiveConnection, SetMediaType, lifeVars, TrayInv, TrayMenuNamesFiles
  <2>2. CASE ReceiveLocked
    BY <2>2, TrayKept DEF ReceiveLocked, lifeVars, extVars
  <2>3. ASSUME NEW readable \in BOOLEAN, Pause(readable) PROVE TrayInv'
    BY <2>3, PauseKeepsTrayInv
  <2>4. ASSUME NEW i \in 1 .. Len(m_ExtSubFiles), NEW readable \in BOOLEAN,
               SetCurExternalSub(i, readable)
        PROVE  TrayInv'
    BY <2>4, SetCurExternalSubKeepsTrayInv
  <2>5. ASSUME NEW name \in GraphNames, NEW md \in Media,
               NEW rend \in {"absent", "free", "taken"}, JoinFilterGraph(name, md, rend)
        PROVE  TrayInv'
    BY <2>5 DEF JoinFilterGraph, TrayInv, TrayMenuNamesFiles
  <2>6. CASE LeaveFilterGraph
    BY <2>6 DEF LeaveFilterGraph, TrayInv, TrayMenuNamesFiles
  <2>7. ASSUME NEW s \in Streams, ChangeTypeInBand(s) PROVE TrayInv'
    BY <2>7, TrayKept DEF ChangeTypeInBand, lifeVars, extVars
  <2>8. ASSUME NEW line \in Line, ReceiveCheck(line) PROVE TrayInv'
    BY <2>8, TrayKept DEF ReceiveCheck, lifeVars, extVars
  <2>9. CASE DisconnectPin \/ Stop
    BY <2>9, TrayKept DEF DisconnectPin, Stop, lifeVars, extVars
  <2>10. CASE RequestFrame \/ Disconnect \/ UNCHANGED vars
    BY <2>10, TrayKept DEF RequestFrame, Disconnect, vars, lifeVars, extVars
  <2> QED
    BY <2>1, <2>2, <2>3, <2>4, <2>5, <2>6, <2>7, <2>8, <2>9, <2>10 DEF Next
<1>3. TrayInv => TrayMenuNamesFiles
  BY DEF TrayInv
<1> QED
  BY <1>1, <1>2, <1>3, Invariance, PTL DEF Spec

=============================================================================
