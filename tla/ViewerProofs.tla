---------------------------- MODULE ViewerProofs ----------------------------
(***************************************************************************)
(* What one worker sends, for every file size, chunk and set of files.     *)
(* The properties speak of the answers on the wire; WireInv ties those to  *)
(* the position of the handler, and StreamInv ties the announced length to *)
(* the open file, which is why only that file's being rewritten, or not    *)
(* being readable to its end, can make the two differ.                     *)
(***************************************************************************)
EXTENDS Viewer, SequenceTheorems, TLAPS

Silent    == {"idle", "policy", "route", "resolve", "member", "mode", "open",
              "stat", "head", "unavailable"}
Decided   == {"route", "resolve", "member", "mode", "open", "stat", "head", "copy"}

\* What has been sent where the handler is.
WireInv ==
    /\ pc \in Silent => wire = <<>> /\ ~broken /\ ~cut
    /\ pc = "copy" =>
         /\ Len(wire) = 1 /\ ~broken /\ ~cut
         /\ wire[1] = [status |-> 200, length |-> promise, sent |-> offset]
         /\ req.method = "GET"
    /\ pc = "raised" => wire = <<>> \/ (Len(wire) = 1 /\ (broken = TRUE \/ cut = TRUE))

\* The policy was there.
AdmittedInv == pc \in Decided => admitted

\* The open file, its length and the position in it.
StreamInv ==
    /\ pc \in {"stat", "head", "copy"} => fd \in Inodes
    /\ pc \in Silent => offset = 0
    /\ pc \in {"head", "copy"} /\ ~touched => promise = size[fd]
    /\ pc = "copy" /\ ~touched => offset <= size[fd]

IInv ==
    /\ TypeOK /\ WireInv /\ AdmittedInv /\ StreamInv
    /\ AnsweredOnce /\ PolicyFirst /\ HeadHasNoBody /\ LengthIsExact

---------------------------------------------------------------------------
\* An answer is added behind at most one other.
LEMMA Answered ==
    ASSUME TypeOK, Len(wire) <= 1,
           NEW a \in Answers, wire' = Append(wire, a)
    PROVE  /\ wire' \in Seq(Answers) /\ Len(wire') = Len(wire) + 1 /\ Len(wire') <= 2
           /\ wire'[Len(wire) + 1] = a
           /\ \A i \in 1..Len(wire) : wire'[i] = wire[i]
BY DEF TypeOK

\* Bytes are added to the answer under way.
LEMMA MoreSent ==
    ASSUME TypeOK, Len(wire) = 1, NEW n \in Nat, Sent(n),
           wire[1].sent + n <= MaxSize
    PROVE  /\ wire' \in Seq(Answers) /\ Len(wire') = 1
           /\ wire'[1] = [wire[1] EXCEPT !.sent = @ + n]
<1>0. wire \in Seq(Answers)
  BY DEF TypeOK
<1>a. Len(wire) = 1 /\ 1 \in 1..Len(wire)
  OBVIOUS
<1>b. wire[1] \in Answers
  BY <1>0, <1>a, ElementOfSeq
<1>1. wire[1] \in Answers /\ DOMAIN wire = 1..1
  BY <1>0, <1>a, <1>b
<1>2. wire' = [wire EXCEPT ![1].sent = @ + n]
  BY DEF Sent
<1>3. wire[1].sent + n \in 0..(MaxSize + 1)
  BY <1>1, SizeAssumption DEF Answers
<1>4. [wire[1] EXCEPT !.sent = @ + n] \in Answers
  BY <1>1, <1>3 DEF Answers
<1>5. wire' = [wire EXCEPT ![1] = [wire[1] EXCEPT !.sent = @ + n]]
  BY <1>2
<1>6. wire' = << [wire[1] EXCEPT !.sent = @ + n] >>
  BY <1>0, <1>1, <1>5
<1> QED
  BY <1>4, <1>6

---------------------------------------------------------------------------
LEMMA InitIInv == Init => IInv
<1> SUFFICES ASSUME Init PROVE IInv
  OBVIOUS
<1>1. TypeOK
  <2>1. NoRequest \in Requests
    BY DEF Requests, NoRequest, Routes, Modes, Kinds
  <2>2. <<>> \in Seq(Answers) /\ Len(<<>>) = 0
    OBVIOUS
  <2>3. /\ disk \in Inodes \union {Gone} /\ size \in [Inodes -> 0..MaxSize] /\ pc \in PCs
        /\ req \in Requests /\ fd \in Inodes \union {Gone}
        /\ offset \in 0..MaxSize /\ promise \in 0..MaxSize
    BY <2>1, SizeAssumption DEF Init, PCs
  <2>4. policyOK \in BOOLEAN /\ admitted \in BOOLEAN /\ broken \in BOOLEAN /\ cut \in BOOLEAN /\ touched \in BOOLEAN
    BY Zenon DEF Init
  <2>5. wire \in Seq(Answers) /\ Len(wire) <= 2
    BY <2>2 DEF Init
  <2> QED
    BY <2>3, <2>4, <2>5 DEF TypeOK
<1>2. WireInv /\ AdmittedInv /\ StreamInv
  BY DEF Init, WireInv, AdmittedInv, StreamInv, Silent, Decided
<1>3. AnsweredOnce /\ PolicyFirst /\ HeadHasNoBody /\ LengthIsExact
  BY DEF Init, AnsweredOnce, PolicyFirst, HeadHasNoBody, LengthIsExact
<1> QED
  BY <1>1, <1>2, <1>3 DEF IInv

\* The world outside only changes the files and the policy.
LEMMA WorldStep ==
    ASSUME IInv, WorldNext
    PROVE  IInv'
<1> USE DEF IInv, TypeOK, WireInv, AdmittedInv, StreamInv, AnsweredOnce, PolicyFirst,
            HeadHasNoBody, LengthIsExact, stream, history, Silent, Decided
<1>1. CASE Replaced
  BY <1>1 DEF Replaced
<1>2. CASE Rewritten
  BY <1>2 DEF Rewritten
<1>3. CASE PolicyChanges
  <2>1. policyOK' \in BOOLEAN
    BY <1>3 DEF PolicyChanges
  <2>2. UNCHANGED <<disk, size, pc, req, fd, offset, promise, wire, admitted, broken, cut, touched>>
    BY <1>3 DEF PolicyChanges, file
  <2> QED
    BY <2>1, <2>2
<1> QED
  BY <1>1, <1>2, <1>3 DEF WorldNext

---------------------------------------------------------------------------
(* Dispatch *)

\* Steps that send nothing.
LEMMA QuietStep ==
    ASSUME IInv, NEW from \in Silent, NEW to \in Silent \union {"raised"},
           Steps(from, to),
           to \in Decided => from \in Decided,
           to \in {"stat", "head"} => from \in {"stat", "head"},
           to = "head" => from = "head"
    PROVE  IInv'
<1> USE DEF Steps, Goes, IInv, file, stream, history, Silent
<1>1. TypeOK'
  BY DEF TypeOK, PCs
<1>2. wire = <<>> /\ wire' = <<>> /\ Len(<<>>) = 0
  BY DEF WireInv
<1>3. WireInv'
  BY <1>2 DEF WireInv
<1>4. AdmittedInv'
  BY DEF AdmittedInv, Decided
<1>5. StreamInv'
  BY DEF StreamInv
<1> QED
  BY <1>1, <1>2, <1>3, <1>4, <1>5
  DEF AnsweredOnce, PolicyFirst, HeadHasNoBody, LengthIsExact

\* An answer of one unit, from a handler that has not answered.
LEMMA SendStep ==
    ASSUME IInv, NEW from \in Silent \union {"raised"}, NEW s \in Statuses,
           Sends(from, s),
           from \in Decided \/ s \in {500, 503}, from = "raised" => s = 500
    PROVE  IInv'
<1> DEFINE a == [status |-> s, length |-> 1, sent |-> BodyOf(1)]
<1>1. a \in Answers /\ (req.method = "HEAD" => a.sent = 0) /\ (req.method = "GET" => a.sent = 1)
  BY SizeAssumption DEF Answers, BodyOf
<1>2. /\ wire = <<>> \/ (Len(wire) = 1 /\ (broken = TRUE \/ cut = TRUE))
      /\ Len(wire) <= 1 /\ TypeOK /\ wire' = Append(wire, a)
      /\ broken' = broken /\ cut' = cut
  <2>1. wire = <<>> \/ (Len(wire) = 1 /\ (broken = TRUE \/ cut = TRUE))
    BY DEF IInv, WireInv, Sends, Goes
  <2>2. Len(wire) <= 1
    <3>1. Len(<<>>) = 0
      OBVIOUS
    <3>2. CASE wire = <<>>
      BY <3>1, <3>2
    <3>3. CASE Len(wire) = 1
      BY <3>3
    <3> QED
      BY <2>1, <3>2, <3>3, Zenon
  <2>3. TypeOK /\ wire' = Append(wire, a) /\ broken' = broken /\ cut' = cut
    BY DEF IInv, Sends, Answer, history
  <2> QED
    BY <2>1, <2>2, <2>3, Zenon
<1>3. /\ wire' \in Seq(Answers) /\ Len(wire') = Len(wire) + 1 /\ Len(wire') <= 2
      /\ wire'[Len(wire) + 1] = a
      /\ \A i \in 1..Len(wire) : wire'[i] = wire[i]
  BY <1>1, <1>2, Answered
<1>4. Len(wire) \in Nat /\ req.method \in {"GET", "HEAD"}
  BY DEF IInv, TypeOK, Requests
<1> HIDE DEF a
<1>5. TypeOK'
  BY <1>3 DEF IInv, TypeOK, Sends, Goes, file, stream, history, PCs, Answers
<1>6. WireInv' /\ AdmittedInv' /\ StreamInv'
  BY DEF IInv, WireInv, AdmittedInv, StreamInv, Sends, Goes, Silent, Decided
<1>7. AnsweredOnce'
  <2>1. CASE wire = <<>>
    <3>1. Len(wire') = 1 /\ Len(wire') # 2
      BY <1>3, <2>1
    <3> QED
      BY <3>1 DEF AnsweredOnce
  <2>2. CASE Len(wire) = 1 /\ (broken = TRUE \/ cut = TRUE)
    <3>1. from = "raised"
      BY <2>2, Zenon DEF IInv, WireInv, Sends, Goes
    <3>2. wire'[2] = a /\ a.status = 500
      BY <1>3, <2>2, <3>1 DEF a
    <3> QED
      BY <1>2, <2>2, <3>2, ZenonT(30) DEF AnsweredOnce
  <2> QED
    BY <1>2, <2>1, <2>2, ZenonT(40)
<1>8. PolicyFirst'
  <2>1. a.status = s
    BY DEF a
  <2>2. s \notin {500, 503} => admitted'
    BY DEF IInv, AdmittedInv, Sends, Goes, history
  <2>3. \A i \in 1..Len(wire) : wire[i].status \notin {500, 503} => admitted'
    BY DEF IInv, PolicyFirst, Sends, history
  <2> QED
    BY <1>3, <1>4, <2>1, <2>2, <2>3 DEF PolicyFirst
<1>9. HeadHasNoBody'
  BY <1>1, <1>3, <1>4 DEF IInv, HeadHasNoBody, Sends
<1>10. LengthIsExact'
  <2>1. a.length = 1
    BY DEF a
  <2>2. CASE wire = <<>>
    <3>1. req'.method = "GET" => wire'[1].sent = wire'[1].length
      BY <1>1, <1>3, <2>1, <2>2 DEF Sends
    <3> QED
      BY <3>1 DEF LengthIsExact
  <2>3. CASE broken = TRUE \/ cut = TRUE
    BY <1>2, <2>3, ZenonT(30) DEF LengthIsExact
  <2> QED
    BY <1>2, <2>2, <2>3, ZenonT(40)
<1> QED
  BY <1>5, <1>6, <1>7, <1>8, <1>9, <1>10 DEF IInv

\* The client does not take an answer.
LEMMA BrokenStep ==
    ASSUME IInv, NEW from \in Silent, from \in Decided, SendFails(from)
    PROVE  IInv'
<1>1. wire = <<>> /\ TypeOK /\ Len(wire) <= 1
  BY DEF IInv, WireInv, SendFails, Goes
<1>2. /\ wire' \in Seq(Answers) /\ (wire' = <<>> \/ Len(wire') = 1) /\ Len(wire') <= 1
      /\ \A i \in 1..Len(wire') : wire'[i].sent = 0
  <2>1. CASE wire' = wire
    BY <1>1, <2>1
  <2>2. CASE \E s \in Statuses \ {500, 503} : Answer(s, 1, 0)
    <3>1. PICK s \in Statuses : wire' = Append(wire, [status |-> s, length |-> 1, sent |-> 0])
      BY <2>2 DEF Answer
    <3>2. [status |-> s, length |-> 1, sent |-> 0] \in Answers
      BY SizeAssumption DEF Answers
    <3> QED
      BY <1>1, <3>1, <3>2, Answered
  <2> QED
    BY <2>1, <2>2 DEF SendFails
<1>3. admitted' = TRUE /\ broken' = TRUE /\ pc' = "raised"
  BY DEF IInv, TypeOK, AdmittedInv, SendFails, Goes
<1>4. TypeOK'
  BY <1>2, <1>3 DEF IInv, TypeOK, SendFails, Goes, file, stream, PCs, Answers
<1>5. WireInv' /\ AdmittedInv' /\ StreamInv'
  BY <1>2, <1>3 DEF WireInv, AdmittedInv, StreamInv, Silent, Decided
<1>6. AnsweredOnce' /\ LengthIsExact'
  <2>1. Len(wire') # 2
    BY <1>2
  <2> QED
    BY <1>3, <2>1 DEF AnsweredOnce, LengthIsExact
<1>7. PolicyFirst' /\ HeadHasNoBody'
  BY <1>2, <1>3 DEF PolicyFirst, HeadHasNoBody
<1> QED
  BY <1>4, <1>5, <1>6, <1>7 DEF IInv

\* Every step of the dispatch, of the handlers and of the error boundary.
LEMMA DispatchStep ==
    ASSUME IInv, Dispatch
    PROVE  IInv'
<1>1. CASE Receive
  BY <1>1 DEF Receive, Goes, IInv, TypeOK, WireInv, AdmittedInv, StreamInv, AnsweredOnce, PolicyFirst,
     HeadHasNoBody, LengthIsExact, Silent, Decided, PCs, file, stream, history
<1>2. CASE CheckPolicy
  BY <1>2 DEF CheckPolicy, Goes, IInv, TypeOK, WireInv, AdmittedInv, StreamInv, AnsweredOnce, PolicyFirst,
     HeadHasNoBody, LengthIsExact, Silent, Decided, PCs, file, stream
<1>3. CASE PolicyMissing
  <2>1. PICK at \in {"policy", "mode", "member"} : Steps(at, "unavailable")
    BY <1>3 DEF PolicyMissing
  <2> QED
    BY <2>1, QuietStep DEF Silent, Decided
<1>4. CASE Unavailable \/ Health \/ NotRoute \/ Denied \/ NotFound \/ InternalError
  BY <1>4, SendStep DEF Unavailable, Health, NotRoute, Denied, NotFound, InternalError,
     Silent, Decided, Statuses
<1>5. CASE IsRoute
  BY <1>5, QuietStep DEF IsRoute, Silent, Decided
<1>6. CASE Found
  BY <1>6, QuietStep DEF Found, Silent, Decided
<1>7. CASE Member \/ RawDirectory \/ Preview \/ Page
  BY <1>7, SendStep DEF Member, RawDirectory, Preview, Page, Silent, Decided, Statuses
<1>8. CASE Streams
  BY <1>8, QuietStep DEF Streams, Silent, Decided
<1>9. CASE HandlerRaises
  <2>1. PICK at \in {"policy", "route", "resolve", "member", "mode"} : Steps(at, "raised")
    BY <1>9 DEF HandlerRaises
  <2> QED
    BY <2>1, QuietStep DEF Silent, Decided
<1>10. CASE HandlerSendFails
  BY <1>10, BrokenStep DEF HandlerSendFails, Silent, Decided
<1>11. CASE ErrorNotSent
  BY <1>11 DEF ErrorNotSent, Goes, IInv, TypeOK, WireInv, AdmittedInv, StreamInv, AnsweredOnce, PolicyFirst,
     HeadHasNoBody, LengthIsExact, Silent, Decided, PCs, file, stream
<1>12. CASE Close
  <2>1. NoRequest \in Requests
    BY DEF Requests, NoRequest, Routes, Modes, Kinds
  <2>2. <<>> \in Seq(Answers) /\ Len(<<>>) = 0
    OBVIOUS
  <2>3. /\ pc' = "idle" /\ wire' = <<>> /\ req' = NoRequest
        /\ fd' = Gone /\ offset' = 0 /\ promise' = 0
        /\ admitted' = FALSE /\ broken' = FALSE /\ cut' = FALSE /\ touched' = FALSE
    BY <1>12 DEF Close, Goes
  <2>4. TypeOK'
    <3>1. UNCHANGED <<disk, size, policyOK>>
      BY <1>12 DEF Close, file
    <3>2. wire' \in Seq(Answers) /\ Len(wire') <= 2
      BY <2>2, <2>3
    <3>3. admitted' \in BOOLEAN /\ broken' \in BOOLEAN /\ cut' \in BOOLEAN /\ touched' \in BOOLEAN
      BY <2>3, Zenon
    <3>4. /\ req' \in Requests /\ fd' \in Inodes \union {Gone} /\ pc' \in PCs
          /\ offset' \in 0..MaxSize /\ promise' \in 0..MaxSize
      BY <2>1, <2>3, SizeAssumption DEF PCs
    <3> QED
      BY <3>1, <3>2, <3>3, <3>4 DEF IInv, TypeOK
  <2> QED
    BY <2>2, <2>3, <2>4 DEF IInv, WireInv, AdmittedInv, StreamInv, AnsweredOnce, PolicyFirst,
       HeadHasNoBody, LengthIsExact, Silent, Decided
<1> QED
  BY <1>1, <1>2, <1>3, <1>4, <1>5, <1>6, <1>7, <1>8, <1>9, <1>10, <1>11, <1>12 DEF Dispatch

---------------------------------------------------------------------------
(* _stream_file *)

\* The head of a stream: what follows it is still to come.
LEMMA HeadStep ==
    ASSUME IInv, StreamHead
    PROVE  IInv'
<1> DEFINE a == [status |-> 200, length |-> promise, sent |-> 0]
<1>1. /\ wire = <<>> /\ Len(wire) = 0 /\ TypeOK /\ wire' = Append(wire, a)
      /\ promise \in 0..MaxSize /\ offset = 0 /\ fd \in Inodes
      /\ size[fd] \in 0..MaxSize
  BY DEF IInv, TypeOK, WireInv, StreamInv, StreamHead, Goes, Answer, Silent
<1>2. a \in Answers
  BY <1>1, SizeAssumption DEF Answers, Statuses
<1>3. wire' \in Seq(Answers) /\ Len(wire') = 1 /\ wire'[1] = a
  BY <1>1, <1>2, Answered
<1>4. UNCHANGED <<disk, size, policyOK, req, fd, offset, promise, admitted, broken, cut, touched>>
  BY DEF StreamHead, file, stream, history
<1>5. /\ pc' \in {"done", "copy"}
      /\ pc' = "done" => req.method = "HEAD"
      /\ pc' = "copy" => req.method # "HEAD"
  BY DEF StreamHead, Goes
<1>6. req.method \in {"GET", "HEAD"}
  BY DEF IInv, TypeOK, Requests
<1> HIDE DEF a
<1>7. TypeOK'
  BY <1>3, <1>4, <1>5 DEF IInv, TypeOK, PCs
<1>8. broken = FALSE /\ cut = FALSE /\ admitted = TRUE
  BY DEF IInv, TypeOK, WireInv, AdmittedInv, StreamHead, Goes, Silent, Decided
<1>9. WireInv'
  <2>1. a = [status |-> 200, length |-> promise', sent |-> offset']
    BY <1>1, <1>4 DEF a
  <2> QED
    BY <1>3, <1>4, <1>5, <1>6, <1>8, <2>1 DEF WireInv, Silent
<1>10. AdmittedInv'
  BY <1>4, <1>8 DEF AdmittedInv
<1>11. StreamInv'
  BY <1>1, <1>4, <1>5 DEF IInv, StreamInv, StreamHead, Goes, Silent
<1>12. AnsweredOnce' /\ PolicyFirst' /\ LengthIsExact'
  BY <1>3, <1>4, <1>5, <1>8 DEF AnsweredOnce, PolicyFirst, LengthIsExact
<1>13. HeadHasNoBody'
  BY <1>3 DEF HeadHasNoBody, a
<1> QED
  BY <1>7, <1>9, <1>10, <1>11, <1>12, <1>13 DEF IInv

\* The client does not take the head.
LEMMA HeadBrokenStep ==
    ASSUME IInv, StreamHeadFails
    PROVE  IInv'
<1>1. wire = <<>> /\ TypeOK /\ Len(wire) = 0 /\ promise \in 0..MaxSize
  BY DEF IInv, TypeOK, WireInv, StreamHeadFails, Goes, Silent
<1>2. /\ wire' \in Seq(Answers) /\ (wire' = <<>> \/ Len(wire') = 1) /\ Len(wire') <= 1
      /\ \A i \in 1..Len(wire') : wire'[i].sent = 0
  <2>1. CASE wire' = wire
    BY <1>1, <2>1 DEF TypeOK
  <2>2. CASE Answer(200, promise, 0)
    <3>1. [status |-> 200, length |-> promise, sent |-> 0] \in Answers
      BY <1>1, SizeAssumption DEF Answers, Statuses
    <3> QED
      BY <1>1, <2>2, <3>1, Answered DEF Answer
  <2> QED
    BY <2>1, <2>2 DEF StreamHeadFails
<1>3. admitted' = TRUE /\ broken' = TRUE /\ pc' = "raised"
  BY DEF IInv, TypeOK, AdmittedInv, StreamHeadFails, Goes, Decided
<1>4. TypeOK'
  BY <1>2, <1>3 DEF IInv, TypeOK, StreamHeadFails, Goes, file, stream, PCs
<1>5. WireInv' /\ AdmittedInv' /\ StreamInv'
  BY <1>2, <1>3 DEF WireInv, AdmittedInv, StreamInv, Silent, Decided
<1>6. AnsweredOnce' /\ LengthIsExact'
  BY <1>2, <1>3 DEF AnsweredOnce, LengthIsExact
<1>7. PolicyFirst' /\ HeadHasNoBody'
  BY <1>2, <1>3 DEF PolicyFirst, HeadHasNoBody
<1> QED
  BY <1>4, <1>5, <1>6, <1>7 DEF IInv

\* What a chunk is, and what the answer is before it.
LEMMA Copying ==
    ASSUME IInv, pc = "copy"
    PROVE  /\ Len(wire) = 1 /\ wire[1].sent = offset /\ wire[1].length = promise
           /\ wire[1].status = 200 /\ broken = FALSE /\ cut = FALSE /\ admitted = TRUE /\ req.method = "GET"
           /\ fd \in Inodes /\ size[fd] \in 0..MaxSize /\ offset \in 0..MaxSize
           /\ Ahead \in Nat /\ (Ahead > 0 => offset + Ahead = size[fd])
           /\ wire \in Seq(Answers) /\ TypeOK
BY DEF IInv, TypeOK, WireInv, AdmittedInv, StreamInv, Ahead, Decided

LEMMA ChunkStep ==
    ASSUME IInv, CopyChunk
    PROVE  IInv'
<1>1. pc = "copy" /\ Ahead > 0
  BY DEF CopyChunk
<1> DEFINE n == IF Ahead < Chunk THEN Ahead ELSE Chunk
<1>2. n \in Nat /\ n <= Ahead /\ offset + n <= size[fd] /\ offset + n \in 0..MaxSize
  BY <1>1, Copying, SizeAssumption
<1>3. /\ wire' \in Seq(Answers) /\ Len(wire') = 1
      /\ wire'[1] = [wire[1] EXCEPT !.sent = @ + n]
  <2>1. Sent(n) /\ wire[1].sent + n <= MaxSize
    BY <1>1, <1>2, Copying DEF CopyChunk
  <2> HIDE DEF n
  <2> QED
    BY <1>1, <1>2, <2>1, Copying, MoreSent
<1>4. offset' = offset + n
  BY DEF CopyChunk
<1>5. UNCHANGED <<disk, size, policyOK, pc, req, fd, promise, admitted, broken, cut, touched>>
  BY DEF CopyChunk, file, history
<1> HIDE DEF n
<1>6. TypeOK'
  BY <1>2, <1>3, <1>4, <1>5 DEF IInv, TypeOK
<1>7. wire'[1] = [status |-> 200, length |-> promise', sent |-> offset']
  <2>1. wire[1] = [status |-> 200, length |-> promise, sent |-> offset]
    BY <1>1 DEF IInv, WireInv
  <2> QED
    BY <1>3, <1>4, <1>5, <2>1
<1>8. WireInv'
  BY <1>1, <1>3, <1>5, <1>7, Copying DEF WireInv, Silent
<1>9. AdmittedInv' /\ PolicyFirst' /\ AnsweredOnce' /\ HeadHasNoBody' /\ LengthIsExact'
  BY <1>1, <1>3, <1>5, Copying DEF AdmittedInv, PolicyFirst, AnsweredOnce, HeadHasNoBody, LengthIsExact
<1>10. StreamInv'
  BY <1>1, <1>2, <1>4, <1>5, Copying DEF IInv, StreamInv, Silent
<1> QED
  BY <1>6, <1>8, <1>9, <1>10 DEF IInv

\* The file has been sent to its end, which is where the announced length is.
LEMMA EndStep ==
    ASSUME IInv, CopyEnds
    PROVE  IInv'
<1>1. pc = "copy" /\ Ahead = 0 /\ pc' = "done"
  BY DEF CopyEnds, Steps, Goes
<1>2. UNCHANGED <<disk, size, policyOK, req, fd, offset, promise, wire, admitted, broken, cut, touched>>
  BY DEF CopyEnds, Steps, file, stream, history
<1>3. TypeOK'
  BY <1>1, <1>2 DEF IInv, TypeOK, PCs
<1>4. WireInv' /\ AdmittedInv' /\ StreamInv'
  BY <1>1 DEF WireInv, AdmittedInv, StreamInv, Silent, Decided
<1>5. AnsweredOnce' /\ PolicyFirst' /\ HeadHasNoBody'
  BY <1>1, <1>2, Copying DEF IInv, AnsweredOnce, PolicyFirst, HeadHasNoBody
<1>6. ~touched => offset = promise
  <2>1. size[fd] <= offset
    BY <1>1, Copying DEF Ahead
  <2>2. ~touched => promise = size[fd] /\ offset <= size[fd]
    BY <1>1 DEF IInv, StreamInv
  <2> QED
    BY <1>1, <2>1, <2>2, Copying
<1>7. LengthIsExact'
  BY <1>1, <1>2, <1>6, Copying DEF LengthIsExact
<1> QED
  BY <1>3, <1>4, <1>5, <1>7 DEF IInv

\* The client stops in the middle of a chunk.
LEMMA CopyBrokenStep ==
    ASSUME IInv, CopyFails
    PROVE  IInv'
<1>1. pc = "copy" /\ pc' = "raised" /\ broken' = TRUE /\ Ahead > 0
  BY DEF CopyFails, Goes
<1>2. PICK n \in 0..(Chunk - 1) : n < Ahead /\ Sent(n)
  BY DEF CopyFails
<1>3. n \in Nat /\ wire[1].sent + n <= MaxSize
  BY <1>1, <1>2, Copying, SizeAssumption
<1>4. /\ wire' \in Seq(Answers) /\ Len(wire') = 1
      /\ wire'[1] = [wire[1] EXCEPT !.sent = @ + n]
  BY <1>1, <1>2, <1>3, Copying, MoreSent
<1>5. UNCHANGED <<disk, size, policyOK, req, fd, offset, promise, admitted, cut, touched>>
  BY DEF CopyFails, file, stream
<1>6. TypeOK'
  BY <1>1, <1>4, <1>5 DEF IInv, TypeOK, PCs
<1>7. WireInv' /\ AdmittedInv' /\ StreamInv'
  BY <1>1, <1>4 DEF WireInv, AdmittedInv, StreamInv, Silent, Decided
<1>8. AnsweredOnce' /\ LengthIsExact'
  BY <1>1, <1>4 DEF AnsweredOnce, LengthIsExact
<1>9. PolicyFirst' /\ HeadHasNoBody'
  BY <1>1, <1>4, <1>5, Copying DEF PolicyFirst, HeadHasNoBody
<1> QED
  BY <1>6, <1>7, <1>8, <1>9 DEF IInv

\* The file cannot be read any further.
LEMMA CutStep ==
    ASSUME IInv, CopyReadFails
    PROVE  IInv'
<1>1. pc = "copy" /\ pc' = "raised" /\ cut' = TRUE
  BY DEF CopyReadFails, Goes
<1>2. UNCHANGED <<disk, size, policyOK, req, fd, offset, promise, wire, admitted, broken, touched>>
  BY DEF CopyReadFails, file, stream
<1>3. TypeOK'
  BY <1>1, <1>2 DEF IInv, TypeOK, PCs
<1>4. WireInv' /\ AdmittedInv' /\ StreamInv'
  BY <1>1, <1>2, Copying DEF WireInv, AdmittedInv, StreamInv, Silent, Decided
<1>5. AnsweredOnce' /\ LengthIsExact' /\ PolicyFirst' /\ HeadHasNoBody'
  BY <1>1, <1>2, Copying DEF IInv, AnsweredOnce, LengthIsExact, PolicyFirst, HeadHasNoBody
<1> QED
  BY <1>3, <1>4, <1>5 DEF IInv

LEMMA StreamStep ==
    ASSUME IInv, StreamFile
    PROVE  IInv'
<1>1. CASE Open
  BY <1>1 DEF Open, Goes, IInv, TypeOK, WireInv, AdmittedInv, StreamInv, AnsweredOnce, PolicyFirst,
     HeadHasNoBody, LengthIsExact, Silent, Decided, PCs, file, history
<1>2. CASE OpenRaises
  <2>1. PICK at \in {"open", "stat"} : Steps(at, "raised")
    BY <1>2 DEF OpenRaises
  <2> QED
    BY <2>1, QuietStep DEF Silent, Decided
<1>3. CASE Stat
  BY <1>3 DEF Stat, Goes, IInv, TypeOK, WireInv, AdmittedInv, StreamInv, AnsweredOnce, PolicyFirst,
     HeadHasNoBody, LengthIsExact, Silent, Decided, PCs, file, history
<1> QED
  BY <1>1, <1>2, <1>3, HeadStep, HeadBrokenStep, ChunkStep, EndStep, CopyBrokenStep, CutStep DEF StreamFile

---------------------------------------------------------------------------
LEMMA StepIInv == IInv /\ [Next]_vars => IInv'
<1> SUFFICES ASSUME IInv, [Next]_vars PROVE IInv'
  OBVIOUS
<1>1. CASE UNCHANGED vars
  BY <1>1 DEF vars, file, stream, history, IInv, TypeOK, WireInv, AdmittedInv, StreamInv,
     AnsweredOnce, PolicyFirst, HeadHasNoBody, LengthIsExact
<1> QED
  BY <1>1, WorldStep, DispatchStep, StreamStep DEF Next

THEOREM Inductive == Spec => []IInv
BY InitIInv, StepIInv, PTL DEF Spec

\* Every variable of the handler keeps its type (TypeOK): among others, there
\* are never more than two heads on the wire.
THEOREM TypeCorrect == Spec => []TypeOK
<1>1. IInv => TypeOK
  BY DEF IInv
<1> QED
  BY <1>1, Inductive, PTL

\* A request is answered exactly once, unless its client stops reading or the file
\* sent cannot be read to its end; then a 500 may follow the head (AnsweredOnce).
THEOREM OneAnswer == Spec => []AnsweredOnce
<1>1. IInv => AnsweredOnce
  BY DEF IInv
<1> QED
  BY <1>1, Inductive, PTL

\* Nothing but an error is sent without the access policy (PolicyFirst).
THEOREM NothingBeforePolicy == Spec => []PolicyFirst
<1>1. IInv => PolicyFirst
  BY DEF IInv
<1> QED
  BY <1>1, Inductive, PTL

\* A HEAD has no body, whatever fails (HeadHasNoBody).
THEOREM HeadsHaveNoBody == Spec => []HeadHasNoBody
<1>1. IInv => HeadHasNoBody
  BY DEF IInv
<1> QED
  BY <1>1, Inductive, PTL

\* For files of any size and chunks of any size, a complete answer has the
\* announced length unless its file was rewritten in place or could not be read to
\* its end (LengthIsExact).
THEOREM LengthsAreExact == Spec => []LengthIsExact
<1>1. IInv => LengthIsExact
  BY DEF IInv
<1> QED
  BY <1>1, Inductive, PTL
=============================================================================
