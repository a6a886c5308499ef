------------------------------- MODULE Viewer -------------------------------
(***************************************************************************)
(* app.ViewerHandler: what one worker sends for one request, from the      *)
(* policy check to the last byte, while the file behind the path is        *)
(* replaced, removed or rewritten and the client may stop reading.         *)
(*                                                                         *)
(* What a handler computes is left open: Access has the decision on a      *)
(* path, PreviewCache and Conversion the previews, Archive the members,    *)
(* Listing the directories.  An answer is a head (status and               *)
(* Content-Length) and the number of body bytes that follow it; anything   *)
(* that is not a streamed file has a body of one unit.                     *)
(***************************************************************************)
EXTENDS Naturals, Sequences, SequencesExt

CONSTANTS
    Inodes,     \* the files the path may lead to
    Gone,       \* it leads to nothing
    Chunk,      \* bytes copyfileobj reads at once (1 MiB)
    MaxSize     \* bound on the size of a file

ASSUME GoneAssumption == Gone \notin Inodes
ASSUME SizeAssumption == Chunk \in Nat \ {0} /\ MaxSize \in Nat

VARIABLES
    disk, size,     \* the file at the path; size[i] of every file
    policyOK,       \* denylist() returns; otherwise it raises
    pc, req,        \* the handler's position and its request
    fd, offset, promise,    \* _stream_file's file, position and Content-Length
    wire,           \* the answers sent: [status, length, sent]
    admitted,       \* history: the policy was there when the request was dispatched
    broken,         \* history: a write to the client has failed
    cut,            \* history: a read of the file being streamed has failed
    touched         \* history: the file being streamed was rewritten in place

file     == <<disk, size>>
stream   == <<fd, offset, promise>>
history  == <<admitted, broken, cut, touched>>
vars     == <<file, policyOK, pc, req, stream, wire, history>>

Routes  == {"health", "other", "view"}
Modes   == {"raw", "preview", "text", "hub"}
Kinds   == {"directory", "native", "plain"}     \* native: a PDF on disk
Requests == [method : {"GET", "HEAD"}, route : Routes, mode : Modes,
             member : BOOLEAN, kind : Kinds]

NoRequest == [method |-> "GET", route |-> "health", mode |-> "hub",
              member |-> FALSE, kind |-> "plain"]

Statuses == {200, 400, 403, 404, 500, 503}
PCs == {"idle", "policy", "route", "resolve", "member", "mode", "open", "stat",
        "head", "copy", "unavailable", "raised", "done"}

\* An answer on the wire.
Answers == [status : Statuses, length : 0..(MaxSize + 1), sent : 0..(MaxSize + 1)]

TypeOK ==
    /\ disk \in Inodes \union {Gone}
    /\ size \in [Inodes -> 0..MaxSize]
    /\ policyOK \in BOOLEAN
    /\ pc \in PCs
    /\ req \in Requests
    /\ fd \in Inodes \union {Gone}
    /\ offset \in 0..MaxSize
    /\ promise \in 0..MaxSize
    /\ wire \in Seq(Answers)
    /\ Len(wire) <= 2
    /\ admitted \in BOOLEAN /\ broken \in BOOLEAN /\ cut \in BOOLEAN /\ touched \in BOOLEAN

Init ==
    /\ disk \in Inodes
    /\ size \in [Inodes -> 0..MaxSize]
    /\ policyOK = TRUE
    /\ pc = "idle"
    /\ req = NoRequest
    /\ fd = Gone /\ offset = 0 /\ promise = 0
    /\ wire = <<>>
    /\ admitted = FALSE /\ broken = FALSE /\ cut = FALSE /\ touched = FALSE

---------------------------------------------------------------------------
(* The world outside *)

\* The file is replaced by rename, or removed.
Replaced ==
    /\ disk' \in (Inodes \union {Gone}) \ {disk}
    /\ UNCHANGED <<size, policyOK, pc, req, stream, wire, history>>

\* A file grows, shrinks or is written over where it is.
Rewritten ==
    /\ \E i \in Inodes, n \in 0..MaxSize :
         /\ size' = [size EXCEPT ![i] = n]
         /\ touched' = (touched \/ i = fd)
    /\ UNCHANGED <<disk, policyOK, pc, req, stream, wire, admitted, broken, cut>>

PolicyChanges ==
    /\ policyOK' = ~policyOK
    /\ UNCHANGED <<file, pc, req, stream, wire, history>>

---------------------------------------------------------------------------
(* What is sent *)

Goes(from, to) == pc = from /\ pc' = to

Answer(status, length, sent) ==
    wire' = Append(wire, [status |-> status, length |-> length, sent |-> sent])

BodyOf(n) == IF req.method = "HEAD" THEN 0 ELSE n

\* _send_text or _send_bytes, and the handler returns ...
Sends(from, status) ==
    /\ Goes(from, "done")
    /\ Answer(status, 1, BodyOf(1))
    /\ UNCHANGED <<file, policyOK, req, stream, history>>

\* ... unless the client does not take it: the write raises.
SendFails(from) ==
    /\ Goes(from, "raised")
    /\ broken' = TRUE
    /\ \/ UNCHANGED wire
       \/ \E s \in Statuses \ {500, 503} : Answer(s, 1, 0)
    /\ UNCHANGED <<file, policyOK, req, stream, admitted, cut, touched>>

Steps(from, to) ==
    /\ Goes(from, to)
    /\ UNCHANGED <<file, policyOK, req, stream, wire, history>>

---------------------------------------------------------------------------
(* do_GET, do_HEAD and _dispatch *)

Receive ==
    /\ Goes("idle", "policy")
    /\ req' \in Requests
    /\ UNCHANGED <<file, policyOK, stream, wire, history>>

\* Variant of CheckPolicy: the health check does not need the policy.
CheckPolicyAfterHealth ==
    /\ policyOK \/ req.route = "health"
    /\ Goes("policy", "route")
    /\ admitted' = policyOK
    /\ UNCHANGED <<file, policyOK, req, stream, wire, broken, cut, touched>>

CheckPolicy ==
    /\ policyOK
    /\ Goes("policy", "route")
    /\ admitted' = TRUE
    /\ UNCHANGED <<file, policyOK, req, stream, wire, broken, cut, touched>>

\* DenylistUnavailable, also from the second denylist() of a page or report.
PolicyMissing ==
    /\ ~policyOK
    /\ \/ pc = "policy"
       \/ pc = "mode" /\ req.mode \in {"text", "hub"}
       \/ pc = "member" /\ req.mode = "hub"
    /\ Steps(pc, "unavailable")

Unavailable == Sends("unavailable", 503)

Health   == req.route = "health" /\ Sends("route", 200)
NotRoute == req.route = "other" /\ Sends("route", 404)
IsRoute  == req.route = "view" /\ Steps("route", "resolve")

\* safe_resolve: refused, not there, or there.
Denied   == Sends("resolve", 403)
NotFound == disk = Gone /\ Sends("resolve", 404)
Found ==
    /\ disk # Gone
    /\ Steps("resolve", IF req.member THEN "member" ELSE "mode")

\* _handle_member: a failure to extract is an answer too; the rest is made from
\* the bytes in memory, and a preview may not exist.
Member == \E s \in IF req.mode = "preview" THEN {200, 404} ELSE {200} : Sends("member", s)

\* Variant of RawDirectory: the return is missing.
RawDirectoryFallingThrough ==
    /\ req.mode = "raw" /\ req.kind = "directory"
    /\ Goes("mode", "open")
    /\ Answer(400, 1, BodyOf(1))
    /\ UNCHANGED <<file, policyOK, req, stream, history>>

RawDirectory ==
    /\ req.mode = "raw" /\ req.kind = "directory"
    /\ Sends("mode", 400)

\* _handle_raw, and _handle_preview_pdf for a PDF on disk.
Streams ==
    /\ \/ req.mode = "raw" /\ req.kind # "directory"
       \/ req.mode = "preview" /\ req.kind = "native"
    /\ Steps("mode", "open")

Preview ==
    /\ req.mode = "preview" /\ req.kind # "native"
    /\ \E s \in {200, 404} : Sends("mode", s)

Page == policyOK /\ req.mode \in {"text", "hub"} /\ Sends("mode", 200)

\* Anything a handler calls may raise: a stat of what is gone, a parser, the policy
\* file with another error than DenylistUnavailable, ...
HandlerRaises == \E at \in {"policy", "route", "resolve", "member", "mode"} : Steps(at, "raised")

HandlerSendFails == \E at \in {"route", "resolve", "member", "mode"} : SendFails(at)

---------------------------------------------------------------------------
(* _stream_file *)

Open ==
    /\ Goes("open", "stat")
    /\ disk # Gone
    /\ fd' = disk
    /\ UNCHANGED <<file, policyOK, req, offset, promise, wire, history>>

\* The file is gone or may not be read, or its fstat fails.
OpenRaises == \E at \in {"open", "stat"} : Steps(at, "raised")

\* Variant of Stat: the path is asked, not the open file.
StatByPath ==
    /\ Goes("stat", "head")
    /\ promise' = IF disk = Gone THEN 0 ELSE size[disk]
    /\ UNCHANGED <<file, policyOK, req, fd, offset, wire, history>>

\* os.fstat of the open file
Stat ==
    /\ Goes("stat", "head")
    /\ promise' = size[fd]
    /\ UNCHANGED <<file, policyOK, req, fd, offset, wire, history>>

StreamHead ==
    /\ Goes("head", IF req.method = "HEAD" THEN "done" ELSE "copy")
    /\ Answer(200, promise, 0)
    /\ UNCHANGED <<file, policyOK, req, stream, history>>

StreamHeadFails ==
    /\ Goes("head", "raised")
    /\ broken' = TRUE
    /\ UNCHANGED wire \/ Answer(200, promise, 0)
    /\ UNCHANGED <<file, policyOK, req, stream, admitted, cut, touched>>

\* Bytes of the open file that are after the position it was read to.
Ahead == IF size[fd] > offset THEN size[fd] - offset ELSE 0

Sent(n) == wire' = [wire EXCEPT ![Len(wire)].sent = @ + n]

\* copyfileobj: a chunk is read and written ...
CopyChunk ==
    /\ pc = "copy" /\ Ahead > 0
    /\ LET n == IF Ahead < Chunk THEN Ahead ELSE Chunk IN
         /\ offset' = offset + n
         /\ Sent(n)
    /\ UNCHANGED <<file, policyOK, pc, req, fd, promise, history>>

\* ... until there are no more bytes.
CopyEnds == pc = "copy" /\ Ahead = 0 /\ Steps("copy", "done")

\* The client is gone or takes too long: a part of the chunk was sent.
CopyFails ==
    /\ Goes("copy", "raised")
    /\ Ahead > 0
    /\ \E n \in 0..(Chunk - 1) : n < Ahead /\ Sent(n)
    /\ broken' = TRUE
    /\ UNCHANGED <<file, policyOK, req, stream, admitted, cut, touched>>

\* The file cannot be read any further, and the client is still there.
CopyReadFails ==
    /\ Goes("copy", "raised")
    /\ cut' = TRUE
    /\ UNCHANGED <<file, policyOK, req, stream, wire, admitted, broken, touched>>

---------------------------------------------------------------------------
(* do_GET's error boundary *)

InternalError == Sends("raised", 500)

\* The 500, or the 503, cannot be sent: nothing more is tried for a 500, and a
\* failure of the 503 is left to socketserver.
ErrorNotSent ==
    /\ \E at \in {"raised", "unavailable"} : Goes(at, "done")
    /\ broken' = TRUE
    /\ UNCHANGED <<file, policyOK, req, stream, wire, admitted, cut, touched>>

\* The connection is closed; HTTP/1.0 has one request on it.
Close ==
    /\ Goes("done", "idle")
    /\ req' = NoRequest
    /\ fd' = Gone /\ offset' = 0 /\ promise' = 0
    /\ wire' = <<>>
    /\ admitted' = FALSE /\ broken' = FALSE /\ cut' = FALSE /\ touched' = FALSE
    /\ UNCHANGED <<file, policyOK>>

---------------------------------------------------------------------------
WorldNext == Replaced \/ Rewritten \/ PolicyChanges

Dispatch ==
    \/ Receive \/ CheckPolicy \/ PolicyMissing \/ Unavailable
    \/ Health \/ NotRoute \/ IsRoute \/ Denied \/ NotFound \/ Found
    \/ Member \/ RawDirectory \/ Streams \/ Preview \/ Page
    \/ HandlerRaises \/ HandlerSendFails \/ InternalError \/ ErrorNotSent \/ Close

StreamFile ==
    \/ Open \/ OpenRaises \/ Stat \/ StreamHead \/ StreamHeadFails
    \/ CopyChunk \/ CopyEnds \/ CopyFails \/ CopyReadFails

Next == WorldNext \/ Dispatch \/ StreamFile

Spec == Init /\ [][Next]_vars

---------------------------------------------------------------------------
(* Properties *)

\* A request is answered exactly once, whatever branch it takes and whatever
\* raises in it, but for two failures in the middle of an answer: the client does
\* not take it, or the file being streamed cannot be read to its end.  Only then
\* does a second head follow, which is a 500 (app.py:135-162).
AnsweredOnce ==
    /\ pc = "done" /\ ~broken /\ ~cut => Len(wire) = 1
    /\ Len(wire) = 2 => (broken \/ cut) /\ wire[2].status = 500

\* Nothing is answered without the access policy but 503 and 500, "before ANY
\* route, including health" (app.py:165-167).
PolicyFirst ==
    \A i \in 1..Len(wire) : wire[i].status \notin {500, 503} => admitted

\* A HEAD is answered by heads alone, errors included (app.py:120, 128, 141).
HeadHasNoBody ==
    req.method = "HEAD" => \A i \in 1..Len(wire) : wire[i].sent = 0

\* A complete answer has exactly the announced length, also when the path leads
\* to another file since: "Content-Length describes the file descriptor
\* actually streamed, rather than a separate path stat" (app.py:132-133).  Only
\* a file rewritten in place, or one that cannot be read to its end, breaks it.
LengthIsExact ==
    pc = "done" /\ ~broken /\ ~cut /\ ~touched /\ req.method = "GET" =>
        wire[1].sent = wire[1].length
=============================================================================
