-------------------------- MODULE ResourceStreams ----------------------------
(***************************************************************************)
(* One resource channel of a protocol session, from the daemon to the      *)
(* user of the client: the raw output of an attached terminal              *)
(* (core/raw_pty_stream.go, core/raw_pty_protocol.go) or the download of a *)
(* file (core/file_transfer.go), the streams of the protocol client        *)
(* (internal/protocol/client.go), and the code that opens, reads and       *)
(* closes them (client/adapter/protocol/application_client.go,             *)
(* cmd/anytty/file_command.go).                                            *)
(*                                                                         *)
(* Threads: in the daemon the read loop, the download or one forwarder for *)
(* each start of the raw stream, and the pump of the terminal; in the      *)
(* client the read loop, one goroutine for each stream, and the user.  A   *)
(* step is one critical section, one frame sent or one frame handed over.  *)
(* A chunk is one unit of payload: the limits on frames and on bytes of a  *)
(* stream are one limit here.  The connection is up throughout.            *)
(***************************************************************************)
EXTENDS Integers, Sequences, FiniteSets

CONSTANTS
    Kinds,            \* kinds of resource: a subset of {"file", "attachment"}
    FileChunks,       \* chunks of the file
    Window,           \* chunks the daemon may send ahead (fileTransferWindowBytes)
    AckWhen,          \* the user acknowledges each "chunk" or each "window"
    RawChunks,        \* chunks that the terminal writes
    SubscriberQueue,  \* rawPTYStreamQueueChunks
    StreamQueue,      \* queueLimit of a client stream
    MaxOpens          \* times the user opens the stream

ASSUME StreamAssumption ==
    /\ Kinds \subseteq {"file", "attachment"}
    /\ FileChunks \in Nat /\ Window \in Nat \ {0}
    /\ AckWhen \in {"chunk", "window"}
    /\ RawChunks \in Nat /\ SubscriberQueue \in Nat \ {0}
    /\ StreamQueue \in Nat \ {0} /\ MaxOpens \in Nat \ {0}

Openings == 1..MaxOpens

VARIABLES
    resource,   \* the kind of this resource
    download,   \* runFileDownload: offset, credit, its channel of acks
    published,  \* chunks that the terminal has written
    rawOpen,    \* the broadcaster of the running process is open
    forwarder,  \* the subscription and the forwarder of each start
    started,    \* number of starts
    rawStream,  \* session.rawPTYStreams[channel]: a start, or 0
    toDaemon,   \* frames on their way
    toClient,
    current,    \* client.streams[channel]: an opening, or 0
    retired,    \* the channel is in client.dropped
    early,      \* client.pending[channel]
    opener,     \* early frames that the binding has not yet passed on
    stream,     \* the client stream of each opening
    user        \* the code that uses the stream

daemonVars == <<download, published, rawOpen, forwarder, started, rawStream>>
clientVars == <<current, retired, early, opener>>
streamVars == <<resource, daemonVars, toDaemon, toClient, clientVars, stream, user>>

Frame(type, n) == [type |-> type, n |-> n]
NoFrame == Frame("none", 0)
Ack(offset, credit) == [type |-> "ack", offset |-> offset, credit |-> credit]
Signal(type) == [type |-> type, offset |-> 0, credit |-> 0]

NoForwarder == [pc |-> "none", sub |-> "none", queued |-> 0, cancelled |-> FALSE]
NoStream == [open |-> FALSE, queue |-> << >>, hand |-> NoFrame, given |-> FALSE,
             retained |-> 0, closed |-> FALSE, overflow |-> FALSE,
             lostSent |-> FALSE, lost |-> 0, terminal |-> FALSE, over |-> FALSE,
             offered |-> 0, taken |-> 0]
NoUser == [pc |-> "bind", opens |-> 0, offset |-> 0, acked |-> 0, failed |-> "no"]

\* A resource that has just been opened: an attachment is bound and nothing is
\* sent before the user asks for it; openFileDownload has started its goroutine.
StreamInit ==
    /\ resource \in Kinds
    /\ download = [pc |-> IF resource = "file" THEN "run" ELSE "done",
                   registered |-> resource = "file", offset |-> 0, credit |-> Window,
                   acks |-> << >>]
    /\ published = 0
    /\ rawOpen = TRUE
    /\ forwarder = [i \in Openings |-> NoForwarder]
    /\ started = 0
    /\ rawStream = 0
    /\ toDaemon = << >>
    /\ toClient = << >>
    /\ current = 0
    /\ retired = FALSE
    /\ early = << >>
    /\ opener = << >>
    /\ stream = [j \in Openings |-> NoStream]
    /\ user = NoUser

SendFrame(frame) == toClient' = Append(toClient, frame)

-----------------------------------------------------------------------------
(* The download in the daemon.                                             *)

\* Mutant: one chunk is sent without credit.
MaySendOneMore == download.credit >= 0

\* The credit loop of runFileDownload is left.
MaySend == download.credit > 0

\* The next chunk.  A transfer that releaseFileTransfer has taken out of the maps
\* goes on until its file is closed, and then cannot read it.
SendData ==
    /\ download.pc = "run"
    /\ download.offset < FileChunks
    /\ MaySend
    /\ \/ /\ SendFrame(Frame("data", download.offset))
          /\ download' = [download EXCEPT !.offset = @ + 1, !.credit = @ - 1]
       \/ /\ ~download.registered
          /\ SendFrame(Frame("error", 0))
          /\ download' = [download EXCEPT !.pc = "done"]
    /\ UNCHANGED <<resource, published, rawOpen, forwarder, started, rawStream,
                   toDaemon, clientVars, stream, user>>

\* Without credit the download waits for an ack or for its cancellation.
TakeAck ==
    /\ download.pc = "run"
    /\ download.offset < FileChunks
    /\ ~MaySend
    /\ \/ /\ download.acks # << >>
          /\ LET ack == Head(download.acks) IN
             IF ack.offset = download.offset /\ ack.credit =< Window
             THEN /\ download' = [download EXCEPT !.acks = << >>,
                                                  !.credit = @ + ack.credit]
                  /\ UNCHANGED toClient
             ELSE /\ SendFrame(Frame("error", 0))
                  /\ download' = [download EXCEPT !.acks = << >>, !.pc = "release"]
       \/ /\ ~download.registered
          /\ download' = [download EXCEPT !.pc = "done"]
          /\ UNCHANGED toClient
    /\ UNCHANGED <<resource, published, rawOpen, forwarder, started, rawStream,
                   toDaemon, clientVars, stream, user>>

SendFinish ==
    /\ download.pc = "run"
    /\ download.offset = FileChunks
    /\ SendFrame(Frame("finish", FileChunks))
    /\ download' = [download EXCEPT !.pc = "release"]
    /\ UNCHANGED <<resource, published, rawOpen, forwarder, started, rawStream,
                   toDaemon, clientVars, stream, user>>

ReleaseFileTransfer ==
    /\ download.pc = "release"
    /\ download' = [download EXCEPT !.pc = "done", !.registered = FALSE]
    /\ UNCHANGED <<resource, published, rawOpen, forwarder, started, rawStream,
                   toDaemon, toClient, clientVars, stream, user>>

\* handleFileTransferFrame: an ack that nobody has taken yet refuses the next
\* one.  A channel without a transfer is an error as well.
ReceiveAck(ack) ==
    /\ IF download.registered /\ download.acks = << >>
       THEN /\ download' = [download EXCEPT !.acks = <<ack>>]
            /\ UNCHANGED toClient
       ELSE /\ SendFrame(Frame("error", 0))
            /\ UNCHANGED download
    /\ UNCHANGED <<forwarder, started, rawStream>>

\* cancelCurrentFileTransfer.
ReceiveCancel ==
    /\ download' = [download EXCEPT !.registered = FALSE]
    /\ UNCHANGED <<toClient, forwarder, started, rawStream>>

-----------------------------------------------------------------------------
(* The raw output in the daemon.                                           *)

\* A chunk for one subscriber: at its limit the subscription ends.
Offered(f) ==
    IF f.sub # "open" THEN f
    ELSE IF f.queued < SubscriberQueue THEN [f EXCEPT !.queued = @ + 1]
    ELSE [f EXCEPT !.sub = "overflow"]

\* rawPTYBroadcaster.publish.
PublishRaw ==
    /\ resource = "attachment"
    /\ rawOpen
    /\ published < RawChunks
    /\ published' = published + 1
    /\ forwarder' = [i \in Openings |-> Offered(forwarder[i])]
    /\ UNCHANGED <<resource, download, rawOpen, started, rawStream, toDaemon,
                   toClient, clientVars, stream, user>>

\* rawPTYBroadcaster.close: the process has exited.
CloseRaw ==
    /\ resource = "attachment"
    /\ rawOpen
    /\ rawOpen' = FALSE
    /\ forwarder' = [i \in Openings |->
          IF forwarder[i].sub = "open" THEN [forwarder[i] EXCEPT !.sub = "eof"]
          ELSE forwarder[i]]
    /\ UNCHANGED <<resource, download, published, started, rawStream, toDaemon,
                   toClient, clientVars, stream, user>>

\* startRawPTYStream: subscribes, announces the stream and starts the forwarder.
\* Output that comes between the two waits in the subscription.
StartRaw ==
    /\ IF rawStream # 0
       THEN /\ SendFrame(Frame("error", 0))
            /\ UNCHANGED <<forwarder, started, rawStream>>
       ELSE /\ started' = started + 1
            /\ rawStream' = started + 1
            /\ forwarder' = [forwarder EXCEPT ![started + 1] =
                  [NoForwarder EXCEPT !.pc = "receive",
                                      !.sub = IF rawOpen THEN "open" ELSE "eof"]]
            /\ SendFrame(Frame("ready", 0))
    /\ UNCHANGED download

\* stopRawPTYStream: the context ends the subscription and what it holds.
Cancelled(f) == [f EXCEPT !.cancelled = TRUE, !.sub = "cancelled", !.queued = 0]

StopRaw ==
    /\ rawStream' = 0
    /\ forwarder' = IF rawStream = 0 THEN forwarder
                    ELSE [forwarder EXCEPT ![rawStream] = Cancelled(@)]
    /\ UNCHANGED <<download, started, toClient>>

\* The read loop of the session: handleStreamFrame, and the request that
\* cancels a download.
DaemonReads ==
    /\ toDaemon # << >>
    /\ LET frame == Head(toDaemon) IN
       \/ frame.type = "ack" /\ ReceiveAck(frame)
       \/ frame.type = "cancel" /\ ReceiveCancel
       \/ frame.type = "start" /\ StartRaw
       \/ frame.type = "stop" /\ StopRaw
    /\ toDaemon' = Tail(toDaemon)
    /\ UNCHANGED <<resource, published, rawOpen, clientVars, stream, user>>

\* A step of forwarder i that sends one frame, or none.
Forward(i, f, frame) ==
    /\ forwarder' = [forwarder EXCEPT ![i] = f]
    /\ IF frame = NoFrame THEN UNCHANGED toClient ELSE SendFrame(frame)
    /\ UNCHANGED <<resource, download, published, rawOpen, started, toDaemon,
                   clientVars, stream, user>>

\* subscription.receive and the check of the context that follows it.
ReceiveRaw(i) ==
    LET f == forwarder[i] IN
    /\ f.pc = "receive"
    /\ \/ /\ f.cancelled
          /\ Forward(i, [f EXCEPT !.pc = "clear"], NoFrame)
       \/ /\ ~f.cancelled
          /\ f.queued > 0
          /\ Forward(i, [f EXCEPT !.pc = "send", !.queued = @ - 1], NoFrame)
       \/ /\ ~f.cancelled
          /\ f.queued = 0
          /\ f.sub # "open"
          /\ Forward(i, [f EXCEPT !.pc = IF f.sub = "overflow" THEN "lost"
                                         ELSE "closed"], NoFrame)
    /\ UNCHANGED rawStream

\* The frames of forwardRawPTYStream; nothing looks at the context again.
SendRaw(i) ==
    LET f == forwarder[i] IN
    /\ \/ /\ f.pc = "send"
          /\ Forward(i, [f EXCEPT !.pc = "receive"], Frame("output", 1))
       \/ /\ f.pc = "lost"
          /\ Forward(i, [f EXCEPT !.pc = "closed"], Frame("synclost", 1))
       \/ /\ f.pc = "closed"
          /\ Forward(i, [f EXCEPT !.pc = "clear"], Frame("closed", 0))
    /\ UNCHANGED rawStream

\* clearRawPTYStream removes this stream only.
ClearRaw(i) ==
    /\ forwarder[i].pc = "clear"
    /\ Forward(i, [NoForwarder EXCEPT !.pc = "done"], NoFrame)
    /\ rawStream' = IF rawStream = i THEN 0 ELSE rawStream

-----------------------------------------------------------------------------
(* The streams of the client.                                              *)

\* The frames that the client makes itself hold no place in the queue.
Counts(frame) == frame.type \notin {"none", "exhausted", "overrun"}
Count(P(_), frames) == Cardinality({i \in DOMAIN frames : P(frames[i])})
IsOutput(frame) == frame.type = "output"

\* Mutant: the places of the discarded frames stay taken.
ResetQueueOnly(s) == [s EXCEPT !.queue = << >>]

\* resetQueueLocked.
ResetQueue(s) == [s EXCEPT !.retained = @ - Count(Counts, s.queue), !.queue = << >>]

\* Mutant: the frame that finds the queue full is not counted.
OverflowUncounted(s, frame) ==
    IF IsOutput(frame) THEN [s EXCEPT !.overflow = TRUE]
    ELSE [ResetQueue(s) EXCEPT !.queue = <<Frame("exhausted", 0)>>, !.terminal = TRUE]

\* overflowLocked; a stream without output ends with an error (failLocked).
Overflow(s, frame) ==
    IF IsOutput(frame) THEN [s EXCEPT !.overflow = TRUE, !.lost = @ + 1]
    ELSE [ResetQueue(s) EXCEPT !.queue = <<Frame("exhausted", 0)>>, !.terminal = TRUE]

\* clientStream.send.
Sent(s, frame) ==
    IF s.closed \/ s.lostSent \/ s.terminal THEN s
    ELSE LET o == [s EXCEPT !.offered = IF IsOutput(frame) THEN @ + 1 ELSE @] IN
         IF s.overflow
         THEN [o EXCEPT !.lost = IF IsOutput(frame) THEN @ + 1 ELSE @]
         ELSE IF s.retained >= StreamQueue THEN Overflow(o, frame)
         ELSE [o EXCEPT !.queue = Append(@, frame), !.retained = @ + 1]

\* clientStream.close; what was offered and taken no longer matters.
ShutStream(s) == [ResetQueue(s) EXCEPT !.closed = TRUE, !.offered = 0, !.taken = 0, !.lost = 0]

\* The goroutine of the stream has returned.
Ended(s) == [NoStream EXCEPT !.open = TRUE, !.closed = TRUE, !.over = TRUE,
                             !.retained = s.retained]

\* readLoop: a frame for a channel without a stream is kept for the one that
\* will be bound; those of a channel that was left are discarded when it is
\* opened again.  A stream that is closed between the lookup under client.mu
\* and the send drops the frame, as it drops what it already holds: the two
\* are one step.
ClientReads ==
    /\ toClient # << >>
    /\ toClient' = Tail(toClient)
    /\ IF current = 0
       THEN /\ early' = IF retired THEN early ELSE Append(early, Head(toClient))
            /\ UNCHANGED stream
       ELSE /\ stream' = [stream EXCEPT ![current] = Sent(@, Head(toClient))]
            /\ UNCHANGED early
    /\ UNCHANGED <<resource, daemonVars, toDaemon, current, retired, opener, user>>

\* A step of the goroutine of stream j.
RunStream(j, s) ==
    /\ stream' = [stream EXCEPT ![j] = s]
    /\ UNCHANGED <<resource, daemonVars, toDaemon, toClient, clientVars, user>>

\* nextFrame.
NextFrame(j) ==
    LET s == stream[j] IN
    /\ s.open /\ ~s.over
    /\ s.hand = NoFrame
    /\ \/ /\ s.queue # << >>
          /\ RunStream(j, [s EXCEPT !.hand = Head(s.queue), !.queue = Tail(s.queue)])
       \/ /\ s.queue = << >> /\ ~s.closed
          /\ s.overflow /\ ~s.lostSent
          /\ RunStream(j, [s EXCEPT !.lostSent = TRUE, !.hand = Frame("overrun", s.lost)])
       \/ /\ s.queue = << >>
          /\ s.closed \/ s.lostSent \/ s.terminal
          /\ RunStream(j, Ended(s))

\* releaseFrame, after the user has taken the frame or the stream was closed.
ReleaseFrame(j) ==
    LET s == stream[j] IN
    /\ s.hand # NoFrame
    /\ s.given \/ s.closed
    /\ LET released == [s EXCEPT !.hand = NoFrame, !.given = FALSE,
                            !.retained = IF Counts(s.hand) THEN @ - 1 ELSE @] IN
       RunStream(j, IF s.given THEN released ELSE Ended(released))

-----------------------------------------------------------------------------
(* The user of the resource.                                               *)

\* bindApplicationAttachment, when the answer to the request has come, and
\* Stream when the output of an attachment is opened again: a new stream takes
\* the early frames.  The first Stream finds the stream of the binding.
OpenStream ==
    /\ \/ user.pc = "bind"
       \/ user.pc = "idle" /\ user.opens < MaxOpens
    /\ current = 0
    /\ user' = [user EXCEPT !.pc = "bound", !.opens = @ + 1]
    /\ current' = user.opens + 1
    /\ stream' = [stream EXCEPT ![user.opens + 1].open = TRUE]
    /\ retired' = FALSE
    /\ opener' = early
    /\ early' = << >>
    /\ UNCHANGED <<resource, daemonVars, toDaemon, toClient>>

\* The early frames are passed on after client.mu has been released.
SendEarly ==
    /\ user.pc = "bound"
    /\ opener # << >>
    /\ stream' = [stream EXCEPT ![user.opens] = Sent(@, Head(opener))]
    /\ opener' = Tail(opener)
    /\ UNCHANGED <<resource, daemonVars, toDaemon, toClient, current, retired,
                   early, user>>

\* OpenResourceStream: an attachment asks for its output.
StartStream ==
    /\ user.pc = "bound"
    /\ opener = << >>
    /\ IF resource = "file"
       THEN /\ user' = [user EXCEPT !.pc = "receive"]
            /\ UNCHANGED toDaemon
       ELSE /\ user' = [user EXCEPT !.pc = "await"]
            /\ toDaemon' = Append(toDaemon, Signal("start"))
    /\ UNCHANGED <<resource, daemonVars, toClient, clientVars, stream>>

\* The user takes the frame that its stream offers and goes on as u.
Take(frame, u) ==
    LET s == stream[user.opens] IN
    /\ s.hand = frame /\ frame # NoFrame /\ ~s.given
    /\ stream' = [stream EXCEPT ![user.opens].given = TRUE,
                                ![user.opens].taken = IF IsOutput(frame) THEN @ + 1 ELSE @]
    /\ user' = u
    /\ UNCHANGED <<resource, daemonVars, toClient, clientVars>>

\* awaitReady: the first frame decides.
AwaitReady ==
    LET frame == stream[user.opens].hand IN
    /\ user.pc = "await"
    /\ Take(frame, [user EXCEPT !.pc = IF frame.type = "ready" THEN "receive"
                                       ELSE "close"])
    /\ UNCHANGED toDaemon

\* applicationResourceStream.Receive of an attachment.
ReceiveOutput ==
    LET frame == stream[user.opens].hand IN
    /\ user.pc = "receive" /\ resource = "attachment"
    /\ Take(frame, [user EXCEPT !.pc =
             IF frame.type \in {"closed", "synclost", "overrun"} THEN "close" ELSE @])
    /\ UNCHANGED toDaemon

\* downloadEndpointFile: the chunk expected is written and acknowledged, each
\* chunk or each window.
ReceiveData ==
    LET frame == stream[user.opens].hand
        next == user.offset + 1
        acks == AckWhen = "chunk" \/ next - user.acked >= Window
    IN
    /\ user.pc = "receive" /\ resource = "file"
    /\ frame.type = "data"
    /\ IF frame.n # user.offset
       THEN /\ Take(frame, [user EXCEPT !.pc = "close", !.failed = "order"])
            /\ UNCHANGED toDaemon
       ELSE /\ Take(frame, [user EXCEPT !.offset = next,
                                        !.acked = IF acks THEN next ELSE @])
            /\ toDaemon' = IF acks THEN Append(toDaemon, Ack(next, next - user.acked))
                           ELSE toDaemon

\* The end of a download: complete, with the wrong size, or refused.
ReceiveEnd ==
    LET frame == stream[user.opens].hand IN
    /\ user.pc = "receive" /\ resource = "file"
    /\ frame.type \in {"finish", "error", "exhausted"}
    /\ Take(frame, [user EXCEPT !.pc = "close", !.failed =
             IF frame.type # "finish" THEN "refused"
             ELSE IF frame.n # user.offset THEN "order" ELSE "complete"])
    /\ UNCHANGED toDaemon

\* The user leaves when it likes, when awaitReady times out, or at the end of
\* the stream.
Leave ==
    /\ user.pc \in {"await", "receive"}
    /\ user' = [user EXCEPT !.pc = "close"]
    /\ UNCHANGED <<resource, daemonVars, toDaemon, toClient, clientVars, stream>>

\* applicationResourceStream.Close announces the end of an attachment's output.
CloseStream ==
    /\ user.pc = "close"
    /\ user' = [user EXCEPT !.pc = "stop"]
    /\ toDaemon' = IF resource = "attachment" THEN Append(toDaemon, Signal("stop"))
                   ELSE toDaemon
    /\ UNCHANGED <<resource, daemonVars, toClient, clientVars, stream>>

\* The stop function of Stream; a download that is not complete is cancelled.
StopStream ==
    /\ user.pc = "stop"
    /\ current' = 0
    /\ retired' = TRUE
    /\ early' = << >>
    /\ stream' = [stream EXCEPT ![user.opens] = ShutStream(@)]
    /\ user' = [user EXCEPT !.pc = IF resource = "attachment" THEN "idle" ELSE "over"]
    /\ toDaemon' = IF resource = "file" /\ user.failed # "complete"
                   THEN Append(toDaemon, Signal("cancel")) ELSE toDaemon
    /\ UNCHANGED <<resource, daemonVars, toClient, opener>>

StreamNext ==
    \/ SendData \/ TakeAck \/ SendFinish \/ ReleaseFileTransfer
    \/ PublishRaw \/ CloseRaw \/ DaemonReads
    \/ \E i \in Openings :
          ReceiveRaw(i) \/ SendRaw(i) \/ ClearRaw(i)
    \/ ClientReads
    \/ \E j \in Openings : NextFrame(j) \/ ReleaseFrame(j)
    \/ OpenStream \/ SendEarly \/ StartStream
    \/ AwaitReady \/ ReceiveOutput \/ ReceiveData \/ ReceiveEnd
    \/ Leave \/ CloseStream \/ StopStream

StreamSpec == StreamInit /\ [][StreamNext]_streamVars

-----------------------------------------------------------------------------
(* Properties.                                                             *)

\* The daemon never has more chunks outstanding than its window beyond what
\* the user has acknowledged, whatever is in transit between them.
WindowHeld == download.offset - user.acked =< Window

\* retainedFrames counts the frames of the queue and the one in hand, through
\* overflow, errors and closing: a leak would end the stream early.
RetainedExact ==
    \A j \in Openings : stream[j].retained =
        Count(Counts, stream[j].queue) + (IF Counts(stream[j].hand) THEN 1 ELSE 0)

\* Output that the client drops is reported: as long as a stream lives, each
\* output frame offered to it was taken, waits, or is counted as lost.
SyncLostExact ==
    \A j \in Openings :
        LET s == stream[j] IN
        ~s.closed /\ ~s.terminal =>
            s.offered = s.taken + s.lost + Count(IsOutput, s.queue)
                        + (IF IsOutput(s.hand) /\ ~s.given THEN 1 ELSE 0)

\* file_transfer_payload.go: a transfer channel carries its chunks in order.
\* The user of a download never meets another chunk than the next one.
DataInOrder == user.failed # "order"

\* file_transfer_payload.go: an ack tells the position and the window that the
\* sender may go on with.  A download that only acknowledges what it has
\* received is not refused.
AckAccepted == user.failed # "refused"
=============================================================================
