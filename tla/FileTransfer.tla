------------------------------ MODULE FileTransfer -------------------------------
(***************************************************************************)
(* One file sent between the server and a web client over nostr relays:    *)
(* the handshake of FileSender and FileReceiver (download, upload,         *)
(* upload_ready and upload_done events) around the stream of               *)
(* StreamChannel. Either the client's service worker downloads a file,     *)
(* which the server then uploads, or the client uploads one itself.        *)
(* The handshake's events are ephemeral like the chunks: whoever does not  *)
(* expect one when it is forwarded never sees it.                          *)
(***************************************************************************)
EXTENDS StreamChannel

VARIABLES
    mode,     \* "download": asked for by the receiver; "upload": by the sender
    down,     \* the promise of FileReceiver.download
    up,       \* the state of FileSender.upload and of its promise
    stopped,  \* FileSender.stop was called
    rx,       \* FileReceiver.processUploadEvent
    msgs,     \* handshake events on their way
    cache     \* the service worker's cache entry of the file

handshake == <<mode, down, up, stopped, rx, msgs, cache>>
vars == <<streamVars, handshake>>

FileTypeOK ==
    /\ TypeOK
    /\ mode \in {"download", "upload"}
    /\ down \in {"none", "pending", "taken", "resolved", "rejected"}
    /\ up \in {"idle", "publishing", "pending", "streaming", "waiting",
               "resolved", "rejected"}
    /\ stopped \in BOOLEAN
    /\ rx \in {"idle", "accepted", "answering", "reading", "saved", "end", "failed"}
    /\ msgs \subseteq {"download", "upload", "ready", "done"}
    /\ cache \in {"none", "whole", "failure"}

Init ==
    /\ StreamInit
    /\ mode \in {"download", "upload"}
    /\ down = "none" /\ up = "idle" /\ stopped = FALSE /\ rx = "idle"
    /\ msgs = {} /\ cache = "none"

---------------------------------------------------------------------------
(* The receiver's side.                                                    *)

\* download(): the request is pending before it is published. A file in the
\* cache is not asked for.
Download ==
    /\ mode = "download" /\ down = "none" /\ cache = "none"
    /\ down' = "pending" /\ msgs' = msgs \cup {"download"}
    /\ UNCHANGED <<streamVars, mode, up, stopped, rx, cache>>

\* The timer of 60 seconds, or no relay acknowledged the request; the service
\* worker answers 503 and puts the answer into its cache.
DownloadFails ==
    /\ down = "pending"
    /\ down' = "rejected" /\ cache' = "failure"
    /\ UNCHANGED <<streamVars, mode, up, stopped, rx, msgs>>

\* handleUploadEvent: an upload nobody waits for is ignored
OnUpload ==
    /\ "upload" \in msgs
    /\ msgs' = msgs \ {"upload"}
    /\ IF mode = "upload" \/ down = "pending"
       THEN /\ rx' = "accepted"
            /\ down' = IF mode = "download" THEN "taken" ELSE down
       ELSE UNCHANGED <<rx, down>>
    /\ UNCHANGED <<streamVars, mode, up, stopped, cache>>

\* sendUploadReady: the event goes out before its publication is awaited
SendReady ==
    /\ rx = "accepted"
    /\ rx' = "answering" /\ msgs' = msgs \cup {"ready"}
    /\ UNCHANGED <<streamVars, mode, down, up, stopped, cache>>

\* Fault: the download is not rejected when the answer cannot be sent.
ReadyFails_Silently ==
    /\ rx = "answering"
    /\ rx' = "failed"
    /\ UNCHANGED <<streamVars, mode, down, up, stopped, msgs, cache>>

\* ... and only then the reader exists and the promise is resolved with it
CreateReader ==
    /\ rx = "answering"
    /\ rx' = "reading"
    /\ down' = IF mode = "download" THEN "resolved" ELSE down
    /\ UNCHANGED <<streamVars, mode, up, stopped, msgs, cache>>

ReadyFails ==
    /\ rx = "answering"
    /\ rx' = "failed"
    /\ IF mode = "download" THEN down' = "rejected" /\ cache' = "failure"
                            ELSE UNCHANGED <<down, cache>>
    /\ UNCHANGED <<streamVars, mode, up, stopped, msgs>>

\* The server's handleUpload and the service worker's response iterate
Iterate == rx = "reading" /\ Start /\ UNCHANGED handshake
AskNext == rx = "reading" /\ NextCall /\ UNCHANGED handshake

\* handleUpload throws on a file over its limit; a response does not leave
LeaveLoop == mode = "upload" /\ rx = "reading" /\ Leave /\ UNCHANGED handshake

\* Fault: the result is sent however the loop ended.
LoopEnds_SavesAnyway ==
    /\ rx = "reading" /\ told # "no"
    /\ rx' = (IF mode = "upload" THEN "saved" ELSE "end")
    /\ UNCHANGED <<streamVars, mode, down, up, stopped, msgs, cache>>

\* Fault: whatever was received is cached.
LoopEnds_CachesPrefix ==
    /\ rx = "reading" /\ told # "no"
    /\ rx' = (IF mode = "upload" THEN "saved" ELSE "end")
    /\ cache' = IF mode = "download" THEN "whole" ELSE cache
    /\ UNCHANGED <<streamVars, mode, down, up, stopped, msgs>>

\* The loop is over: the server stores the file, or the response ends and its
\* copy enters the cache; a failed response rejects cache.put.
LoopEnds ==
    /\ rx = "reading" /\ told # "no"
    /\ rx' = (IF told # "done" THEN "failed"
              ELSE IF mode = "upload" THEN "saved" ELSE "end")
    /\ cache' = IF mode = "download" /\ told = "done" THEN "whole" ELSE cache
    /\ UNCHANGED <<streamVars, mode, down, up, stopped, msgs>>

\* sendUploadDone, with what onUpload returned
SendDone ==
    /\ rx = "saved"
    /\ rx' = "end" /\ msgs' = msgs \cup {"done"}
    /\ UNCHANGED <<streamVars, mode, down, up, stopped, cache>>

---------------------------------------------------------------------------
(* The sender's side.                                                      *)

\* The server's handleDownload calls upload() with the id of the request;
\* the client calls it for a file of its own.
Upload ==
    /\ up = "idle"
    /\ mode = "download" => "download" \in msgs
    /\ up' = "publishing"
    /\ msgs' = (msgs \ {"download"}) \cup {"upload"}
    /\ UNCHANGED <<streamVars, mode, down, stopped, rx, cache>>

\* publish() has heard from every relay: the upload becomes pending only now
UploadPending ==
    /\ up = "publishing"
    /\ up' = "pending"
    /\ UNCHANGED <<streamVars, mode, down, stopped, rx, msgs, cache>>

UploadNotPublished ==
    /\ up = "publishing"
    /\ up' = "rejected"
    /\ UNCHANGED <<streamVars, mode, down, stopped, rx, msgs, cache>>

\* handleUploadReadyEvent: without a pending upload it is ignored
OnReady ==
    /\ "ready" \in msgs
    /\ msgs' = msgs \ {"ready"}
    /\ up' = IF up = "pending" /\ ~stopped THEN "streaming" ELSE up
    /\ UNCHANGED <<streamVars, mode, down, stopped, rx, cache>>

\* The timers of 60 seconds, for the answer and for the result
UploadTimesOut ==
    /\ up \in {"pending", "waiting"}
    /\ up' = "rejected"
    /\ UNCHANGED <<streamVars, mode, down, stopped, rx, msgs, cache>>

SendPart == up = "streaming" /\ UNCHANGED handshake
            /\ (WriteDone \/ \E flush \in BOOLEAN : Write(flush))

\* The source cannot be read, or write() throws: the promise is rejected, the
\* stream is left as it is
StreamFails ==
    /\ up = "streaming"
    /\ wError \/ ~wDone
    /\ up' = "rejected"
    /\ UNCHANGED <<streamVars, mode, down, stopped, rx, msgs, cache>>

\* write(.., true) returned: a download is done, an upload waits for the result
StreamEnds ==
    /\ up = "streaming" /\ WriterReturned
    /\ up' = IF mode = "download" THEN "resolved" ELSE "waiting"
    /\ UNCHANGED <<streamVars, mode, down, stopped, rx, msgs, cache>>

\* handleUploadDoneEvent: ignored unless the upload waits for it
OnDone ==
    /\ "done" \in msgs
    /\ msgs' = msgs \ {"done"}
    /\ up' = IF up = "waiting" /\ ~stopped THEN "resolved" ELSE up
    /\ UNCHANGED <<streamVars, mode, down, stopped, rx, cache>>

\* The server replaces its senders when its peers change; an upload between
\* two entries of pendingUploads goes on in the stopped one.
StopSender ==
    /\ mode = "download" /\ ~stopped
    /\ stopped' = TRUE
    /\ up' = IF up \in {"pending", "waiting"} THEN "rejected" ELSE up
    /\ UNCHANGED <<streamVars, mode, down, rx, msgs, cache>>

LoseMsg(m) ==
    /\ m \in msgs
    /\ msgs' = msgs \ {m}
    /\ UNCHANGED <<streamVars, mode, down, up, stopped, rx, cache>>

---------------------------------------------------------------------------
Publishing == UNCHANGED handshake /\
    \/ \E n \in Ids : PublishSettles(n)
    \/ \E n \in Ids, flush \in BOOLEAN : PublishFails(n, flush)

Forwarding == UNCHANGED handshake /\
    \/ \E r \in Relays, n \in Ids : HandleEvent(r, n)
    \/ \E r \in Relays, n \in Ids : LoseChunk(r, n)

Processing == UNCHANGED handshake /\
    \E i \in DOMAIN procs : ChunkProcessed(i) \/ ChunkRejected(i)

Expiring == TtlExpires /\ UNCHANGED handshake

ReceiverNext == \/ Download \/ DownloadFails \/ OnUpload \/ SendReady
                \/ CreateReader \/ ReadyFails \/ Iterate \/ AskNext \/ LeaveLoop
                \/ LoopEnds \/ SendDone

SenderNext == \/ Upload \/ UploadPending \/ UploadNotPublished \/ OnReady
              \/ UploadTimesOut \/ SendPart \/ StreamFails \/ StreamEnds
              \/ OnDone \/ StopSender

Next == \/ ReceiverNext \/ SenderNext
        \/ \E m \in msgs : LoseMsg(m)
        \/ Publishing \/ Forwarding \/ Processing \/ Expiring

\* Publications and timers end, decryption ends, and the two sides take their
\* next step; no message is owed an arrival, no user a click.
Fairness ==
    /\ WF_vars(UploadPending \/ UploadNotPublished)
    /\ WF_vars(UploadTimesOut)
    /\ WF_vars(SendPart)
    /\ WF_vars(StreamFails \/ StreamEnds)
    /\ \A n \in 1 .. 2 * MaxParts + 2 + MaxFailures :
          WF_vars(n \in Ids /\ PublishSettles(n) /\ UNCHANGED handshake)
    /\ WF_vars(DownloadFails)
    /\ WF_vars(SendReady) /\ WF_vars(CreateReader \/ ReadyFails)
    /\ WF_vars(Iterate) /\ WF_vars(AskNext) /\ WF_vars(LoopEnds)
    /\ WF_vars(Processing) /\ WF_vars(Expiring)

Spec == Init /\ [][Next]_vars /\ Fairness

---------------------------------------------------------------------------
\* A client is given the record of an uploaded file only if the server read
\* the whole file and stored it (handleUploadDoneEvent resolves with it).
UploadResultMeansSaved ==
    mode = "upload" /\ up = "resolved" => rx = "end" /\ told = "done" /\ taken = parts

\* The handshake goes one way: an upload is announced once, before anybody
\* reads, it is read for a download that was taken, and its result is sent for
\* a file that was read to its end.
OneWay ==
    /\ up = "idle" => "upload" \notin msgs /\ rx = "idle"
    /\ "upload" \in msgs => rx = "idle"
    /\ rx \in {"accepted", "answering"} /\ mode = "download" => down = "taken"
    /\ rx = "saved" \/ (rx = "end" /\ mode = "upload") => told = "done"
    /\ "done" \in msgs => rx = "end"
    /\ up = "waiting" \/ (up = "resolved" /\ mode = "upload") => taken = parts

\* A response that enters the cache as a file is the whole file.
CachedFilesAreWhole ==
    cache = "whole" => /\ told = "done"
                       /\ received # <<>> /\ chunks[Len(received)].to = parts

\* Once a promise is settled, late answers change nothing: no stream begins
\* and nothing is resolved (pendingUploads.delete in the timers).
SettledStaysSettled ==
    [][/\ up \in {"resolved", "rejected"} => up' = up /\ taken' = taken
       /\ down \in {"resolved", "rejected"} => down' = down]_vars

\* Every call of upload() and of download() is answered, whatever is lost.
UploadSettles == (up = "publishing") ~> (up \in {"resolved", "rejected"})
DownloadSettles == (down = "pending") ~> (down \in {"resolved", "rejected"})

\* Who has begun to read a file is told how it ended.
ReadingEnds == (rx = "reading") ~> (rx \in {"saved", "end", "failed"})

\* The state stays within its types, and an upload that succeeded was saved.
FileInv == FileTypeOK /\ UploadResultMeansSaved /\ OneWay

\* Every promise of a transfer is settled, once.
TransfersSettle == SettledStaysSettled /\ UploadSettles /\ DownloadSettles /\ ReadingEnds
=============================================================================
