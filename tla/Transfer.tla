------------------------------ MODULE Transfer ------------------------------
(***************************************************************************)
(* One delivery of a file between clients.  The sender opens a session on  *)
(* the server, offers the file over a WebRTC channel, and uploads it to    *)
(* the relay when that fails.  Each receiver polls its inbox, takes an     *)
(* offer, or downloads the relay when the session is ready, writes the     *)
(* file and completes the session.  Handlers of the server interleave; a   *)
(* client can lose a reply, fail, or restart between any two of its steps. *)
(*                                                                         *)
(* Bytes are counted, not carried: a file is its size, and a sum matches   *)
(* when every byte is there.                                               *)
(***************************************************************************)
EXTENDS Naturals

CONSTANTS
  Receivers,   \* clients the session is addressed to, by id or by tag
  Sizes,       \* sizes of files
  Settings,    \* what the sender may ask of the destination
  RelayChunk,  \* bytes per upload (60 KiB)
  ServerChunk, \* bytes a chunk may have (64 KiB)
  MaxChunks,   \* chunks a session may have (512)
  Bounds       \* bound: how often each kind of Budget may happen

\* Failures nothing in the code limits: an upload or its session lost, a
\* fetched chunk or a written file lost, a completion lost, a status not
\* stored, a restart of a client, a file that somebody else creates.
Budget == {"uploads", "downloads", "completions", "statuses", "crashes", "others"}

\* "name": the base name of the destination is refused.  "mode": the mode is.
Setting == {"fine", "name", "mode"}

ASSUME TransferAssumption ==
  /\ Sizes \subseteq Nat
  /\ Settings \subseteq Setting
  /\ RelayChunk \in Nat \ {0} /\ ServerChunk \in Nat \ {0}
  /\ RelayChunk <= ServerChunk
  /\ MaxChunks \in Nat \ {0}
  /\ Bounds \in [Budget -> Nat]

Nobody == "nobody"
Stale == "stale"
ASSUME ReceiversAreNamed == Nobody \notin Receivers /\ Stale \notin Receivers

VARIABLES
  size, setting, \* of the file; fixed
  \* the transfer_session and transfer_chunk tables, and a handler of uploads
  status,   \* of the session
  chunks,   \* number of chunks stored
  append,   \* where AppendTransferChunk is
  \* the sender
  sender,   \* where runTransferSender is
  seq,      \* chunks acknowledged
  report,   \* the result it posted
  \* the signals and the data channel
  offered,  \* there is an offer
  answer,   \* who answered it first; Stale: an attempt that is over
  wire,     \* what the sender wrote into the channel
  \* the receivers
  inbox,    \* where handleInboundTransfer is
  listed,   \* status of the session when the inbox was polled
  seen,     \* transfersSeen
  file,     \* what is at the destination
  spent     \* how much of Bounds has happened

rigid == <<size, setting>>
table == <<status, chunks, append>>
sending == <<sender, seq, report>>
signals == <<offered, answer, wire>>
receiving == <<inbox, listed, seen, file>>
vars == <<rigid, table, sending, signals, receiving, spent>>

Spend(k) == spent[k] < Bounds[k] /\ spent' = [spent EXCEPT ![k] = @ + 1]

Init ==
  /\ size \in Sizes /\ setting \in Settings
  /\ status = "none" /\ chunks = 0 /\ append = "idle"
  /\ sender = "reading" /\ seq = 0 /\ report = "none"
  /\ offered = FALSE /\ answer = Nobody /\ wire = "empty"
  /\ inbox = [r \in Receivers |-> "idle"]
  /\ listed = [r \in Receivers |-> "none"]
  /\ seen = [r \in Receivers |-> FALSE]
  /\ file \in [Receivers -> {"absent", "other"}]
  /\ spent = [k \in Budget |-> 0]

-----------------------------------------------------------------------------
(* Sizes.                                                                  *)

MaxBytes == MaxChunks * ServerChunk
Bytes(n) == IF n * RelayChunk < size THEN n * RelayChunk ELSE size

\* Uploads it takes: an empty file is one empty chunk.
PiecesFloor == IF size = 0 THEN 1 ELSE size \div RelayChunk
Pieces == IF size = 0 THEN 1 ELSE (size + RelayChunk - 1) \div RelayChunk

\* What the relay counts, and what it sums.
FullAlmost == Bytes(chunks + 1) >= size
Full == Bytes(chunks) >= size
Matches == Bytes(chunks) = size

-----------------------------------------------------------------------------
(* The sender.                                                             *)

Report(r) == report' = r /\ sender' = "done"

TooLarge ==
  /\ sender = "reading"
  /\ size > MaxBytes
  /\ Report("error")
  /\ UNCHANGED <<rigid, table, seq, signals, receiving, spent>>

InitTransfer ==
  /\ sender = "reading"
  /\ size <= MaxBytes
  /\ status' = "offered"
  /\ sender' = "opened"
  /\ UNCHANGED <<rigid, chunks, append, seq, report, signals, receiving, spent>>

\* The source cannot be read, or the request or the reply of the init is lost.
InitLost ==
  /\ sender = "reading"
  /\ size <= MaxBytes
  /\ Spend("uploads")
  /\ status' \in {"none", "offered"}
  /\ Report("error")
  /\ UNCHANGED <<rigid, chunks, append, seq, signals, receiving>>

Offer ==
  /\ sender = "opened"
  /\ offered' = TRUE
  /\ sender' = "offering"
  /\ UNCHANGED <<rigid, table, seq, report, answer, wire, receiving, spent>>

\* The first answer is the one that counts, even of an attempt that is over.
TakeAnswer ==
  /\ sender = "offering"
  /\ answer # Nobody
  /\ sender' = "streaming"
  /\ UNCHANGED <<rigid, table, seq, report, signals, receiving, spent>>

\* The channel opens while the receiver that answered is still there.  Send
\* only buffers.
Stream ==
  /\ sender = "streaming"
  /\ answer \in Receivers
  /\ wire = "empty"
  /\ wire' = "sent"
  /\ UNCHANGED <<rigid, table, sending, offered, answer, receiving, spent>>

\* Closing the peer discards what the network has not taken.
Closed == IF wire = "sent" THEN {"sent", "lost"} ELSE {wire}

\* p2pSend returns after half a second; nothing acknowledges the bytes.
P2PSent ==
  /\ sender = "streaming"
  /\ wire # "empty"
  /\ wire' \in Closed
  /\ Report("p2p")
  /\ UNCHANGED <<rigid, table, seq, offered, answer, receiving, spent>>

P2PUnanswered ==
  /\ sender \in {"opened", "offering"}
  /\ wire' \in Closed
  /\ sender' = "relay"
  /\ UNCHANGED <<rigid, table, seq, report, offered, answer, receiving, spent>>

\* No answer, no channel, or ten seconds over, even after the last byte.
P2PUnavailable ==
  /\ sender \in {"opened", "offering", "streaming"}
  /\ wire' \in Closed
  /\ sender' = "relay"
  /\ UNCHANGED <<rigid, table, seq, report, offered, answer, receiving, spent>>

\* The reply to the last upload is in, and so is the whole file.
RelaySent ==
  /\ sender = "relay"
  /\ seq = Pieces
  /\ Report("relay")
  /\ UNCHANGED <<rigid, table, seq, signals, receiving, spent>>

\* An upload that fails ends the sender.  Nothing starts it again.
UploadLost ==
  /\ sender \in {"relay", "uploading"}
  /\ seq < Pieces
  /\ Spend("uploads")
  /\ Report("error")
  /\ UNCHANGED <<rigid, table, seq, signals, receiving>>

SenderCrash ==
  /\ sender # "done"
  /\ Spend("crashes")
  /\ sender' = "done"
  /\ wire' \in Closed
  /\ UNCHANGED <<rigid, table, seq, report, offered, answer, receiving>>

-----------------------------------------------------------------------------
(* AppendTransferChunk: what it reads, the chunk, and the status.          *)

Refused == status = "done" \/ seq # chunks \/ chunks >= MaxChunks

RefuseChunk ==
  /\ sender = "relay" /\ seq < Pieces /\ append = "idle"
  /\ Refused
  /\ Report("error")
  /\ UNCHANGED <<rigid, table, seq, signals, receiving, spent>>

AcceptChunk ==
  /\ sender = "relay" /\ seq < Pieces /\ append = "idle"
  /\ ~Refused
  /\ append' = "accepted"
  /\ sender' = "uploading"
  /\ UNCHANGED <<rigid, status, chunks, seq, report, signals, receiving, spent>>

StoreChunk ==
  /\ append = "accepted"
  /\ chunks' = chunks + 1
  /\ append' = "stored"
  /\ UNCHANGED <<rigid, status, sending, signals, receiving, spent>>

\* The chunk is not stored, or the bytes are not counted, and the sender is told
\* if it is still there.
StoreFails ==
  /\ append \in {"accepted", "stored"}
  /\ Spend("uploads")
  /\ append' = "idle"
  /\ IF sender = "uploading" THEN Report("error") ELSE UNCHANGED <<sender, report>>
  /\ UNCHANGED <<rigid, status, chunks, seq, signals, receiving>>

Replied ==
  /\ append' = "idle"
  /\ IF sender = "uploading"
     THEN sender' = "relay" /\ seq' = seq + 1
     ELSE UNCHANGED <<sender, seq>>

\* The status of the session when its handler read it is not looked at again.
MarkUploaded ==
  /\ append = "stored"
  /\ status' = IF Full THEN "ready" ELSE "uploading"
  /\ Replied
  /\ UNCHANGED <<rigid, chunks, report, signals, receiving, spent>>

\* The error of the last write is discarded.
MarkFails ==
  /\ append = "stored"
  /\ Spend("statuses")
  /\ Replied
  /\ UNCHANGED <<rigid, status, chunks, report, signals, receiving>>

-----------------------------------------------------------------------------
(* A receiver: one inbound session of one tick of its loop.                *)

At(r, pc) == inbox' = [inbox EXCEPT ![r] = pc]
Keep(r, f) == file' = [file EXCEPT ![r] = f]

\* A terminal outcome is remembered, a transient one is not.
Forget(r) == At(r, "idle") /\ UNCHANGED seen
Remember(r) == At(r, "idle") /\ seen' = [seen EXCEPT ![r] = TRUE]

Untaken(r) == FALSE
Taken(r) == file[r] # "absent"

Open == {"offered", "uploading", "ready"}

Poll(r) ==
  /\ inbox[r] = "idle" /\ ~seen[r]
  /\ status \in Open
  /\ listed' = [listed EXCEPT ![r] = status]
  /\ At(r, "listed")
  /\ UNCHANGED <<rigid, table, sending, signals, seen, file, spent>>

\* Not ready, and no offer, or the signals cannot be read.
Later(r) ==
  /\ inbox[r] = "listed"
  /\ listed[r] # "ready"
  /\ Forget(r)
  /\ UNCHANGED <<rigid, table, sending, signals, listed, file, spent>>

TakeOffer(r) ==
  /\ inbox[r] = "listed"
  /\ listed[r] = "offered" /\ offered
  /\ At(r, "receiving")
  /\ UNCHANGED <<rigid, table, sending, signals, listed, seen, file, spent>>

Answer(r) ==
  /\ inbox[r] = "receiving"
  /\ answer = Nobody
  /\ answer' = r
  /\ UNCHANGED <<rigid, table, sending, offered, wire, receiving, spent>>

\* Every byte has come over the channel.
Arrive(r) ==
  /\ inbox[r] = "receiving"
  /\ answer = r /\ wire = "sent"
  /\ At(r, "received")
  /\ UNCHANGED <<rigid, table, sending, signals, listed, seen, file, spent>>

\* The attempt is over: ten seconds, or an error.
Hangup(r) == answer' = IF answer = r THEN Stale ELSE answer

P2PFails(r) ==
  /\ inbox[r] = "receiving"
  /\ Forget(r)
  /\ Hangup(r)
  /\ UNCHANGED <<rigid, table, sending, offered, wire, listed, file, spent>>

\* writeReceivedBytes: it looks, then it writes.
RefuseBytes(r) ==
  /\ inbox[r] = "received"
  /\ setting = "name" \/ Taken(r)
  /\ Remember(r)
  /\ UNCHANGED <<rigid, table, sending, signals, listed, file, spent>>

AcceptBytes(r) ==
  /\ inbox[r] = "received"
  /\ setting # "name" /\ ~Taken(r)
  /\ At(r, "writing")
  /\ UNCHANGED <<rigid, table, sending, signals, listed, seen, file, spent>>

WriteBytes(r) ==
  /\ inbox[r] = "writing"
  /\ IF setting = "mode" THEN Keep(r, "absent") /\ Remember(r)
     ELSE Keep(r, "whole") /\ At(r, "completing p2p") /\ UNCHANGED seen
  /\ UNCHANGED <<rigid, table, sending, signals, listed, spent>>

\* A failed write leaves what it wrote, and is not tried again.
WriteFails(r) ==
  /\ inbox[r] = "writing"
  /\ Spend("downloads")
  /\ file' \in {file, [file EXCEPT ![r] = "partial"]}
  /\ Remember(r)
  /\ UNCHANGED <<rigid, table, sending, signals, listed>>

\* DownloadFileRelay.
RefuseDownload(r) ==
  /\ inbox[r] = "listed" /\ listed[r] = "ready"
  /\ setting = "name" \/ Taken(r)
  /\ Remember(r)
  /\ UNCHANGED <<rigid, table, sending, signals, listed, file, spent>>

OpenDownload(r) ==
  /\ inbox[r] = "listed" /\ listed[r] = "ready"
  /\ setting # "name" /\ ~Taken(r)
  /\ Keep(r, "partial")
  /\ At(r, "downloading")
  /\ UNCHANGED <<rigid, table, sending, signals, listed, seen, spent>>

\* What a failed download leaves.
Littered == "partial"
Cleaned == "absent"

\* It fetches chunks until it has the size or there are no more, and checks
\* the sum and the mode.
Download(r) ==
  /\ inbox[r] = "downloading"
  /\ IF Matches /\ setting # "mode"
     THEN Keep(r, "whole") /\ At(r, "completing relay") /\ UNCHANGED seen
     ELSE Keep(r, Cleaned) /\ Remember(r)
  /\ UNCHANGED <<rigid, table, sending, signals, listed, spent>>

DownloadFails(r) ==
  /\ inbox[r] = "downloading"
  /\ Spend("downloads")
  /\ Keep(r, Cleaned)
  /\ Forget(r)
  /\ UNCHANGED <<rigid, table, sending, signals, listed>>

Completing(r) == inbox[r] \in {"completing p2p", "completing relay"}

\* CompleteTransferSession: the bytes of the relay are summed, those of the
\* channel are not there to be.
Completes(r) ==
  status = "done" \/ inbox[r] = "completing p2p" \/ Matches

CompleteTransfer(r) ==
  /\ Completing(r)
  /\ IF Completes(r) THEN status' = "done" /\ Remember(r)
     ELSE UNCHANGED status /\ Forget(r)
  /\ UNCHANGED <<rigid, chunks, append, sending, signals, listed, file, spent>>

\* The request or the reply is lost; the next tick starts over.
CompleteLost(r) ==
  /\ Completing(r)
  /\ Spend("completions")
  /\ status' \in {status} \cup { s \in {"done"} : Completes(r) }
  /\ Forget(r)
  /\ UNCHANGED <<rigid, chunks, append, sending, signals, listed, file>>

\* A restart forgets what was seen; what is on the disk stays.
ReceiverCrash(r) ==
  /\ Spend("crashes")
  /\ At(r, "idle")
  /\ seen' = [seen EXCEPT ![r] = FALSE]
  /\ file' \in {file} \cup { f \in {[file EXCEPT ![r] = "partial"]} : inbox[r] = "writing" }
  /\ IF inbox[r] = "receiving" THEN Hangup(r) ELSE UNCHANGED answer
  /\ UNCHANGED <<rigid, table, sending, offered, wire, listed>>

\* Another program, or another node, takes the destination.
Other(r) ==
  /\ file[r] = "absent"
  /\ Spend("others")
  /\ Keep(r, "other")
  /\ UNCHANGED <<rigid, table, sending, signals, inbox, listed, seen>>

-----------------------------------------------------------------------------
SenderStep ==
  \/ TooLarge \/ InitTransfer \/ Offer \/ TakeAnswer \/ Stream \/ P2PSent
  \/ P2PUnavailable \/ RelaySent \/ RefuseChunk \/ AcceptChunk

AppendStep == StoreChunk \/ MarkUploaded

ReceiverStep(r) ==
  \/ Poll(r) \/ Later(r)
  \/ TakeOffer(r) \/ Answer(r) \/ Arrive(r) \/ P2PFails(r)
  \/ RefuseBytes(r) \/ AcceptBytes(r) \/ WriteBytes(r)
  \/ RefuseDownload(r) \/ OpenDownload(r) \/ Download(r)
  \/ CompleteTransfer(r)

Failure ==
  \/ InitLost \/ UploadLost \/ StoreFails \/ MarkFails \/ SenderCrash
  \/ \E r \in Receivers : WriteFails(r) \/ DownloadFails(r) \/ CompleteLost(r)
                          \/ ReceiverCrash(r) \/ Other(r)

Next ==
  \/ SenderStep
  \/ AppendStep
  \/ \E r \in Receivers : ReceiverStep(r)
  \/ Failure

Spec == Init /\ [][Next]_vars

\* Each client and each handler goes on; failures owe nothing.
Fairness ==
  /\ WF_vars(SenderStep)
  /\ WF_vars(AppendStep)
  /\ \A r \in Receivers : WF_vars(ReceiverStep(r))

FairSpec == Spec /\ Fairness
-----------------------------------------------------------------------------
(* What a delivery promises.                                               *)

Statuses == {"none", "offered", "uploading", "ready", "done"}
Files == {"absent", "other", "partial", "whole"}

TypeOK ==
  /\ size \in Sizes /\ setting \in Settings
  /\ status \in Statuses /\ chunks \in 0 .. MaxChunks
  /\ append \in {"idle", "accepted", "stored"}
  /\ sender \in {"reading", "opened", "offering", "streaming", "relay", "uploading", "done"}
  /\ seq \in Nat /\ report \in {"none", "p2p", "relay", "error"}
  /\ offered \in BOOLEAN /\ answer \in Receivers \cup {Nobody, Stale}
  /\ wire \in {"empty", "sent", "lost"}
  /\ inbox \in [Receivers -> {"idle", "listed", "receiving", "received", "writing",
                              "downloading", "completing p2p", "completing relay"}]
  /\ listed \in [Receivers -> Statuses] /\ seen \in [Receivers -> BOOLEAN]
  /\ file \in [Receivers -> Files]
  /\ spent \in [Budget -> Nat]

\* A session that receivers are told to download holds the whole file, although
\* the bytes are counted apart from the chunk that completes them.
ReadyIsWhole == status = "ready" => Matches

\* A session is done because the file is at the destination of a receiver, not
\* because somebody said so.
DoneIsDelivered == status = "done" => \E r \in Receivers : file[r] = "whole"

\* So a status means what it says to the receivers and to whoever reads it.
StatusIsTrue == ReadyIsWhole /\ DoneIsDelivered

\* A result that says relay is posted once all of the file is on the server.
RelayIsStored == report = "relay" => Matches

\* What is at a destination before a delivery, or after one, is never replaced
\* or removed by it.
NoOverwrite ==
  [][\A r \in Receivers : file[r] \in {"other", "whole"} => file'[r] = file[r]]_vars

\* A file is at the destination in part only while it is downloaded or after a
\* failed write or a restart.
PartIsTransient ==
  \A r \in Receivers : file[r] = "partial" =>
    inbox[r] = "downloading" \/ spent["crashes"] + spent["downloads"] > 0

\* The sender reports an error for a reason: something failed, the file is more
\* than a session's uploads can carry, or it has been delivered already.
ErrorHasCause ==
  report = "error" =>
    \/ spent["uploads"] > 0 \/ size > MaxChunks * RelayChunk
    \/ \E r \in Receivers : file[r] = "whole"

\* So what the sender reports is true, of success and of failure.
ReportIsTrue == RelayIsStored /\ ErrorHasCause

\* The sender and the relay agree on the chunks at every step of an upload: the
\* acknowledged ones are the stored ones, but for the one under way.
UploadsAgree ==
  /\ seq <= chunks
  /\ append = "accepted" => chunks < MaxChunks
  /\ sender \notin {"uploading", "done"} => append = "idle" /\ seq = chunks
  /\ sender = "uploading" =>
       \/ append = "accepted" /\ seq = chunks
       \/ append = "stored" /\ seq + 1 = chunks

\* What a receiver is doing says what is at its destination.
DeskOK ==
  \A r \in Receivers :
    /\ inbox[r] = "downloading" => file[r] = "partial"
    /\ inbox[r] = "writing" => file[r] \in {"absent", "other"}
    /\ Completing(r) => file[r] = "whole"

\* As long as no other program takes a destination, a receiver writes where there
\* is nothing, although it has looked before.
WritesIntoNothing ==
  spent["others"] = 0 => \A r \in Receivers : inbox[r] = "writing" => file[r] = "absent"

\* The inductive invariant.
Inv ==
  TypeOK /\ UploadsAgree /\ DeskOK
    /\ ReadyIsWhole /\ DoneIsDelivered /\ RelayIsStored /\ PartIsTransient /\ ErrorHasCause

\* A file on the relay reaches a receiver that has room for it and has not taken
\* it from the channel, or another one, through failing downloads.
RelayIsDelivered ==
  \A r \in Receivers :
    (report = "relay" /\ setting = "fine"
       /\ inbox[r] = "idle" /\ ~seen[r] /\ file[r] = "absent")
      ~> (file[r] = "other" \/ \E q \in Receivers : file[q] = "whole")

\* The sender posts a result whatever the receivers do.
SenderReports == (sender = "opened") ~> (report # "none")
=============================================================================
