---------------------------- MODULE SmpTransfer ----------------------------
(***************************************************************************)
(* An upload over the serial management protocol: the host's stop-and-wait *)
(* sender (scripts/jppd_upload.py), the device's upload handlers           *)
(* (jpp_serial_mgr.c), and the serial link between them.  The link keeps   *)
(* the order of frames and may lose any of them: a frame whose CRC-16 is   *)
(* wrong is dropped by its receiver.  A damaged chunk may also slip past   *)
(* the CRC-16, which is what the CRC-32 of the whole file is for.          *)
(***************************************************************************)
EXTENDS Naturals, Sequences

CONSTANTS Files,      \* how many files the host uploads in a session
          Chunks,     \* how many chunks each has
          Retries,    \* how often a chunk is sent again
          SeqMod,     \* sequence numbers the host uses: 255 in the code
          LossMax,    \* bound: frames lost
          DamageMax   \* bound: chunks damaged without the CRC-16 noticing

ASSUME UploadAssumption == /\ Files \in Nat \ {0} /\ Chunks \in Nat
                           /\ Retries \in Nat /\ SeqMod \in Nat
                           /\ SeqMod > Retries + 2
ASSUME LinkAssumption == LossMax \in Nat /\ DamageMax \in Nat

Chunk == [file : 0..Files, idx : 0..Chunks, good : BOOLEAN]
Data(f) == [i \in 1..Chunks |-> [file |-> f, idx |-> i, good |-> TRUE]]

\* What an earlier upload left at each path.
OldFile == <<[file |-> 0, idx |-> 0, good |-> TRUE]>>

Phases == {"begin", "chunk", "end", "bye", "over"}

VARIABLES phase,     \* which command the host is at
          file, idx, \* the file, and the chunks of it the device acknowledged
          tries,     \* attempts of the command so far
          seq,       \* the sequence number of the last attempt
          waiting,   \* an attempt is out and its deadline has not passed
          ok,        \* no command has failed
          toDevice, toHost, losses, damages,
          open,   \* s_session_active
          upload,      \* s_xfer, or NoXfer while it is not active
          store,     \* the files on the card
          cut        \* those whose closing failed: their end may be missing

host == <<phase, file, idx, tries, seq, waiting, ok>>
link == <<toDevice, toHost, losses, damages>>
card == <<store, cut>>
device == <<open, upload, card>>
smpVars == <<host, link, device>>

NoXfer == [file |-> 0, next |-> 0, sum |-> <<>>]

SmpInit == /\ phase = "begin" /\ file = 1 /\ idx = 0 /\ tries = 0 /\ seq = 0
        /\ waiting = FALSE /\ ok = TRUE
        /\ toDevice = <<>> /\ toHost = <<>> /\ losses = 0 /\ damages = 0
        /\ open = TRUE /\ upload = NoXfer
        /\ store = [f \in 1..Files |-> OldFile] /\ cut = {}

-----------------------------------------------------------------------------
(* The host.                                                               *)

SeqUnwrapped(n) == n + 1
NextSeq(n) == (n + 1) % SeqMod

\* Only a chunk is sent again: it is the one command that may be repeated.
Attempts == IF phase = "chunk" THEN Retries + 1 ELSE 1

Goto(p, f, i) == phase' = p /\ file' = f /\ idx' = i /\ tries' = 0 /\ waiting' = FALSE

\* _cmd, one attempt: a fresh sequence number, and the frame is written.
SendCommand ==
  /\ phase # "over" /\ ~waiting
  /\ seq' = NextSeq(seq) /\ tries' = tries + 1 /\ waiting' = TRUE
  /\ toDevice' = Append(toDevice, [cmd |-> phase, seq |-> seq',
                                   data |-> [file |-> file, idx |-> idx + 1, good |-> TRUE]])
  /\ UNCHANGED <<phase, file, idx, ok, toHost, losses, damages, device>>

\* A command that failed raises: the script ends the open and exits.
Fail == ok' = FALSE /\ Goto(IF phase = "bye" THEN "over" ELSE "bye", file, idx)

DeadlineNever == FALSE
DeadlinePasses == waiting

\* The attempt's deadline passes, or the frame read is broken.
AttemptFails ==
  /\ DeadlinePasses
  /\ IF tries < Attempts THEN waiting' = FALSE /\ UNCHANGED <<phase, file, idx, tries, ok>>
                         ELSE Fail
  /\ UNCHANGED <<seq, link, device>>

\* upload_file and upload_app_dir: the command after the one that succeeded.
Proceed ==
  CASE phase = "begin" -> Goto(IF Chunks = 0 THEN "end" ELSE "chunk", file, 0)
    [] phase = "chunk" -> Goto(IF idx + 1 = Chunks THEN "end" ELSE "chunk", file, idx + 1)
    [] phase = "end"   -> IF file = Files THEN Goto("bye", file, idx) ELSE Goto("begin", file + 1, 0)
    [] phase = "bye"   -> Goto("over", file, idx)

\* A reply counts when it carries the attempt's number; any other, and an
\* event, is skipped.
ReadReply ==
  /\ waiting /\ toHost # <<>>
  /\ toHost' = Tail(toHost)
  /\ LET r == Head(toHost) IN
       \/ r.seq # seq /\ UNCHANGED <<phase, file, idx, tries, waiting, ok>>
       \/ r.seq = seq /\ r.status = "OK" /\ Proceed /\ UNCHANGED ok
       \/ r.seq = seq /\ r.status # "OK" /\ Fail
  /\ UNCHANGED <<seq, toDevice, losses, damages, device>>

Interrupt ==
  /\ phase \notin {"bye", "over"} /\ Fail
  /\ UNCHANGED <<seq, link, device>>

-----------------------------------------------------------------------------
(* The link.                                                               *)

LoseCommand == /\ toDevice # <<>> /\ losses < LossMax
               /\ toDevice' = Tail(toDevice) /\ losses' = losses + 1
               /\ UNCHANGED <<host, toHost, damages, device>>

LoseReply == /\ toHost # <<>> /\ losses < LossMax
             /\ toHost' = Tail(toHost) /\ losses' = losses + 1
             /\ UNCHANGED <<host, toDevice, damages, device>>

DamageChunk == /\ toDevice # <<>> /\ Head(toDevice).cmd = "chunk"
               /\ Head(toDevice).data.good /\ damages < DamageMax
               /\ toDevice' = [toDevice EXCEPT ![1].data.good = FALSE]
               /\ damages' = damages + 1
               /\ UNCHANGED <<host, toHost, losses, device>>

-----------------------------------------------------------------------------
(* The device.                                                             *)

Answer(frame, status) ==
  toHost' = Append(toHost, [seq |-> frame.seq, status |-> status,
                            cmd |-> frame.cmd, idx |-> frame.data.idx])

Refuse(frame) == Answer(frame, "TRANSFER") /\ UNCHANGED card

Beginnings(s) == {SubSeq(s, 1, n) : n \in 0..(Len(s) - 1)}

\* Nobody looks at the results of fflush and fclose: when they fail, what was
\* buffered is not on the card, or the file has no length in its directory yet.
CloseUpload ==
  /\ upload' = NoXfer
  /\ \/ UNCHANGED card
     \/ /\ upload # NoXfer
        /\ \E s \in Beginnings(store[upload.file]) : store' = [store EXCEPT ![upload.file] = s]
        /\ cut' = cut \union {upload.file}

\* A file opened for writing is emptied at once: the upload has no other file.
UploadBegin(frame) ==
  IF upload # NoXfer THEN Refuse(frame) /\ UNCHANGED upload
  ELSE \/ Answer(frame, "IO") /\ UNCHANGED <<upload, card>>
       \/ /\ Answer(frame, "OK")
          /\ upload' = [file |-> frame.data.file, next |-> 1, sum |-> <<>>]
          /\ store' = [store EXCEPT ![frame.data.file] = <<>>]
          /\ cut' = cut \ {frame.data.file}

AnyIsExpected(frame) == TRUE
IsExpected(frame) == frame.data.idx = upload.next

NeverRepeated(frame) == FALSE
IsRepeated(frame) == upload.next > 1 /\ frame.data.idx = upload.next - 1

Written(data) == [store EXCEPT ![upload.file] = Append(@, data)]

\* The expected chunk is written, the one before it acknowledged again, any
\* other abandons the transfer.  A write may fail part way.
UploadChunk(frame) ==
  IF upload = NoXfer THEN Refuse(frame) /\ UNCHANGED upload
  ELSE IF ~IsExpected(frame)
  THEN IF IsRepeated(frame) THEN Answer(frame, "OK") /\ UNCHANGED <<upload, card>>
                            ELSE Answer(frame, "TRANSFER") /\ CloseUpload
  ELSE \/ /\ Answer(frame, "IO")
          /\ \/ CloseUpload
             \/ /\ upload' = NoXfer /\ UNCHANGED cut
                /\ store' = Written([frame.data EXCEPT !.good = FALSE])
       \/ /\ Answer(frame, "OK")
          /\ upload' = [upload EXCEPT !.next = @ + 1, !.sum = Append(@, frame.data)]
          /\ store' = Written(frame.data) /\ UNCHANGED cut

SumMatches(frame) == upload.sum = Data(frame.data.file)

\* The file is closed, then the checksum of what was received is compared with
\* the host's.
UploadEnd(frame) ==
  IF upload = NoXfer THEN Refuse(frame) /\ UNCHANGED upload
  ELSE /\ CloseUpload
       /\ Answer(frame, IF SumMatches(frame) THEN "OK" ELSE "INVALID")

\* dispatch_command for the frame at the head of the link.
HandleFrame ==
  /\ toDevice # <<>> /\ toDevice' = Tail(toDevice)
  /\ LET frame == Head(toDevice) IN
       \/ ~open /\ Answer(frame, "NO_SESSION") /\ UNCHANGED device
       \/ open /\ frame.cmd = "begin" /\ UploadBegin(frame) /\ UNCHANGED open
       \/ open /\ frame.cmd = "chunk" /\ UploadChunk(frame) /\ UNCHANGED open
       \/ open /\ frame.cmd = "end" /\ UploadEnd(frame) /\ UNCHANGED open
       \/ /\ open /\ frame.cmd = "bye" /\ Answer(frame, "OK")
          /\ open' = FALSE /\ CloseUpload
  /\ UNCHANGED <<host, losses, damages>>

\* close_session on the inactivity timeout or the user's BACK; the latter is
\* announced by an event no reply can be mistaken for.
SessionEnds ==
  /\ open /\ open' = FALSE /\ CloseUpload
  /\ UNCHANGED <<host, link>>

-----------------------------------------------------------------------------
SmpNext == \/ SendCommand \/ AttemptFails \/ ReadReply \/ Interrupt
        \/ LoseCommand \/ LoseReply \/ DamageChunk
        \/ HandleFrame \/ SessionEnds

\* The host reads until its deadline, which passes.  The device need not answer.
SmpSpec == /\ SmpInit /\ [][SmpNext]_smpVars
           /\ WF_smpVars(SendCommand) /\ WF_smpVars(AttemptFails)

-----------------------------------------------------------------------------
Frame == [cmd : Phases, seq : 0..(SeqMod - 1), data : [file : 1..Files, idx : 1..(Chunks + 1), good : BOOLEAN]]
Reply == [seq : 0..(SeqMod - 1), status : {"OK", "IO", "INVALID", "NO_SESSION", "TRANSFER"},
          cmd : Phases, idx : 1..(Chunks + 1)]

SmpTypeOK == /\ phase \in Phases /\ file \in 1..Files /\ idx \in 0..Chunks
          /\ tries \in 0..(Retries + 1) /\ seq \in 0..(SeqMod - 1)
          /\ waiting \in BOOLEAN /\ ok \in BOOLEAN
          /\ toDevice \in Seq(Frame) /\ toHost \in Seq(Reply)
          /\ losses \in 0..LossMax /\ damages \in 0..DamageMax
          /\ open \in BOOLEAN
          /\ upload \in [file : 0..Files, next : 0..(Chunks + 1), sum : Seq(Chunk)]
          /\ store \in [1..Files -> Seq(Chunk)] /\ cut \subseteq 1..Files

StoredInPlace ==
  \A f \in 1..Files : \/ store[f] = OldFile
                      \/ \A i \in DOMAIN store[f] : store[f][i].file = f /\ store[f][i].idx = i

\* What is stored is what was sent, or the beginning of it if closing failed.
AsSent(f) == IF f \in cut THEN store[f] \in Beginnings(Data(f)) ELSE store[f] = Data(f)

ReportedIsStored ==
  \A f \in 1..Files : f < file \/ (phase \in {"bye", "over"} /\ ok) => AsSent(f)

NoAliasedReply ==
  waiting => \A i \in DOMAIN toHost :
               toHost[i].seq = seq => toHost[i].cmd = phase /\ toHost[i].idx = idx + 1

\* Every chunk of a file is stored at its place, once, and in the file it
\* belongs to, however often the host sent it and whatever was lost: a file is
\* what was there before or a prefix of what the host sends.  A file the host
\* reports as uploaded is on the card undamaged and, unless fflush or fclose
\* failed, whole: the checksum says nothing of what they did.  And a late reply
\* to an earlier attempt is never taken for the answer to the chunk the host
\* waits for, although numbers are reused.
UploadIsFaithful == StoredInPlace /\ ReportedIsStored /\ NoAliasedReply

\* A retransmission never costs the transfer: while one is open the device
\* refuses no chunk of this host, and only a failed write abandons it.
LostAckRecovers ==
  [][ (upload # NoXfer /\ Len(toHost') > Len(toHost))
      => LET r == toHost'[Len(toHost')] IN
         r.cmd = "chunk" => r.status \in {"OK", "IO"} ]_smpVars

\* Once the host has sent a command its run ends, however many frames the link
\* loses.
UploadEnds == waiting ~> (phase = "over")
=============================================================================
