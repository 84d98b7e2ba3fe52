----------------------------- MODULE FileExchange -----------------------------
(***************************************************************************)
(* A task of one file over a real byte stream: HELLO, FILE_INFO,           *)
(* RESUME_ACK, DATA and FILE_END are texts and cells in PacketStream, the  *)
(* digests at both ends are streamed by Sha256, and the resume records are *)
(* the text of the state file.  Transfer takes all of these for granted:   *)
(* a channel of packets, a digest that is the content, a map of records.   *)
(*                                                                         *)
(* The file does not change; a transfer may be interrupted at any point    *)
(* by either end, the network or a kill of the receiver, and is retried.   *)
(***************************************************************************)
EXTENDS PacketStream, Sha256, PayloadText

CONSTANTS
  Names,          \* names the file can have, as cells
  Contents,       \* contents the file can have
  OtherName,      \* the name and content of an unfinished file that the state
  OtherContent,   \* file knows too
  ChunkSize,      \* what the sender reads and sends at a time
  HashChunk,      \* what the receiver's sha256_file reads at a time (1 MiB)
  MaxFaults       \* bound of the model on interruptions

ASSUME ExchangeAssumption ==
  /\ ChunkSize \in Nat \ {0} /\ HashChunk \in Nat \ {0} /\ MaxFaults \in Nat
  /\ Contents \subseteq Seq(Byte)
  /\ Names \subseteq Seq(Char) \ {<<>>}
  /\ OtherName \in Seq(Char) \ {<<>>} /\ OtherContent \in Seq(Byte) \ {<<>>}
  /\ OtherName \notin Names \/ OtherContent \notin Contents

VARIABLES
  name, content,  \* the source file
  s,              \* the sender's locals: pc, hash, position, digest
  r,              \* the receiver's locals: pc, info, received, hash, position
  disk,           \* the received file: a sequence, or <<"absent">>
  stateFile,      \* the text of the resume state file
  faults,         \* interruptions so far
  disturbed       \* whether this attempt was interrupted

exchangeVars == <<streamVars, name, content, s, r, disk, stateFile,
                  faults, disturbed>>

Absent     == <<"absent">>
OnDisk     == IF disk = Absent THEN <<>> ELSE disk
InfoOf(path, bytes) ==
  [path |-> path, size |-> Len(bytes), sha256 |-> <<Digest(Padded(bytes))>>]
Info        == InfoOf(name, content)
OtherInfo   == InfoOf(OtherName, OtherContent)
OtherRecord == [info |-> OtherInfo, offset |-> 1]
Chunk(bytes, position, size) ==
  SubSeq(bytes, position + 1, IF position + size < Len(bytes) THEN position + size
                                                              ELSE Len(bytes))

IdleSender   == [pc |-> "idle", hash |-> NewHash, position |-> 0, digest |-> <<>>]
IdleReceiver == [pc |-> "idle", info |-> Info, received |-> 0, hash |-> NewHash,
                 position |-> 0]

ExchangeInit ==
  /\ StreamInit
  /\ name \in Names /\ content \in Contents
  /\ s = IdleSender /\ r = IdleReceiver
  /\ disk = Absent
  /\ stateFile = Saved(<<OtherRecord>>)
  /\ faults = 0 /\ disturbed = FALSE

-----------------------------------------------------------------------------
(* The sender. *)

SenderGoes(locals) ==
  s' = locals /\ UNCHANGED <<name, content, r, disk, stateFile, faults, disturbed>>

Begin ==
  /\ s.pc = "idle" /\ r.pc = "idle"
  /\ Connected
  /\ s' = [IdleSender EXCEPT !.pc = "hello"]
  /\ r' = [IdleReceiver EXCEPT !.pc = "hello"]
  /\ disturbed' = FALSE
  /\ UNCHANGED <<name, content, disk, stateFile, faults>>

\* A task of this one file and no directory.
Manifest == [files |-> 1, bytes |-> Len(content), directories |-> 0]
SendHello ==
  /\ s.pc = "hello"
  /\ WritePacket("sender", [type |-> "HELLO", payload |-> ManifestText(Manifest)])
  /\ SenderGoes([s EXCEPT !.pc = "hash"])

\* One read of sha256_file.
SenderHashes ==
  /\ s.pc = "hash" /\ Written("sender")
  /\ LET bytes == Chunk(content, s.position, ChunkSize)
     IN  SenderGoes([s EXCEPT
           !.hash = Update(@, bytes), !.position = @ + Len(bytes),
           !.pc = IF Len(bytes) < ChunkSize THEN "announce" ELSE "hash"])
  /\ UNCHANGED streamVars

Announce ==
  /\ s.pc = "announce"
  /\ LET digest == FinalHex(s.hash)
         info   == [path |-> name, size |-> Len(content), sha256 |-> <<Digest(digest)>>]
     IN  /\ WritePacket("sender", [type |-> "FILE_INFO", payload |-> FileInfoText(info)])
         /\ SenderGoes([s EXCEPT !.digest = digest, !.pc = "ack"])

ReadAck ==
  /\ s.pc = "ack" /\ Written("sender")
  /\ TakePacket("sender")
  /\ \E packet \in Packets("sender") : \E offset \in ParseResumeAck(packet.payload) :
       /\ packet.type = "RESUME_ACK" /\ offset <= Len(content)
       /\ SenderGoes([s EXCEPT !.position = offset, !.pc = "stream"])

SendData ==
  /\ s.pc = "stream" /\ Written("sender")
  /\ LET bytes == Chunk(content, s.position, ChunkSize)
     IN  /\ bytes # <<>>
         /\ WritePacket("sender", [type |-> "DATA", payload |-> bytes])
         /\ SenderGoes([s EXCEPT !.position = @ + Len(bytes),
                         !.pc = IF Len(bytes) < ChunkSize THEN "end" ELSE "stream"])

SendFileEnd ==
  /\ Written("sender")
  /\ s.pc = "end" \/ (s.pc = "stream" /\ Chunk(content, s.position, ChunkSize) = <<>>)
  /\ WritePacket("sender", [type |-> "FILE_END", payload |-> <<>>])
  /\ SenderGoes([s EXCEPT !.pc = "done"])

\* Any of the calls above throws.
SenderFails ==
  \/ s.pc # "idle" /\ ~Written("sender") /\ WriteFails("sender")
  \/ s.pc \in {"hello", "announce", "stream", "end"} /\ WriteFails("sender")
  \/ s.pc = "ack" /\ Written("sender")
       /\ \/ ReadFails("sender")
          \/ \E packet \in Packets("sender") :
               \/ packet.type # "RESUME_ACK"
               \/ \A n \in ParseResumeAck(packet.payload) : n > Len(content)

\* The connection goes out of scope.
SenderLeaves ==
  /\ SenderFails \/ (s.pc = "done" /\ Written("sender"))
  /\ CloseEnd("sender")
  /\ SenderGoes(IdleSender)

-----------------------------------------------------------------------------
(* The receiver. *)

Step(locals) == r' = locals /\ UNCHANGED <<name, content, s, faults, disturbed>>
ReceiverGoes(locals) == Step(locals) /\ UNCHANGED <<disk, stateFile>>

ReadHello ==
  /\ r.pc = "hello" /\ TakePacket("receiver")
  /\ \E packet \in Packets("receiver") :
       packet.type = "HELLO" /\ ParseManifest(packet.payload) # {}
  /\ ReceiverGoes([r EXCEPT !.pc = "info"])

\* FILE_INFO and trusted_resume_offset; RESUME_ACK is the next write.
ReadInfo ==
  /\ r.pc = "info" /\ TakePacket("receiver")
  /\ \E packet \in Packets("receiver") : \E info \in ParseFileInfo(packet.payload) :
     \E stored \in FindOffset(stateFile, info) :
       /\ packet.type = "FILE_INFO"
       /\ ReceiverGoes([r EXCEPT !.info = info, !.pc = "ack",
            !.received = IF stored < Len(OnDisk) THEN stored ELSE Len(OnDisk)])

SendAck ==
  /\ r.pc = "ack"
  /\ WritePacket("receiver", [type |-> "RESUME_ACK", payload |-> ResumeAckText(r.received)])
  /\ ReceiverGoes([r EXCEPT !.pc = "open"])

\* Faulty variant: the file is not cut to the offset.
OpenUncut ==
  /\ r.pc = "open" /\ Written("receiver")
  /\ disk' = IF r.received > 0 THEN OnDisk ELSE <<>>
  /\ Step([r EXCEPT !.pc = "data"])
  /\ UNCHANGED <<streamVars, stateFile>>

OpenOutput ==
  /\ r.pc = "open" /\ Written("receiver")
  /\ disk' = SubSeq(OnDisk, 1, r.received)
  /\ Step([r EXCEPT !.pc = "data"])
  /\ UNCHANGED <<streamVars, stateFile>>

ReadData ==
  /\ r.pc = "data" /\ TakePacket("receiver")
  /\ \E packet \in Packets("receiver") :
       /\ packet.type = "DATA" /\ r.received + Len(packet.payload) <= r.info.size
       /\ disk' = disk \o packet.payload
       /\ Step([r EXCEPT !.received = @ + Len(packet.payload), !.pc = "record"])
  /\ UNCHANGED stateFile

\* load() and save() of the state file; both throw on a text they cannot read.
RecordOffset ==
  /\ r.pc = "record"
  /\ \E text \in UpdateOffset(stateFile, r.info, r.received) : stateFile' = text
  /\ Step([r EXCEPT !.pc = "data"])
  /\ UNCHANGED <<streamVars, disk>>

ReadFileEnd ==
  /\ r.pc = "data" /\ TakePacket("receiver")
  /\ \E packet \in Packets("receiver") : packet.type = "FILE_END"
  /\ r.received = r.info.size
  /\ ReceiverGoes([r EXCEPT !.pc = "hash", !.hash = NewHash, !.position = 0])

ReceiverHashes ==
  /\ r.pc = "hash"
  /\ LET bytes == Chunk(disk, r.position, HashChunk)
     IN  ReceiverGoes([r EXCEPT
           !.hash = Update(@, bytes), !.position = @ + Len(bytes),
           !.pc = IF Len(bytes) < HashChunk THEN "compare" ELSE "hash"])
  /\ UNCHANGED streamVars

DigestAgrees == <<Digest(FinalHex(r.hash))>> = r.info.sha256

Accept ==
  /\ r.pc = "compare" /\ DigestAgrees
  /\ \E text \in Clear(stateFile, r.info) : stateFile' = text
  /\ Step([r EXCEPT !.pc = "accepted"])
  /\ UNCHANGED <<streamVars, disk>>

\* Any of the calls above throws.
ReceiverFails ==
  \/ r.pc \in {"hello", "info", "data"} /\ ReadFails("receiver")
  \/ r.pc = "hello" /\ \E packet \in Packets("receiver") :
       packet.type # "HELLO" \/ ParseManifest(packet.payload) = {}
  \/ r.pc = "info" /\ \E packet \in Packets("receiver") :
       packet.type # "FILE_INFO" \/ ParseFileInfo(packet.payload) = {} \/ Load(stateFile) = {}
  \/ r.pc \in {"ack", "open"} /\ ~Written("receiver") /\ WriteFails("receiver")
  \/ r.pc = "ack" /\ WriteFails("receiver")
  \/ r.pc = "data" /\ \E packet \in Packets("receiver") :
       \/ packet.type \notin {"DATA", "FILE_END"}
       \/ packet.type = "DATA" /\ r.received + Len(packet.payload) > r.info.size
       \/ packet.type = "FILE_END" /\ r.received # r.info.size
  \/ r.pc = "record" /\ UpdateOffset(stateFile, r.info, r.received) = {}
  \/ r.pc = "compare" /\ (~DigestAgrees \/ Clear(stateFile, r.info) = {})

ReceiverLeaves ==
  /\ ReceiverFails
  /\ CloseEnd("receiver")
  /\ ReceiverGoes(IdleReceiver)

-----------------------------------------------------------------------------
(* Interruptions. *)

Fault == faults < MaxFaults /\ faults' = faults + 1 /\ disturbed' = TRUE

\* stop() shuts the connection down under the receiver, a cancel or a kill
\* closes the sender's; the calls in progress throw.
Interrupted(e) ==
  /\ handle[e] /\ Fault
  /\ CloseEnd(e)
  /\ UNCHANGED <<name, content, s, r, disk, stateFile>>

\* The connection is lost with part of what is under way.
ConnectionLost ==
  /\ \E e \in Ends : handle[e]
  /\ Fault
  /\ handle' = [e \in Ends |-> FALSE]
  /\ out' = Nothing /\ wire' = Nothing /\ got' = Nothing
  /\ UNCHANGED <<sent, read, name, content, s, r, disk, stateFile>>

\* A kill leaves a prefix of the state file that was being rewritten, and of
\* what the output stream had buffered.
Torn(texts) == \E text \in texts : \E n \in 0..Len(text) : stateFile' = SubSeq(text, 1, n)

KillReceiver ==
  /\ r.pc \notin {"idle", "accepted"} /\ Fault
  /\ CloseEnd("receiver")
  /\ r' = IdleReceiver
  /\ \/ r.pc \in {"data", "record"} /\ \E n \in 0..Len(disk) : disk' = SubSeq(disk, 1, n)
     \/ r.pc \notin {"data", "record"} /\ UNCHANGED disk
  /\ \/ r.pc = "record" /\ Torn(UpdateOffset(stateFile, r.info, r.received))
     \/ r.pc = "compare" /\ DigestAgrees /\ Torn(Clear(stateFile, r.info))
     \/ UNCHANGED stateFile
  /\ UNCHANGED <<name, content, s>>

-----------------------------------------------------------------------------
Transport(e) == /\ SendSome(e) \/ RecvSome(e)
                /\ UNCHANGED <<name, content, s, r, disk, stateFile, faults,
                               disturbed>>

SenderStep   == SendHello \/ SenderHashes \/ Announce \/ ReadAck \/ SendData \/ SendFileEnd \/ SenderLeaves
ReceiverStep == \/ ReadHello \/ ReadInfo \/ SendAck \/ OpenOutput \/ ReadData \/ RecordOffset
                \/ ReadFileEnd \/ ReceiverHashes \/ Accept \/ ReceiverLeaves

\* The receiver goes on with the next item, which is not part of this module.
Over == r.pc = "accepted" /\ s.pc = "idle" /\ UNCHANGED exchangeVars

ExchangeNext ==
  \/ Over \/ Begin \/ SenderStep \/ ReceiverStep
  \/ \E e \in Ends : Transport(e) \/ Interrupted(e)
  \/ ConnectionLost \/ KillReceiver

ExchangeSpec == ExchangeInit /\ [][ExchangeNext]_exchangeVars

-----------------------------------------------------------------------------
(* Properties. *)

\* What is accepted is the file that was announced, under its own name: through
\* escaping, framing, a resumed offset and two digests streamed in chunks of
\* different sizes (FileInfoCodec.cpp 89-118, Receiver.cpp 76-168).
AcceptedIsAnnounced ==
  r.pc = "accepted" => disk = content /\ r.info = Info

\* Each end's digest is that of the whole file, wherever its reads cut the file
\* and wherever its end falls in a block (Sha256.cpp 52-106, 162-191).
DigestIsOfContent ==
  /\ s.pc \notin {"idle", "hello", "hash", "announce"} => s.digest = Padded(content)
  /\ r.pc = "compare" => FinalHex(r.hash) = Padded(disk)

\* A state file torn by a kill at any point can still be read, so one crash does
\* not stop every later receive (ResumeManager.cpp 110-168).
StateFileReadable == Load(stateFile) # {}

\* Receiving one file never loses or changes the record of another, as long as
\* no save of the state file was interrupted (ResumeManager.cpp 184-217).
OtherRecordKept ==
  faults = 0 => FindOffset(stateFile, OtherInfo) = {OtherRecord.offset}

\* An attempt that is not interrupted goes through: whatever earlier ones left on
\* the disk and in the state file, and however packets are cut, no call of either
\* end throws (and, as deadlock is checked, the two never wait for each other).
NoFailureOfItsOwn == (SenderFails \/ ReceiverFails) => disturbed
=============================================================================
