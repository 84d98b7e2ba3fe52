------------------------------- MODULE Transfer -------------------------------
(***************************************************************************)
(* One BeamDrop send task and its retries: the sending side (SendService,  *)
(* Sender), the receiving side (ReceiveService, Receiver, the resume       *)
(* records of ResumeManager), the TCP connection between them, and what    *)
(* can go wrong around them: a connection that breaks with data in flight, *)
(* a process that is killed on either side, a cancelled send, a full disk, *)
(* a source file edited while it is sent, a leftover deleted by the user.  *)
(*                                                                         *)
(* A file's bytes are pairs <<version, position>>, so that a byte which is *)
(* lost, repeated, misplaced or taken from another version can be seen.    *)
(* SHA-256 is taken to be free of collisions: a digest is the version.     *)
(***************************************************************************)
EXTENDS Integers, Sequences

CONSTANTS
  NDirs,            \* directories of the task, announced before the files
  NFiles,           \* files of the task
  Version,          \* the contents a source file can have
  Size,             \* Size[v]: length in bytes of version v
  ChunkSize,        \* bytes read and sent per DATA packet
  ChannelCapacity,  \* packets the sockets hold before a writer blocks
  EnableResume,     \* ReceiveRequest.enable_resume
  MayEdit,          \* whether the source files are edited meanwhile
  Preexisting,      \* files that may be in the save directory beforehand
  MaxFaults,        \* bound on the environment's faults, all kinds together
  NoVersion,        \* "no verified version"
  Absent            \* "no such file"

Dir  == 1..NDirs
File == (NDirs + 1)..(NDirs + NFiles)
EndOfTask == NDirs + NFiles + 1

ASSUME ConstantsAssumption ==
  /\ NDirs \in Nat /\ NFiles \in Nat
  /\ Size \in [Version -> Nat]
  /\ ChunkSize \in Nat \ {0}
  /\ ChannelCapacity \in Nat \ {0}
  /\ EnableResume \in BOOLEAN /\ MayEdit \in BOOLEAN
  /\ Preexisting \subseteq File
  /\ MaxFaults \in Nat
  /\ NoVersion \notin Version
  /\ Absent \notin Seq(Version \X Nat)

VARIABLES
  source,        \* sending host: the version each source file holds now
  disk,          \* receiving host: the bytes of each file, or Absent
  madeDirs,      \* receiving host: the task's directories that exist
  records,       \* receiving host: resume offsets by identity, 0 for none
  verified,      \* the version whose digest the receiver has checked, per file
  senderPc, sendItem, sendSize, sendHash, sentSize, sendResult,
  receiverPc, receiveItem, fileInfo, resumeOffset, receivedSize, receiveResult,
  toReceiver,    \* packets on their way to the receiver
  toSender,      \* packets on their way to the sender
  broken,        \* the network no longer carries this connection
  faults         \* faults so far

disks        == <<source, disk, madeDirs, records, verified>>
senderVars   == <<senderPc, sendItem, sendSize, sendHash, sentSize, sendResult>>
receiverVars == <<receiverPc, receiveItem, fileInfo, resumeOffset,
                  receivedSize, receiveResult>>
net          == <<toReceiver, toSender, broken>>
vars         == <<disks, senderVars, receiverVars, net, faults>>

-----------------------------------------------------------------------------
(* Contents, identities and packets. *)

Byte       == Version \X Nat
Content(v) == [i \in 1..Size[v] |-> <<v, i>>]
Sizes      == {Size[v] : v \in Version}
FileInfos  == [file : File, size : Sizes, hash : Version]
NoInfo     == [file |-> 0, size |-> 0, hash |-> NoVersion]

Minimum(a, b) == IF a <= b THEN a ELSE b
Prefix(s, n)  == SubSeq(s, 1, n)

Hello   == [type |-> "HELLO"]
FileEnd == [type |-> "FILE_END"]
Finish  == [type |-> "FINISH"]
DirectoryInfo(d) == [type |-> "DIRECTORY_INFO", dir |-> d]
FileInfoPacket(i) == [type |-> "FILE_INFO", info |-> i]
Data(bytes)      == [type |-> "DATA", bytes |-> bytes]
ResumeAck(n)     == [type |-> "RESUME_ACK", offset |-> n]

Packet == [type : {"HELLO", "FILE_END", "FINISH"}]
            \cup [type : {"DIRECTORY_INFO"}, dir : Dir]
            \cup [type : {"FILE_INFO"}, info : FileInfos]
            \cup [type : {"DATA"}, bytes : Seq(Byte)]
Ack    == [type : {"RESUME_ACK"}, offset : Nat]

SenderPcs   == {"idle", "hello", "task", "hash", "ack", "stream", "end"}
ReceiverPcs == {"accept", "hello", "task", "ack", "open", "data", "record",
                "verify", "clear", "down"}
SendResults    == {"none", "ok", "network", "filesystem", "cancelled",
                   "killed"}
ReceiveResults == {"none", "ok", "network", "filesystem", "size", "checksum",
                   "killed"}

TypeOK ==
  /\ source \in [File -> Version]
  /\ disk \in [File -> Seq(Byte) \cup {Absent}]
  /\ madeDirs \in SUBSET Dir
  /\ records \in [FileInfos -> Nat]
  /\ verified \in [File -> Version \cup {NoVersion}]
  /\ senderPc \in SenderPcs
  /\ sendItem \in 1..EndOfTask
  /\ sendSize \in Sizes \cup {0}
  /\ sendHash \in Version \cup {NoVersion}
  /\ sentSize \in Nat
  /\ sendResult \in SendResults
  /\ receiverPc \in ReceiverPcs
  /\ receiveItem \in 1..EndOfTask
  /\ fileInfo \in FileInfos \cup {NoInfo}
  /\ resumeOffset \in Nat
  /\ receivedSize \in Nat
  /\ receiveResult \in ReceiveResults
  /\ toReceiver \in Seq(Packet)
  /\ toSender \in Seq(Ack)
  /\ broken \in BOOLEAN
  /\ faults \in 0..MaxFaults

Init ==
  /\ source \in [File -> Version]
  /\ disk \in [File -> {Absent} \cup {Content(v) : v \in Version}]
  /\ \A f \in File \ Preexisting : disk[f] = Absent
  /\ madeDirs = {}
  /\ records = [i \in FileInfos |-> 0]
  /\ verified = [f \in File |-> NoVersion]
  /\ senderPc = "idle" /\ sendItem = 1 /\ sendSize = 0
  /\ sendHash = NoVersion /\ sentSize = 0 /\ sendResult = "none"
  /\ receiverPc = "accept" /\ receiveItem = 1 /\ fileInfo = NoInfo
  /\ resumeOffset = 0 /\ receivedSize = 0 /\ receiveResult = "none"
  /\ toReceiver = <<>> /\ toSender = <<>> /\ broken = FALSE
  /\ faults = 0

-----------------------------------------------------------------------------
(* The connection.  A writer blocks while the sockets are full.  Once the  *)
(* other end is gone its writes still succeed locally for a while and are  *)
(* lost, or fail; its reads fail when what had arrived is consumed.        *)

SenderCut   == broken \/ receiverPc \in {"accept", "down"}
ReceiverCut == broken \/ senderPc = "idle"

SendToReceiver(packet) ==
  \/ /\ ~SenderCut
     /\ Len(toReceiver) < ChannelCapacity
     /\ toReceiver' = Append(toReceiver, packet)
  \/ SenderCut /\ UNCHANGED toReceiver

SendToSender(packet) ==
  \/ ~ReceiverCut /\ toSender' = Append(toSender, packet)
  \/ ReceiverCut /\ UNCHANGED toSender

-----------------------------------------------------------------------------
(* The sender: SendService::send and Sender::send_task. *)

\* The user runs the send (again); the server is waiting in accept.
Connect ==
  /\ senderPc = "idle" /\ receiverPc = "accept"
  /\ senderPc' = "hello" /\ receiverPc' = "hello"
  /\ sendResult' = "none" /\ receiveResult' = "none"
  /\ toReceiver' = <<>> /\ toSender' = <<>> /\ broken' = FALSE
  /\ UNCHANGED <<disks, sendItem, sendSize, sendHash, sentSize, receiveItem,
                 fileInfo, resumeOffset, receivedSize, faults>>

\* send() returns: locals and the connection go out of scope.
SenderEnds(result) ==
  /\ senderPc' = "idle"
  /\ sendResult' = result
  /\ sendItem' = 1 /\ sendSize' = 0 /\ sendHash' = NoVersion /\ sentSize' = 0
  /\ toSender' = <<>>
  /\ UNCHANGED <<disks, receiverVars, toReceiver, broken>>

SendHello ==
  /\ senderPc = "hello"
  /\ SendToReceiver(Hello)
  /\ senderPc' = "task"
  /\ UNCHANGED <<disks, sendItem, sendSize, sendHash, sentSize, sendResult,
                 receiverVars, toSender, broken, faults>>

SendOneDirectory ==
  /\ senderPc = "task" /\ sendItem \in Dir
  /\ SendToReceiver(DirectoryInfo(sendItem))
  /\ sendItem' = sendItem + 1
  /\ UNCHANGED <<disks, senderPc, sendSize, sendHash, sentSize, sendResult,
                 receiverVars, toSender, broken, faults>>

\* The size is read before the digest; an edit can come between the two.
ReadFileSize ==
  /\ senderPc = "task" /\ sendItem \in File
  /\ sendSize' = Size[source[sendItem]]
  /\ senderPc' = "hash"
  /\ UNCHANGED <<disks, sendItem, sendHash, sentSize, sendResult,
                 receiverVars, net, faults>>

HashAndAnnounce ==
  /\ senderPc = "hash"
  /\ sendHash' = source[sendItem]
  /\ SendToReceiver(FileInfoPacket([file |-> sendItem, size |-> sendSize,
                                    hash |-> source[sendItem]]))
  /\ senderPc' = "ack"
  /\ UNCHANGED <<disks, sendItem, sendSize, sentSize, sendResult,
                 receiverVars, toSender, broken, faults>>

\* Faulty variant: the stream is read from its beginning.
NoSeek == 0

SeekPosition == Head(toSender).offset

ReadResumeAck ==
  /\ senderPc = "ack" /\ toSender # <<>>
  /\ Head(toSender).offset <= sendSize
  /\ sentSize' = SeekPosition
  /\ toSender' = Tail(toSender)
  /\ senderPc' = "stream"
  /\ UNCHANGED <<disks, sendItem, sendSize, sendHash, sendResult,
                 receiverVars, toReceiver, broken, faults>>

\* What input.read() returns at the current position of the current file.
NextChunk ==
  LET v == source[sendItem]
  IN  SubSeq(Content(v), sentSize + 1, Minimum(sentSize + ChunkSize, Size[v]))

\* A short read sets eofbit, which ends the loop.
SendData ==
  /\ senderPc = "stream" /\ NextChunk # <<>>
  /\ SendToReceiver(Data(NextChunk))
  /\ sentSize' = sentSize + Len(NextChunk)
  /\ senderPc' = IF Len(NextChunk) < ChunkSize THEN "end" ELSE "stream"
  /\ UNCHANGED <<disks, sendItem, sendSize, sendHash, sendResult,
                 receiverVars, toSender, broken, faults>>

SendFileEnd ==
  /\ \/ senderPc = "stream" /\ NextChunk = <<>>
     \/ senderPc = "end"
  /\ SendToReceiver(FileEnd)
  /\ senderPc' = "task" /\ sendItem' = sendItem + 1
  /\ sendSize' = 0 /\ sendHash' = NoVersion /\ sentSize' = 0
  /\ UNCHANGED <<disks, sendResult, receiverVars, toSender, broken, faults>>

\* Faulty variant: the connection is closed without FINISH.
SendNoFinish ==
  /\ senderPc = "task" /\ sendItem = EndOfTask
  /\ senderPc' = "idle" /\ sendResult' = "ok"
  /\ sendItem' = 1 /\ sendSize' = 0 /\ sendHash' = NoVersion /\ sentSize' = 0
  /\ toSender' = <<>>
  /\ UNCHANGED <<disks, receiverVars, toReceiver, broken, faults>>

\* FINISH is written and success returned: no answer is awaited.
SendFinish ==
  /\ senderPc = "task" /\ sendItem = EndOfTask
  /\ SendToReceiver(Finish)
  /\ senderPc' = "idle" /\ sendResult' = "ok"
  /\ sendItem' = 1 /\ sendSize' = 0 /\ sendHash' = NoVersion /\ sentSize' = 0
  /\ toSender' = <<>>
  /\ UNCHANGED <<disks, receiverVars, broken, faults>>

\* A write, or the wait for RESUME_ACK, fails.
SenderNetworkError ==
  /\ SenderCut
  /\ \/ senderPc \in {"hello", "hash", "stream", "end"}
     \/ senderPc = "task" /\ sendItem \notin File
     \/ senderPc = "ack" /\ toSender = <<>>
  /\ SenderEnds("network")
  /\ UNCHANGED faults

SenderStep ==
  \/ SendHello \/ SendOneDirectory \/ ReadFileSize \/ HashAndAnnounce
  \/ ReadResumeAck \/ SendData \/ SendFileEnd \/ SendFinish
  \/ SenderNetworkError

-----------------------------------------------------------------------------
(* The receiver: ReceiveService::receive and Receiver::receive_task. *)

\* receive() returns; the stream's destructor flushes what was written.
ReceiverEnds(result) ==
  /\ receiverPc' = "accept"
  /\ receiveResult' = result
  /\ receiveItem' = 1 /\ fileInfo' = NoInfo
  /\ resumeOffset' = 0 /\ receivedSize' = 0
  /\ toReceiver' = <<>>

NextIs(type) == toReceiver # <<>> /\ Head(toReceiver).type = type

ReceiveHello ==
  /\ receiverPc = "hello" /\ NextIs("HELLO")
  /\ receiverPc' = "task"
  /\ toReceiver' = Tail(toReceiver)
  /\ UNCHANGED <<disks, senderVars, receiveItem, fileInfo, resumeOffset,
                 receivedSize, receiveResult, toSender, broken, faults>>

\* An existing directory is refused, whether or not resuming is enabled.
ReceiveOneDirectory ==
  /\ receiverPc = "task" /\ receiveItem \in Dir /\ NextIs("DIRECTORY_INFO")
  /\ LET d == Head(toReceiver).dir
     IN  \/ /\ d \in madeDirs
            /\ ReceiverEnds("filesystem")
            /\ UNCHANGED madeDirs
         \/ /\ d \notin madeDirs
            /\ madeDirs' = madeDirs \cup {d}
            /\ receiveItem' = receiveItem + 1
            /\ toReceiver' = Tail(toReceiver)
            /\ UNCHANGED <<receiverPc, fileInfo, resumeOffset, receivedSize,
                           receiveResult>>
  /\ UNCHANGED <<source, disk, records, verified, senderVars, toSender, broken,
                 faults>>

ExistingFileSize(f) == IF disk[f] = Absent THEN 0 ELSE Len(disk[f])

\* Faulty variant: the record is believed whatever is on the disk.
BelievedResumeOffset(i) == Minimum(records[i], i.size)

TrustedResumeOffset(i) ==
  LET stored == IF records[i] > i.size THEN 0 ELSE records[i]
  IN  Minimum(Minimum(stored, ExistingFileSize(i.file)), i.size)

\* Faulty variant: a file that exists is opened like a new one.
RefusesNothing(f) == FALSE

RefusesExisting(f) == disk[f] # Absent /\ ~EnableResume

ReceiveFileInfo ==
  /\ receiverPc = "task" /\ receiveItem \in File /\ NextIs("FILE_INFO")
  /\ LET i      == Head(toReceiver).info
         offset == IF EnableResume THEN TrustedResumeOffset(i) ELSE 0
     IN  \/ RefusesExisting(i.file) /\ ReceiverEnds("filesystem")
         \/ /\ ~RefusesExisting(i.file)
            /\ fileInfo' = i
            /\ resumeOffset' = offset /\ receivedSize' = offset
            /\ receiverPc' = "ack"
            /\ toReceiver' = Tail(toReceiver)
            /\ UNCHANGED <<receiveItem, receiveResult>>
  /\ UNCHANGED <<disks, senderVars, toSender, broken, faults>>

SendResumeAck ==
  /\ receiverPc = "ack"
  /\ SendToSender(ResumeAck(resumeOffset))
  /\ receiverPc' = "open"
  /\ UNCHANGED <<disks, senderVars, receiveItem, fileInfo, resumeOffset,
                 receivedSize, receiveResult, toReceiver, broken, faults>>

\* Faulty variant: the file is opened for appending without resize_file.
KeptUncut(bytes) == IF resumeOffset > 0 THEN bytes ELSE <<>>

\* Cut the file to the offset and append, or truncate it when there is none.
Kept(bytes) == IF resumeOffset > 0 THEN Prefix(bytes, resumeOffset) ELSE <<>>

OpenOutput ==
  /\ receiverPc = "open"
  /\ LET f == fileInfo.file
     IN  /\ disk' = [disk EXCEPT ![f] = Kept(@)]
         /\ verified' = [verified EXCEPT ![f] = NoVersion]
  /\ receiverPc' = "data"
  /\ UNCHANGED <<source, madeDirs, records, senderVars, receiveItem, fileInfo,
                 resumeOffset, receivedSize, receiveResult, net, faults>>

ReceiveData ==
  /\ receiverPc = "data" /\ NextIs("DATA")
  /\ LET bytes == Head(toReceiver).bytes
         total == receivedSize + Len(bytes)
     IN  \/ /\ total > fileInfo.size
            /\ ReceiverEnds("size")
            /\ UNCHANGED disk
         \/ /\ total <= fileInfo.size
            /\ disk' = [disk EXCEPT ![fileInfo.file] = @ \o bytes]
            /\ receivedSize' = total
            /\ receiverPc' = IF EnableResume THEN "record" ELSE "data"
            /\ toReceiver' = Tail(toReceiver)
            /\ UNCHANGED <<receiveItem, fileInfo, resumeOffset, receiveResult>>
  /\ UNCHANGED <<source, madeDirs, records, verified, senderVars, toSender,
                 broken, faults>>

\* Faulty variant: the offset from before the packet is recorded.
RecordBeforeWrite == [records EXCEPT ![fileInfo] = resumeOffset]

RecordAfterWrite == [records EXCEPT ![fileInfo] = receivedSize]

UpdateOffset ==
  /\ receiverPc = "record"
  /\ records' = RecordAfterWrite
  /\ receiverPc' = "data"
  /\ UNCHANGED <<source, disk, madeDirs, verified, senderVars, receiveItem,
                 fileInfo, resumeOffset, receivedSize, receiveResult, net, faults>>

ReceiveFileEnd ==
  /\ receiverPc = "data" /\ NextIs("FILE_END")
  /\ receiverPc' = "verify"
  /\ toReceiver' = Tail(toReceiver)
  /\ UNCHANGED <<disks, senderVars, receiveItem, fileInfo, resumeOffset,
                 receivedSize, receiveResult, toSender, broken, faults>>

\* Faulty variant: the index is advanced twice.
SkipFile ==
  /\ receiverPc' = "task" /\ receiveItem' = receiveItem + 2
  /\ fileInfo' = NoInfo /\ resumeOffset' = 0 /\ receivedSize' = 0
  /\ UNCHANGED <<receiveResult, toReceiver>>

NextFile ==
  /\ receiverPc' = "task" /\ receiveItem' = receiveItem + 1
  /\ fileInfo' = NoInfo /\ resumeOffset' = 0 /\ receivedSize' = 0
  /\ UNCHANGED <<receiveResult, toReceiver>>

\* Faulty variant: only the length is compared.
LengthMatches(f, v) == Len(disk[f]) = Size[v]

DigestMatches(f, v) == disk[f] = Content(v)

\* A mismatch removes neither the file nor its record.
VerifyFile ==
  /\ receiverPc = "verify"
  /\ LET f == fileInfo.file
         v == fileInfo.hash
     IN  \/ /\ receivedSize # fileInfo.size
            /\ ReceiverEnds("size")
            /\ UNCHANGED verified
         \/ /\ receivedSize = fileInfo.size /\ ~DigestMatches(f, v)
            /\ ReceiverEnds("checksum")
            /\ UNCHANGED verified
         \/ /\ receivedSize = fileInfo.size /\ DigestMatches(f, v)
            /\ verified' = [verified EXCEPT ![f] = v]
            /\ \/ /\ EnableResume /\ receiverPc' = "clear"
                  /\ UNCHANGED <<receiveItem, fileInfo, resumeOffset,
                                 receivedSize, receiveResult, toReceiver>>
               \/ ~EnableResume /\ NextFile
  /\ UNCHANGED <<source, disk, madeDirs, records, senderVars, toSender, broken,
                 faults>>

ClearRecord ==
  /\ receiverPc = "clear"
  /\ records' = [records EXCEPT ![fileInfo] = 0]
  /\ NextFile
  /\ UNCHANGED <<source, disk, madeDirs, verified, senderVars, toSender, broken,
                 faults>>

ReceiveFinish ==
  /\ receiverPc = "task" /\ receiveItem = EndOfTask /\ NextIs("FINISH")
  /\ ReceiverEnds("ok")
  /\ UNCHANGED <<disks, senderVars, toSender, broken, faults>>

\* read_exact meets the end of the stream, or RESUME_ACK cannot be written.
ReceiverNetworkError ==
  /\ ReceiverCut
  /\ \/ receiverPc \in {"hello", "task", "data"} /\ toReceiver = <<>>
     \/ receiverPc = "ack"
  /\ ReceiverEnds("network")
  /\ UNCHANGED <<disks, senderVars, toSender, broken, faults>>

ReceiverStep ==
  \/ ReceiveHello \/ ReceiveOneDirectory \/ ReceiveFileInfo \/ SendResumeAck
  \/ OpenOutput \/ ReceiveData \/ UpdateOffset \/ ReceiveFileEnd \/ VerifyFile
  \/ ClearRecord \/ ReceiveFinish \/ ReceiverNetworkError

-----------------------------------------------------------------------------
(* The environment. *)

Fault == faults < MaxFaults /\ faults' = faults + 1

\* The connection breaks; a suffix of what is in flight is lost.
Break ==
  /\ ~broken /\ receiverPc \notin {"accept", "down"}
  /\ Fault
  /\ broken' = TRUE
  /\ \E n \in 0..Len(toReceiver) : toReceiver' = Prefix(toReceiver, n)
  /\ \E n \in 0..Len(toSender) : toSender' = Prefix(toSender, n)
  /\ UNCHANGED <<disks, senderVars, receiverVars>>

\* request_stop() on the send, seen where the code looks at stop_token.
CancelSend ==
  /\ senderPc \in {"hello", "task", "hash", "stream"}
  /\ Fault
  /\ SenderEnds("cancelled")

\* The source file is gone or cannot be opened, positioned or read.
SourceUnreadable ==
  /\ senderPc \in {"hash", "stream"} \/ (senderPc = "task" /\ sendItem \in File)
  /\ Fault
  /\ SenderEnds("filesystem")

KillSender ==
  /\ senderPc # "idle"
  /\ Fault
  /\ SenderEnds("killed")

\* Some records of the new list, each whole (ResumeManager::save and load).
TornSave(new) ==
  \E kept \in SUBSET {i \in FileInfos : new[i] > 0} :
    records' = [i \in FileInfos |-> IF i \in kept THEN new[i] ELSE 0]

\* What the output stream still buffers never reaches the disk.
LoseBuffered ==
  \/ /\ receiverPc \in {"data", "record", "verify"}
     /\ \E n \in resumeOffset..Len(disk[fileInfo.file]) :
          disk' = [disk EXCEPT ![fileInfo.file] = Prefix(@, n)]
  \/ receiverPc \notin {"data", "record", "verify"} /\ UNCHANGED disk

\* A save of the state file that does not end keeps the old text, or a part of
\* the new one.
LoseRecords ==
  \/ UNCHANGED records
  \/ receiverPc = "record" /\ TornSave(RecordAfterWrite)
  \/ receiverPc = "clear" /\ TornSave([records EXCEPT ![fileInfo] = 0])

KillReceiver ==
  /\ receiverPc # "down"
  /\ Fault
  /\ LoseBuffered /\ LoseRecords
  /\ receiverPc' = "down" /\ receiveResult' = "killed"
  /\ receiveItem' = 1 /\ fileInfo' = NoInfo
  /\ resumeOffset' = 0 /\ receivedSize' = 0
  /\ toReceiver' = <<>>
  /\ UNCHANGED <<source, madeDirs, verified, senderVars, toSender, broken>>

RestartReceiver ==
  /\ receiverPc = "down"
  /\ receiverPc' = "accept"
  /\ UNCHANGED <<disks, senderVars, receiveItem, fileInfo, resumeOffset,
                 receivedSize, receiveResult, net, faults>>

\* ReceiveServerService::stop shuts the connection down under the receiver.
StopReceiving ==
  /\ receiverPc \in {"hello", "task", "ack", "data"}
  /\ Fault
  /\ ReceiverEnds("network")
  /\ UNCHANGED <<disks, senderVars, toSender, broken>>

\* A write comes up short: the disk is full.
WriteFails ==
  /\ receiverPc = "data" /\ NextIs("DATA")
  /\ receivedSize + Len(Head(toReceiver).bytes) <= fileInfo.size
  /\ Fault
  /\ \E n \in 0..(Len(Head(toReceiver).bytes) - 1) :
       disk' = [disk EXCEPT ![fileInfo.file] =
                  @ \o Prefix(Head(toReceiver).bytes, n)]
  /\ ReceiverEnds("filesystem")
  /\ UNCHANGED <<source, madeDirs, records, verified, senderVars, toSender, broken>>

\* The receiving host's storage fails a receiver that lives on: a directory is
\* not made, the state file not read, the output not cut, opened or closed, a
\* record not saved or not removed.
StorageFails ==
  /\ \/ receiverPc = "task" /\ receiveItem # EndOfTask /\ toReceiver # <<>>
     \/ receiverPc \in {"open", "data", "record", "verify", "clear"}
  /\ Fault
  /\ LoseBuffered /\ LoseRecords
  /\ ReceiverEnds("filesystem")
  /\ UNCHANGED <<source, madeDirs, verified, senderVars, toSender, broken>>

EditSource(f) ==
  /\ MayEdit
  /\ Fault
  /\ \E v \in Version \ {source[f]} : source' = [source EXCEPT ![f] = v]
  /\ UNCHANGED <<disk, madeDirs, records, verified, senderVars, receiverVars, net>>

\* The user deletes what an unsuccessful receive left behind.
RemoveLeftover(f) ==
  /\ receiverPc \in {"accept", "down"} /\ receiveResult # "ok"
  /\ disk[f] # Absent
  /\ Fault
  /\ disk' = [disk EXCEPT ![f] = Absent]
  /\ verified' = [verified EXCEPT ![f] = NoVersion]
  /\ UNCHANGED <<source, madeDirs, records, senderVars, receiverVars, net>>

Environment ==
  \/ Break \/ CancelSend \/ SourceUnreadable \/ KillSender \/ KillReceiver \/ StopReceiving
  \/ WriteFails \/ StorageFails
  \/ \E f \in File : EditSource(f) \/ RemoveLeftover(f)

Next == Connect \/ SenderStep \/ ReceiverStep \/ RestartReceiver \/ Environment

Spec == Init /\ [][Next]_vars

\* Every process keeps running; only the environment's faults may never come.
Fairness ==
  /\ WF_vars(Connect) /\ WF_vars(RestartReceiver)
  /\ WF_vars(SenderStep) /\ WF_vars(ReceiverStep)

FairSpec == Spec /\ Fairness

-----------------------------------------------------------------------------
(* Properties. *)

Writing == receiverPc \in {"data", "record", "verify"}
AtRest  == senderPc = "idle" /\ receiverPc = "accept"

\* A file whose digest the receiver has checked keeps exactly the bytes of that
\* version until a later receive reopens it or the user removes it: no kill,
\* broken connection, short write or other file of the task reaches it
\* (Receiver.cpp 107-164).
VerifiedIntact ==
  \A f \in File : verified[f] # NoVersion => disk[f] = Content(verified[f])

\* When receive() reports success every file of the task has been checked and
\* is complete on disk, whatever the source files did in the meantime
\* (ReceiveService.cpp 73-87).
SuccessMeansComplete ==
  receiveResult = "ok" =>
    \A f \in File : verified[f] # NoVersion /\ disk[f] = Content(verified[f])

\* While no source file is edited, the bytes the receiver tells the sender to
\* skip are on its disk and are those of the announced version: a record that
\* runs ahead of a buffered stream, a torn state file, a deleted or shortened
\* leftover never make it skip what it does not have
\* (Receiver.cpp 56-63).
SkippedBytesAreThere ==
  (~MayEdit /\ receiverPc \in {"ack", "open"}) =>
    /\ resumeOffset <= ExistingFileSize(fileInfo.file)
    /\ resumeOffset > 0 => Prefix(disk[fileInfo.file], resumeOffset)
                              = Prefix(Content(fileInfo.hash), resumeOffset)

\* While no source file is edited, no sequence of kills, broken connections,
\* cancellations and retries ends a receive with a size or checksum mismatch:
\* the offset, the seek, the cut and the append agree (Receiver.cpp 94-164,
\* Sender.cpp 60-111).
NoSpuriousMismatch == ~MayEdit => receiveResult \notin {"size", "checksum"}

\* Between two DATA packets the record covers every byte written, so that an
\* interruption that lets the process live costs no byte already received
\* (Receiver.cpp 141-144).
NoLostProgress ==
  (EnableResume /\ receiverPc = "data" /\ receivedSize > 0) =>
    records[fileInfo] >= receivedSize

\* The two ends stay in step: the packet the receiver is about to read is one
\* its next read accepts, for the file it is about to receive, and the offset
\* the sender reads lies within its file, so UnexpectedPacket and
\* InvalidResumeOffset are never raised between these two programs.
InStep ==
  /\ toReceiver # <<>> =>
       LET packet == Head(toReceiver)
       IN  /\ receiverPc = "hello" => packet = Hello
           /\ receiverPc = "ack" => FALSE
           /\ receiverPc = "data" => packet.type \in {"DATA", "FILE_END"}
           /\ receiverPc = "task" =>
                \/ receiveItem \in Dir /\ packet = DirectoryInfo(receiveItem)
                \/ /\ receiveItem \in File /\ packet.type = "FILE_INFO"
                   /\ packet.info.file = receiveItem
                \/ receiveItem = EndOfTask /\ packet = Finish
  /\ toSender # <<>> => Len(toSender) = 1 /\ senderPc = "ack"
                          /\ Head(toSender).offset <= sendSize

\* Without any fault, which an edit is too, the two ends agree on whether a task
\* with a file in it went through once both are back at rest, although success
\* is returned before the receiver has read FINISH (SendService.cpp 147-151).
\* The last RESUME_ACK the sender waits for is what makes it so: of a task of
\* directories alone, which has none, the sender reports success in any case.
AgreeWithoutFaults ==
  (NFiles > 0 /\ AtRest /\ faults = 0) => (sendResult = "ok" <=> receiveResult = "ok")

\* Only the file being written changes, except that the user may delete one:
\* what existed before is refused and not overwritten (Receiver.cpp 85-88,
\* 184-187).
ExistingFilesUntouched ==
  [][\A f \in File :
       (disk[f] # Absent /\ ~(Writing /\ fileInfo.file = f))
         => disk'[f] \in {disk[f], Absent}]_vars

\* Repeating the send gets the task through again and again once the faults
\* have stopped, from whatever they left on the disk and in the records.
RetriesSucceed == []<>(receiveResult = "ok")

\* The task gets through at least once, from a save directory with nothing of
\* it, however often it is interrupted meanwhile.
EventuallyDelivered == <>(receiveResult = "ok")

\* What the module promises of each file, one level up.
Delivery == INSTANCE FileDelivery WITH
              copy <- disk, certified <- verified, MayReplace <- EnableResume
DeliverySpec == Delivery!Spec
=============================================================================
