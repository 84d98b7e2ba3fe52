---------------------------- MODULE TransferProofs ----------------------------
(***************************************************************************)
(* Proofs about Transfer for every task, every set of versions and sizes,  *)
(* any number of faults: type correctness, and that a file whose digest    *)
(* was checked keeps its bytes.                                            *)
(***************************************************************************)
EXTENDS Transfer, TLAPS

\* Where each program is inside a file, and what its locals then hold.
SenderInFile ==
  /\ senderPc \in {"hash", "ack", "stream", "end"} =>
       sendItem \in File /\ sendSize \in Sizes

ReceivingFile == {"ack", "open", "data", "record", "verify", "clear"}

ReceiverInFile ==
  receiverPc \in ReceivingFile => receiveItem \in File /\ fileInfo \in FileInfos

\* The offset to be confirmed lies within the file as it is on disk, and
\* without resuming there is no such file.
OffsetOnDisk ==
  receiverPc \in {"ack", "open"} =>
    /\ resumeOffset <= ExistingFileSize(fileInfo.file)
    /\ EnableResume \/ disk[fileInfo.file] = Absent

\* The file being written exists and is not counted as checked.
OpenFileUnverified ==
  Writing => /\ disk[fileInfo.file] # Absent
             /\ verified[fileInfo.file] = NoVersion

\* The inductive invariant.
IInv == /\ TypeOK
        /\ SenderInFile /\ ReceiverInFile
        /\ OffsetOnDisk /\ OpenFileUnverified
        /\ VerifiedIntact

-----------------------------------------------------------------------------
(* Lemmas about the operators. *)

\* The fields of a packet are those of its type.
LEMMA PacketFields ==
  ASSUME NEW packet \in Packet
  PROVE  /\ packet.type = "DATA" => packet.bytes \in Seq(Byte)
         /\ packet.type = "FILE_INFO" => packet.info \in FileInfos
         /\ packet.type = "DIRECTORY_INFO" => packet.dir \in Dir
BY DEF Packet

\* A prefix of a byte sequence is a byte sequence of that length.
LEMMA PrefixType ==
  ASSUME NEW s \in Seq(Byte), NEW n \in 0..Len(s)
  PROVE  Prefix(s, n) \in Seq(Byte) /\ Len(Prefix(s, n)) = n
BY DEF Prefix

\* Bytes that were written make a file that exists, also when appended.
LEMMA BytesExist ==
  ASSUME NEW s \in Seq(Byte), NEW t \in Seq(Byte)
  PROVE  s # Absent /\ s \o t \in Seq(Byte) /\ Len(s \o t) = Len(s) + Len(t)
<1>1. s # Absent
  BY ConstantsAssumption DEF Byte
<1>2. s \o t \in Seq(Byte) /\ Len(s \o t) = Len(s) + Len(t)
  OBVIOUS
<1> QED
  BY <1>1, <1>2

\* The content of a version is a byte sequence of its size.
LEMMA ContentType ==
  ASSUME NEW v \in Version
  PROVE  Content(v) \in Seq(Byte) /\ Len(Content(v)) = Size[v]
<1>1. Size[v] \in Nat
  BY ConstantsAssumption
<1>2. \A i \in 1..Size[v] : <<v, i>> \in Byte
  BY <1>1 DEF Byte
<1> QED
  BY <1>1, <1>2 DEF Content

\* What the sender reads is a byte sequence.
LEMMA ChunkType ==
  ASSUME TypeOK, sendItem \in File
  PROVE  NextChunk \in Seq(Byte)
<1> DEFINE v == source[sendItem]
           last == Minimum(sentSize + ChunkSize, Size[v])
<1>1. v \in Version /\ sentSize \in Nat /\ Size[v] \in Nat
  BY ConstantsAssumption DEF TypeOK
<1>2. last \in Nat /\ last <= Size[v]
  BY <1>1, ConstantsAssumption DEF Minimum
<1>3. Content(v) \in Seq(Byte) /\ Len(Content(v)) = Size[v]
  BY <1>1, ContentType
<1> QED
  BY <1>1, <1>2, <1>3 DEF NextChunk

\* Whatever the fate of a write, the channel carries packets.
LEMMA SendType ==
  ASSUME toReceiver \in Seq(Packet), NEW packet \in Packet,
         SendToReceiver(packet)
  PROVE  toReceiver' \in Seq(Packet)
BY DEF SendToReceiver

\* Reading from the channel gives a packet and leaves packets.
LEMMA ReadType ==
  ASSUME toReceiver \in Seq(Packet), toReceiver # <<>>
  PROVE  Head(toReceiver) \in Packet /\ Tail(toReceiver) \in Seq(Packet)
OBVIOUS

-----------------------------------------------------------------------------
(* Initial states. *)

\* The invariant holds initially.
LEMMA InitIInv == Init => IInv
<1> SUFFICES ASSUME Init PROVE IInv
  OBVIOUS
<1>1. disk \in [File -> Seq(Byte) \cup {Absent}]
  <2>1. \A v \in Version : Content(v) \in Seq(Byte)
    BY ContentType
  <2> QED
    BY <2>1 DEF Init
<1>2. TypeOK
  <2>1. 1 \in 1..EndOfTask /\ 0 \in 0..MaxFaults
    BY ConstantsAssumption DEF EndOfTask
  <2>2. /\ source \in [File -> Version]
        /\ madeDirs \in SUBSET Dir
        /\ records \in [FileInfos -> Nat]
        /\ verified \in [File -> Version \cup {NoVersion}]
    BY DEF Init
  <2>3. toReceiver \in Seq(Packet) /\ toSender \in Seq(Ack)
    BY DEF Init
  <2> QED
    BY <1>1, <2>1, <2>2, <2>3
    DEF Init, TypeOK, SenderPcs, ReceiverPcs, SendResults, ReceiveResults
<1>3. SenderInFile /\ ReceiverInFile /\ OffsetOnDisk /\ OpenFileUnverified
  BY DEF Init, SenderInFile, ReceiverInFile, OffsetOnDisk, OpenFileUnverified,
         Writing, ReceivingFile
<1>4. VerifiedIntact
  BY DEF Init, VerifiedIntact
<1> QED
  BY <1>2, <1>3, <1>4 DEF IInv

-----------------------------------------------------------------------------
(* The sender's steps leave the receiver and the disks alone. *)

\* What the sender may do to the shared state.
SenderFrame == UNCHANGED <<disks, receiverVars>>

SenderTypeOK ==
  /\ senderPc \in SenderPcs
  /\ sendItem \in 1..EndOfTask
  /\ sendSize \in Sizes \cup {0}
  /\ sendHash \in Version \cup {NoVersion}
  /\ sentSize \in Nat
  /\ sendResult \in SendResults
  /\ toReceiver \in Seq(Packet)
  /\ toSender \in Seq(Ack)
  /\ broken \in BOOLEAN
  /\ faults \in 0..MaxFaults

\* A step that changes nothing of the receiver and the disks keeps the
\* invariant when it keeps the sender's part of it.
LEMMA SenderFrameIInv ==
  ASSUME IInv, SenderFrame, SenderTypeOK', SenderInFile'
  PROVE  IInv'
<1>1. TypeOK'
  BY DEF IInv, TypeOK, SenderTypeOK, SenderFrame, disks, receiverVars
<1>2. ReceiverInFile' /\ OffsetOnDisk' /\ OpenFileUnverified' /\ VerifiedIntact'
  BY DEF IInv, SenderFrame, disks, receiverVars, ReceiverInFile, OffsetOnDisk,
         OpenFileUnverified, VerifiedIntact, Writing, ExistingFileSize
<1> QED
  BY <1>1, <1>2 DEF IInv

\* send() returning, for whatever reason.
LEMMA SenderEndsIInv ==
  ASSUME IInv, NEW result \in SendResults, SenderEnds(result),
         faults' \in 0..MaxFaults
  PROVE  IInv'
<1>1. SenderFrame
  BY DEF SenderEnds, SenderFrame
<1>2. SenderTypeOK'
  BY ConstantsAssumption
  DEF IInv, TypeOK, SenderTypeOK, SenderEnds, SenderPcs, EndOfTask
<1>3. SenderInFile'
  BY DEF SenderEnds, SenderInFile
<1> QED
  BY <1>1, <1>2, <1>3, SenderFrameIInv

\* The sender keeps the invariant.
LEMMA SenderStepIInv ==
  ASSUME IInv, SenderStep
  PROVE  IInv'
<1> USE DEF IInv
<1>t. /\ sendItem \in Nat /\ NDirs \in Nat /\ NFiles \in Nat
      /\ toReceiver \in Seq(Packet) /\ toSender \in Seq(Ack)
  BY ConstantsAssumption DEF TypeOK, EndOfTask
<1>1. CASE SendHello
  <2>1. Hello \in Packet
    BY DEF Hello, Packet
  <2>2. toReceiver' \in Seq(Packet)
    BY <1>1, <1>t, <2>1, SendType DEF SendHello
  <2>3. SenderFrame /\ SenderTypeOK' /\ SenderInFile'
    BY <1>1, <2>2
    DEF SendHello, SenderFrame, SenderTypeOK, SenderInFile, TypeOK, SenderPcs
  <2> QED
    BY <2>3, SenderFrameIInv
<1>2. CASE SendOneDirectory
  <2>1. DirectoryInfo(sendItem) \in Packet
    BY <1>2 DEF SendOneDirectory, DirectoryInfo, Packet
  <2>2. toReceiver' \in Seq(Packet)
    BY <1>2, <1>t, <2>1, SendType DEF SendOneDirectory
  <2>3. sendItem' \in 1..EndOfTask
    BY <1>2, <1>t DEF SendOneDirectory, Dir, EndOfTask
  <2>4. SenderFrame /\ SenderTypeOK' /\ SenderInFile'
    BY <1>2, <2>2, <2>3
    DEF SendOneDirectory, SenderFrame, SenderTypeOK, SenderInFile, TypeOK
  <2> QED
    BY <2>4, SenderFrameIInv
<1>3. CASE ReadFileSize
  <2>1. Size[source[sendItem]] \in Sizes
    BY <1>3 DEF ReadFileSize, TypeOK, Sizes
  <2>2. SenderFrame /\ SenderTypeOK' /\ SenderInFile'
    BY <1>3, <2>1
    DEF ReadFileSize, SenderFrame, SenderTypeOK, SenderInFile, TypeOK,
        SenderPcs, net
  <2> QED
    BY <2>2, SenderFrameIInv
<1>4. CASE HashAndAnnounce
  <2>1. sendItem \in File /\ sendSize \in Sizes /\ source[sendItem] \in Version
    BY <1>4 DEF HashAndAnnounce, SenderInFile, TypeOK
  <2>2. [file |-> sendItem, size |-> sendSize, hash |-> source[sendItem]] \in FileInfos
    BY <2>1 DEF FileInfos
  <2>3. FileInfoPacket([file |-> sendItem, size |-> sendSize,
                        hash |-> source[sendItem]]) \in Packet
    BY <2>2 DEF FileInfoPacket, Packet
  <2>4. toReceiver' \in Seq(Packet)
    BY <1>4, <1>t, <2>3, SendType DEF HashAndAnnounce
  <2>5. SenderFrame /\ SenderTypeOK' /\ SenderInFile'
    BY <1>4, <2>1, <2>4
    DEF HashAndAnnounce, SenderFrame, SenderTypeOK, SenderInFile, TypeOK, SenderPcs
  <2> QED
    BY <2>5, SenderFrameIInv
<1>5. CASE ReadResumeAck
  <2>1. Head(toSender) \in Ack /\ Tail(toSender) \in Seq(Ack)
    BY <1>5, <1>t DEF ReadResumeAck
  <2>2. SeekPosition \in Nat
    BY <2>1 DEF Ack, SeekPosition
  <2>3. SenderFrame /\ SenderTypeOK' /\ SenderInFile'
    BY <1>5, <2>1, <2>2
    DEF ReadResumeAck, SenderFrame, SenderTypeOK, SenderInFile, TypeOK, SenderPcs
  <2> QED
    BY <2>3, SenderFrameIInv
<1>6. CASE SendData
  <2>1. sendItem \in File
    BY <1>6 DEF SendData, SenderInFile
  <2>2. NextChunk \in Seq(Byte)
    BY <2>1, ChunkType
  <2>3. Data(NextChunk) \in Packet /\ Len(NextChunk) \in Nat
    BY <2>2 DEF Data, Packet
  <2>4. toReceiver' \in Seq(Packet)
    BY <1>6, <1>t, <2>3, SendType DEF SendData
  <2>5. SenderFrame /\ SenderTypeOK' /\ SenderInFile'
    BY <1>6, <2>1, <2>3, <2>4
    DEF SendData, SenderFrame, SenderTypeOK, SenderInFile, TypeOK, SenderPcs
  <2> QED
    BY <2>5, SenderFrameIInv
<1>7. CASE SendFileEnd
  <2>1. FileEnd \in Packet
    BY DEF FileEnd, Packet
  <2>2. toReceiver' \in Seq(Packet)
    BY <1>7, <1>t, <2>1, SendType DEF SendFileEnd
  <2>3. sendItem' \in 1..EndOfTask
    BY <1>7, <1>t DEF SendFileEnd, SenderInFile, File, EndOfTask
  <2>4. SenderFrame /\ SenderTypeOK' /\ SenderInFile'
    BY <1>7, <2>2, <2>3
    DEF SendFileEnd, SenderFrame, SenderTypeOK, SenderInFile, TypeOK, SenderPcs
  <2> QED
    BY <2>4, SenderFrameIInv
<1>8. CASE SendFinish
  <2>1. Finish \in Packet
    BY DEF Finish, Packet
  <2>2. toReceiver' \in Seq(Packet)
    BY <1>8, <1>t, <2>1, SendType DEF SendFinish
  <2>3. SenderFrame /\ SenderTypeOK' /\ SenderInFile'
    BY <1>8, <1>t, <2>2
    DEF SendFinish, SenderFrame, SenderTypeOK, SenderInFile, TypeOK, SenderPcs,
        SendResults, EndOfTask
  <2> QED
    BY <2>3, SenderFrameIInv
<1>9. CASE SenderNetworkError
  BY <1>9, SenderEndsIInv DEF SenderNetworkError, SendResults, TypeOK
<1> QED
  BY <1>1, <1>2, <1>3, <1>4, <1>5, <1>6, <1>7, <1>8, <1>9 DEF SenderStep

-----------------------------------------------------------------------------
(* The receiver's steps leave the sender and its channel alone. *)

\* Between files and between connections the receiver holds no open file.
ReceiverOutOfFile ==
  /\ receiverPc \in {"accept", "hello", "task", "down"}
  /\ receiveItem \in 1..EndOfTask
  /\ fileInfo = NoInfo /\ resumeOffset = 0 /\ receivedSize = 0
  /\ receiveResult \in ReceiveResults
  /\ toReceiver \in Seq(Packet)

\* Everything of the sender, the other channel and the network.
OtherEndFrame ==
  /\ UNCHANGED <<source, senderVars>>
  /\ toSender' \in Seq(Ack)
  /\ broken' \in BOOLEAN
  /\ faults' \in 0..MaxFaults

\* Leaving the current file keeps the invariant when the disk is well formed
\* and the checked files are as checked.
LEMMA OutOfFileIInv ==
  ASSUME IInv, OtherEndFrame, ReceiverOutOfFile',
         disk' \in [File -> Seq(Byte) \cup {Absent}],
         madeDirs' \in SUBSET Dir,
         records' \in [FileInfos -> Nat],
         verified' \in [File -> Version \cup {NoVersion}],
         VerifiedIntact'
  PROVE  IInv'
<1>1. TypeOK'
  BY DEF IInv, TypeOK, OtherEndFrame, ReceiverOutOfFile, senderVars,
         ReceiverPcs
<1>2. SenderInFile'
  BY DEF IInv, OtherEndFrame, SenderInFile, senderVars
<1>3. ReceiverInFile' /\ OffsetOnDisk' /\ OpenFileUnverified'
  BY DEF ReceiverOutOfFile, ReceiverInFile, OffsetOnDisk, OpenFileUnverified,
         Writing, ReceivingFile
<1> QED
  BY <1>1, <1>2, <1>3 DEF IInv

\* receive() returning, for whatever reason, with the disks as they are.
LEMMA ReceiverEndsIInv ==
  ASSUME IInv, NEW result \in ReceiveResults, ReceiverEnds(result),
         UNCHANGED <<disks, senderVars, toSender, broken>>,
         faults' \in 0..MaxFaults
  PROVE  IInv'
<1>1. OtherEndFrame
  BY DEF IInv, TypeOK, OtherEndFrame, disks
<1>2. ReceiverOutOfFile'
  BY ConstantsAssumption DEF ReceiverEnds, ReceiverOutOfFile, EndOfTask
<1>3. VerifiedIntact'
  BY DEF IInv, VerifiedIntact, disks
<1> QED
  BY <1>1, <1>2, <1>3, OutOfFileIInv DEF IInv, TypeOK, disks

\* Only the file being written changes, and it is not counted as checked.
LEMMA WriteKeepsVerified ==
  ASSUME IInv, Writing, NEW bytes \in Seq(Byte),
         disk' = [disk EXCEPT ![fileInfo.file] = bytes],
         UNCHANGED verified
  PROVE  /\ disk' \in [File -> Seq(Byte) \cup {Absent}]
         /\ VerifiedIntact'
<1>1. fileInfo.file \in File
  BY DEF IInv, ReceiverInFile, ReceivingFile, Writing, FileInfos
<1>2. verified[fileInfo.file] = NoVersion
  BY DEF IInv, OpenFileUnverified
<1> QED
  BY <1>1, <1>2 DEF IInv, TypeOK, VerifiedIntact

\* While a file is being written its bytes are a sequence.
LEMMA OpenFileType ==
  ASSUME IInv, Writing
  PROVE  /\ fileInfo \in FileInfos /\ fileInfo.file \in File
         /\ disk[fileInfo.file] \in Seq(Byte)
<1>1. fileInfo \in FileInfos /\ fileInfo.file \in File
  BY DEF IInv, ReceiverInFile, ReceivingFile, Writing, FileInfos
<1>2. disk[fileInfo.file] # Absent
  BY DEF IInv, OpenFileUnverified
<1> QED
  BY <1>1, <1>2 DEF IInv, TypeOK

\* The next packet, read.
LEMMA NextIsType ==
  ASSUME IInv, NEW type, NextIs(type)
  PROVE  /\ Head(toReceiver) \in Packet /\ Head(toReceiver).type = type
         /\ Tail(toReceiver) \in Seq(Packet)
BY ReadType DEF IInv, TypeOK, NextIs

\* The offset computed from a record never exceeds the file on disk.
LEMMA OffsetType ==
  ASSUME IInv, NEW i \in FileInfos
  PROVE  /\ TrustedResumeOffset(i) \in Nat
         /\ TrustedResumeOffset(i) <= ExistingFileSize(i.file)
<1>1. records[i] \in Nat /\ i.size \in Nat /\ i.file \in File
  BY ConstantsAssumption DEF IInv, TypeOK, FileInfos, Sizes
<1>2. ExistingFileSize(i.file) \in Nat
  BY <1>1 DEF IInv, TypeOK, ExistingFileSize
<1> QED
  BY <1>1, <1>2 DEF TrustedResumeOffset, Minimum

\* Going on to the next item keeps the invariant.
LEMMA NextFileIInv ==
  ASSUME IInv, receiverPc \in ReceivingFile, NextFile,
         UNCHANGED <<source, disk, madeDirs, senderVars, toSender, broken, faults>>,
         records' \in [FileInfos -> Nat],
         verified' \in [File -> Version \cup {NoVersion}],
         VerifiedIntact'
  PROVE  IInv'
<1>1. receiveItem' \in 1..EndOfTask
  BY ConstantsAssumption
  DEF IInv, ReceiverInFile, NextFile, File, EndOfTask
<1>2. ReceiverOutOfFile'
  BY <1>1 DEF NextFile, ReceiverOutOfFile, IInv, TypeOK
<1>3. OtherEndFrame
  BY DEF IInv, TypeOK, OtherEndFrame
<1> QED
  BY <1>2, <1>3, OutOfFileIInv DEF IInv, TypeOK

\* The receiver keeps the invariant.
LEMMA ReceiverStepIInv ==
  ASSUME IInv, ReceiverStep
  PROVE  IInv'
<1>t. TypeOK /\ VerifiedIntact
  BY DEF IInv
<1>1. CASE ReceiveHello
  <2>1. Tail(toReceiver) \in Seq(Packet)
    BY <1>1, NextIsType DEF ReceiveHello
  <2> QED
    BY <1>1, <1>t, <2>1
    DEF ReceiveHello, IInv, TypeOK, ReceiverPcs, SenderInFile, ReceiverInFile,
        OffsetOnDisk, OpenFileUnverified, VerifiedIntact, Writing,
        ReceivingFile, disks, senderVars
<1>2. CASE ReceiveOneDirectory
  <2>1. Head(toReceiver).dir \in Dir /\ Tail(toReceiver) \in Seq(Packet)
    BY <1>2, NextIsType, PacketFields DEF ReceiveOneDirectory
  <2>2. CASE ReceiverEnds("filesystem") /\ UNCHANGED madeDirs
    BY <1>2, <1>t, <2>2, ReceiverEndsIInv
    DEF ReceiveOneDirectory, ReceiveResults, disks, TypeOK
  <2>3. CASE /\ madeDirs' = madeDirs \cup {Head(toReceiver).dir}
             /\ receiveItem' = receiveItem + 1
             /\ toReceiver' = Tail(toReceiver)
             /\ UNCHANGED <<receiverPc, fileInfo, resumeOffset, receivedSize,
                            receiveResult>>
    <3>1. receiveItem' \in 1..EndOfTask
      BY <1>2, <1>t, <2>3, ConstantsAssumption
      DEF ReceiveOneDirectory, Dir, EndOfTask, TypeOK
    <3>2. madeDirs' \in SUBSET Dir
      BY <1>t, <2>1, <2>3 DEF TypeOK
    <3> QED
      BY <1>2, <1>t, <2>1, <2>3, <3>1, <3>2
      DEF ReceiveOneDirectory, IInv, TypeOK, SenderInFile, ReceiverInFile,
          OffsetOnDisk, OpenFileUnverified, VerifiedIntact, Writing,
          ReceivingFile, senderVars
  <2> QED
    BY <1>2, <2>2, <2>3 DEF ReceiveOneDirectory
<1>3. CASE ReceiveFileInfo
  <2> DEFINE i == Head(toReceiver).info
             offset == IF EnableResume THEN TrustedResumeOffset(i) ELSE 0
  <2>1. i \in FileInfos /\ Tail(toReceiver) \in Seq(Packet)
    BY <1>3, NextIsType, PacketFields DEF ReceiveFileInfo
  <2>2. CASE ReceiverEnds("filesystem")
    BY <1>3, <1>t, <2>2, ReceiverEndsIInv
    DEF ReceiveFileInfo, ReceiveResults, TypeOK
  <2>3. CASE /\ ~RefusesExisting(i.file)
             /\ fileInfo' = i
             /\ resumeOffset' = offset /\ receivedSize' = offset
             /\ receiverPc' = "ack"
             /\ toReceiver' = Tail(toReceiver)
             /\ UNCHANGED <<receiveItem, receiveResult>>
    <3>1. offset \in Nat /\ offset <= ExistingFileSize(i.file)
      <4>1. ExistingFileSize(i.file) \in Nat
        BY <1>t, <2>1 DEF TypeOK, FileInfos, ExistingFileSize
      <4> QED
        BY <2>1, <4>1, OffsetType, ConstantsAssumption
    <3>2. TypeOK'
      BY <1>3, <1>t, <2>1, <2>3, <3>1
      DEF ReceiveFileInfo, TypeOK, disks, senderVars, ReceiverPcs
    <3>3. OffsetOnDisk'
      BY <1>3, <2>3, <3>1
      DEF ReceiveFileInfo, OffsetOnDisk, RefusesExisting, disks,
          ExistingFileSize
    <3>4. /\ SenderInFile' /\ ReceiverInFile' /\ OpenFileUnverified'
          /\ VerifiedIntact'
      BY <1>3, <1>t, <2>1, <2>3
      DEF ReceiveFileInfo, IInv, SenderInFile, ReceiverInFile,
          OpenFileUnverified, Writing, VerifiedIntact, disks, senderVars
    <3> QED
      BY <3>2, <3>3, <3>4 DEF IInv
  <2> QED
    BY <1>3, <2>2, <2>3 DEF ReceiveFileInfo
<1>4. CASE SendResumeAck
  <2>1. ResumeAck(resumeOffset) \in Ack
    BY <1>t DEF TypeOK, ResumeAck, Ack
  <2>2. toSender' \in Seq(Ack)
    <3>1. toSender \in Seq(Ack)
      BY <1>t DEF TypeOK
    <3>2. toSender' = Append(toSender, ResumeAck(resumeOffset)) \/ UNCHANGED toSender
      BY <1>4 DEF SendResumeAck, SendToSender
    <3> QED
      BY <2>1, <3>1, <3>2
  <2>3. TypeOK'
    <3>1. /\ receiverPc' = "open"
          /\ UNCHANGED <<disks, senderVars, receiveItem, fileInfo, resumeOffset,
                         receivedSize, receiveResult, toReceiver, broken, faults>>
      BY <1>4 DEF SendResumeAck
    <3> QED
      BY <1>t, <2>2, <3>1 DEF TypeOK, ReceiverPcs, disks, senderVars
  <2>4. ReceiverInFile' /\ OffsetOnDisk'
    BY <1>4
    DEF SendResumeAck, IInv, ReceiverInFile, OffsetOnDisk, ReceivingFile,
        ExistingFileSize, disks
  <2>5. SenderInFile' /\ OpenFileUnverified' /\ VerifiedIntact'
    BY <1>4
    DEF SendResumeAck, IInv, SenderInFile, OpenFileUnverified, Writing,
        VerifiedIntact, disks, senderVars
  <2> QED
    BY <2>3, <2>4, <2>5 DEF IInv
<1>5. CASE OpenOutput
  <2> DEFINE f == fileInfo.file
  <2>1. fileInfo \in FileInfos /\ f \in File /\ receiveItem \in File
    BY <1>5 DEF OpenOutput, IInv, ReceiverInFile, ReceivingFile, FileInfos
  <2>2. Kept(disk[f]) \in Seq(Byte)
    <3>1. CASE resumeOffset > 0
      <4>1. resumeOffset \in Nat /\ resumeOffset <= ExistingFileSize(f)
        BY <1>5, <1>t DEF OpenOutput, IInv, OffsetOnDisk, TypeOK
      <4>2. disk[f] # Absent
        BY <3>1, <4>1 DEF ExistingFileSize
      <4>3. disk[f] \in Seq(Byte)
        BY <1>t, <2>1, <4>2 DEF TypeOK
      <4>4. resumeOffset \in 0..Len(disk[f])
        BY <4>1, <4>2, <4>3 DEF ExistingFileSize
      <4> QED
        BY <3>1, <4>3, <4>4, PrefixType DEF Kept
    <3>2. CASE ~(resumeOffset > 0)
      BY <3>2 DEF Kept
    <3> QED
      BY <3>1, <3>2
  <2>3. Kept(disk[f]) # Absent
    BY <2>2, BytesExist
  <2>4. /\ disk' = [disk EXCEPT ![f] = Kept(disk[f])]
        /\ verified' = [verified EXCEPT ![f] = NoVersion]
    BY <1>5 DEF OpenOutput
  <2>5. TypeOK'
    BY <1>5, <1>t, <2>1, <2>2, <2>4
    DEF OpenOutput, TypeOK, senderVars, net, ReceiverPcs
  <2>6. VerifiedIntact' /\ OpenFileUnverified'
    BY <1>5, <1>t, <2>1, <2>3, <2>4
    DEF OpenOutput, TypeOK, VerifiedIntact, OpenFileUnverified
  <2> QED
    BY <1>5, <2>1, <2>5, <2>6
    DEF OpenOutput, IInv, SenderInFile, ReceiverInFile, OffsetOnDisk, senderVars
<1>6. CASE ReceiveData
  <2> DEFINE bytes == Head(toReceiver).bytes
             total == receivedSize + Len(bytes)
  <2>1. bytes \in Seq(Byte) /\ Tail(toReceiver) \in Seq(Packet)
    BY <1>6, NextIsType, PacketFields DEF ReceiveData
  <2>2. CASE ReceiverEnds("size") /\ UNCHANGED disk
    BY <1>6, <1>t, <2>2, ReceiverEndsIInv
    DEF ReceiveData, ReceiveResults, TypeOK, disks
  <2>3. CASE /\ disk' = [disk EXCEPT ![fileInfo.file] = @ \o bytes]
             /\ receivedSize' = total
             /\ receiverPc' = IF EnableResume THEN "record" ELSE "data"
             /\ toReceiver' = Tail(toReceiver)
             /\ UNCHANGED <<receiveItem, fileInfo, resumeOffset, receiveResult>>
    <3>1. Writing
      BY <1>6 DEF ReceiveData, Writing
    <3>2. fileInfo.file \in File /\ disk[fileInfo.file] \in Seq(Byte)
      BY <3>1, OpenFileType
    <3>3. /\ disk[fileInfo.file] \o bytes \in Seq(Byte)
          /\ disk[fileInfo.file] \o bytes # Absent
      BY <2>1, <3>2, BytesExist
    <3>4. disk' = [disk EXCEPT ![fileInfo.file] = disk[fileInfo.file] \o bytes]
      BY <2>3
    <3>5. disk' \in [File -> Seq(Byte) \cup {Absent}] /\ VerifiedIntact'
      BY <1>6, <3>1, <3>3, <3>4, WriteKeepsVerified DEF ReceiveData
    <3>6. total \in Nat
      BY <1>t, <2>1 DEF TypeOK
    <3>7. TypeOK'
      BY <1>6, <1>t, <2>1, <2>3, <3>5, <3>6
      DEF ReceiveData, TypeOK, senderVars, ReceiverPcs
    <3>8. OpenFileUnverified'
      BY <1>6, <1>t, <2>3, <3>1, <3>2, <3>3, <3>4
      DEF ReceiveData, IInv, OpenFileUnverified, TypeOK
    <3>9. SenderInFile' /\ ReceiverInFile' /\ OffsetOnDisk'
      BY <1>6, <2>3
      DEF ReceiveData, IInv, SenderInFile, ReceiverInFile, OffsetOnDisk,
          ReceivingFile, senderVars
    <3> QED
      BY <3>5, <3>7, <3>8, <3>9 DEF IInv
  <2> QED
    BY <1>6, <2>2, <2>3 DEF ReceiveData
<1>7. CASE UpdateOffset
  <2>1. fileInfo \in FileInfos
    BY <1>7 DEF UpdateOffset, IInv, ReceiverInFile, ReceivingFile
  <2>2. records' \in [FileInfos -> Nat]
    BY <1>7, <1>t, <2>1 DEF UpdateOffset, RecordAfterWrite, TypeOK
  <2> QED
    BY <1>7, <1>t, <2>2
    DEF UpdateOffset, IInv, TypeOK, ReceiverPcs, SenderInFile, ReceiverInFile,
        OffsetOnDisk, OpenFileUnverified, VerifiedIntact, Writing,
        ReceivingFile, senderVars, net
<1>8. CASE ReceiveFileEnd
  <2>1. Tail(toReceiver) \in Seq(Packet)
    BY <1>8, NextIsType DEF ReceiveFileEnd
  <2> QED
    BY <1>8, <1>t, <2>1
    DEF ReceiveFileEnd, IInv, TypeOK, ReceiverPcs, SenderInFile, ReceiverInFile,
        OffsetOnDisk, OpenFileUnverified, VerifiedIntact, Writing,
        ReceivingFile, disks, senderVars
<1>9. CASE VerifyFile
  <2> DEFINE f == fileInfo.file
             v == fileInfo.hash
  <2>1. fileInfo \in FileInfos /\ f \in File /\ v \in Version
    BY <1>9 DEF VerifyFile, IInv, ReceiverInFile, ReceivingFile, FileInfos
  <2>2. CASE ReceiverEnds("size") /\ UNCHANGED verified
    BY <1>9, <1>t, <2>2, ReceiverEndsIInv
    DEF VerifyFile, ReceiveResults, TypeOK, disks
  <2>3. CASE ReceiverEnds("checksum") /\ UNCHANGED verified
    BY <1>9, <1>t, <2>3, ReceiverEndsIInv
    DEF VerifyFile, ReceiveResults, TypeOK, disks
  <2>4. CASE /\ DigestMatches(f, v)
             /\ verified' = [verified EXCEPT ![f] = v]
             /\ \/ /\ EnableResume /\ receiverPc' = "clear"
                   /\ UNCHANGED <<receiveItem, fileInfo, resumeOffset,
                                  receivedSize, receiveResult, toReceiver>>
                \/ ~EnableResume /\ NextFile
    <3>1. /\ verified' \in [File -> Version \cup {NoVersion}]
          /\ VerifiedIntact'
      BY <1>9, <1>t, <2>1, <2>4
      DEF VerifyFile, TypeOK, VerifiedIntact, DigestMatches
    <3>2. CASE NextFile
      BY <1>9, <1>t, <3>1, <3>2, NextFileIInv
      DEF VerifyFile, ReceivingFile, TypeOK
    <3>3. CASE /\ receiverPc' = "clear"
               /\ UNCHANGED <<receiveItem, fileInfo, resumeOffset,
                              receivedSize, receiveResult, toReceiver>>
      <4>1. TypeOK'
        BY <1>9, <1>t, <3>1, <3>3 DEF VerifyFile, TypeOK, senderVars, ReceiverPcs
      <4> QED
        BY <1>9, <3>1, <3>3, <4>1
        DEF VerifyFile, IInv, SenderInFile, ReceiverInFile, OffsetOnDisk,
            OpenFileUnverified, Writing, ReceivingFile, senderVars
    <3> QED
      BY <2>4, <3>2, <3>3
  <2> QED
    BY <1>9, <2>2, <2>3, <2>4 DEF VerifyFile
<1>10. CASE ClearRecord
  <2>1. fileInfo \in FileInfos
    BY <1>10 DEF ClearRecord, IInv, ReceiverInFile, ReceivingFile
  <2>2. records' \in [FileInfos -> Nat]
    BY <1>10, <1>t, <2>1 DEF ClearRecord, TypeOK
  <2>3. verified' \in [File -> Version \cup {NoVersion}] /\ VerifiedIntact'
    BY <1>10, <1>t DEF ClearRecord, TypeOK, VerifiedIntact
  <2> QED
    BY <1>10, <2>2, <2>3, NextFileIInv DEF ClearRecord, ReceivingFile
<1>11. CASE ReceiveFinish
  BY <1>11, <1>t, ReceiverEndsIInv DEF ReceiveFinish, ReceiveResults, TypeOK
<1>12. CASE ReceiverNetworkError
  BY <1>12, <1>t, ReceiverEndsIInv
  DEF ReceiverNetworkError, ReceiveResults, TypeOK
<1> QED
  BY <1>1, <1>2, <1>3, <1>4, <1>5, <1>6, <1>7, <1>8, <1>9, <1>10, <1>11, <1>12
  DEF ReceiverStep

-----------------------------------------------------------------------------
(* The environment's steps. *)

\* Counting a fault keeps the bound.
LEMMA FaultType ==
  ASSUME TypeOK, Fault
  PROVE  faults' \in 0..MaxFaults
BY ConstantsAssumption DEF TypeOK, Fault

\* A new connection keeps the invariant.
LEMMA ConnectIInv ==
  ASSUME IInv, Connect
  PROVE  IInv'
<1>1. TypeOK'
  <2>1. /\ senderPc' \in SenderPcs /\ receiverPc' \in ReceiverPcs
        /\ sendResult' \in SendResults /\ receiveResult' \in ReceiveResults
        /\ broken' \in BOOLEAN
    BY DEF Connect, SenderPcs, ReceiverPcs, SendResults, ReceiveResults
  <2>3. toReceiver' \in Seq(Packet) /\ toSender' \in Seq(Ack)
    <3>1. toReceiver' = <<>> /\ toSender' = <<>>
      BY DEF Connect
    <3> QED
      BY <3>1
  <2>2. TypeOK /\ UNCHANGED <<disks, sendItem, sendSize, sendHash, sentSize,
                             receiveItem, fileInfo, resumeOffset, receivedSize,
                             faults>>
    BY DEF Connect, IInv
  <2> QED
    BY <2>1, <2>2, <2>3 DEF TypeOK, disks
<1> QED
  BY <1>1 DEF Connect, IInv, SenderInFile, ReceiverInFile, OffsetOnDisk,
              OpenFileUnverified, VerifiedIntact, Writing, ReceivingFile, disks

\* A restart keeps the invariant.
LEMMA RestartIInv ==
  ASSUME IInv, RestartReceiver
  PROVE  IInv'
<1>1. TypeOK'
  BY DEF RestartReceiver, IInv, TypeOK, disks, senderVars, net, ReceiverPcs
<1> QED
  BY <1>1 DEF RestartReceiver, IInv, SenderInFile, ReceiverInFile, OffsetOnDisk,
              OpenFileUnverified, VerifiedIntact, Writing, ReceivingFile,
              disks, senderVars

\* A broken connection keeps the invariant.
LEMMA BreakIInv ==
  ASSUME IInv, Break
  PROVE  IInv'
<1>1. TypeOK /\ faults' \in 0..MaxFaults
  BY FaultType DEF IInv, Break
<1>2. toReceiver' \in Seq(Packet)
  <2>1. PICK n \in 0..Len(toReceiver) : toReceiver' = SubSeq(toReceiver, 1, n)
    BY DEF Break, Prefix
  <2>2. toReceiver \in Seq(Packet)
    BY <1>1 DEF TypeOK
  <2> QED
    BY <2>1, <2>2
<1>3. toSender' \in Seq(Ack)
  <2>1. PICK n \in 0..Len(toSender) : toSender' = SubSeq(toSender, 1, n)
    BY DEF Break, Prefix
  <2>2. toSender \in Seq(Ack)
    BY <1>1 DEF TypeOK
  <2> QED
    BY <2>1, <2>2
<1>4. SenderFrame /\ UNCHANGED senderVars /\ broken' = TRUE
  BY DEF Break, SenderFrame
<1>5. SenderTypeOK' /\ SenderInFile'
  BY <1>1, <1>2, <1>3, <1>4
  DEF IInv, SenderTypeOK, TypeOK, SenderInFile, senderVars
<1> QED
  BY <1>4, <1>5, SenderFrameIInv

\* Losing what was not yet stored keeps the invariant.
LEMMA LossIInv ==
  ASSUME IInv, KillReceiver \/ StorageFails
  PROVE  IInv'
<1>1. TypeOK /\ faults' \in 0..MaxFaults
  BY FaultType DEF IInv, KillReceiver, StorageFails
<1>2. OtherEndFrame
  BY <1>1 DEF KillReceiver, StorageFails, OtherEndFrame, TypeOK
<1>3. ReceiverOutOfFile'
  <2>1. /\ receiverPc' \in {"accept", "down"} /\ receiveItem' = 1 /\ fileInfo' = NoInfo
        /\ resumeOffset' = 0 /\ receivedSize' = 0 /\ toReceiver' = <<>>
        /\ receiveResult' \in {"killed", "filesystem"}
    BY DEF KillReceiver, StorageFails, ReceiverEnds
  <2> QED
    BY <2>1, ConstantsAssumption DEF ReceiverOutOfFile, EndOfTask, ReceiveResults
<1>4. disk' \in [File -> Seq(Byte) \cup {Absent}] /\ VerifiedIntact'
  <2>1. CASE UNCHANGED disk
    BY <1>1, <2>1 DEF IInv, TypeOK, VerifiedIntact, KillReceiver,
                            StorageFails
  <2>2. ASSUME Writing,
               NEW n \in resumeOffset..Len(disk[fileInfo.file]),
               disk' = [disk EXCEPT ![fileInfo.file] = Prefix(@, n)]
        PROVE  disk' \in [File -> Seq(Byte) \cup {Absent}] /\ VerifiedIntact'
    <3>1. disk[fileInfo.file] \in Seq(Byte) /\ n \in 0..Len(disk[fileInfo.file])
      BY <1>1, <2>2, OpenFileType DEF TypeOK
    <3>2. Prefix(disk[fileInfo.file], n) \in Seq(Byte)
      BY <3>1, PrefixType
    <3>3. disk' = [disk EXCEPT ![fileInfo.file] = Prefix(disk[fileInfo.file], n)]
      BY <2>2
    <3> QED
      BY <2>2, <3>2, <3>3, WriteKeepsVerified DEF KillReceiver, StorageFails
  <2> QED
    BY <2>1, <2>2 DEF KillReceiver, StorageFails, LoseBuffered, Writing
<1>5. records' \in [FileInfos -> Nat]
  <2>1. ASSUME NEW new \in [FileInfos -> Nat], TornSave(new)
        PROVE  records' \in [FileInfos -> Nat]
    BY <2>1 DEF TornSave
  <2>2. RecordAfterWrite \in [FileInfos -> Nat]
        /\ [records EXCEPT ![fileInfo] = 0] \in [FileInfos -> Nat]
    BY <1>1 DEF TypeOK, RecordAfterWrite
  <2> QED
    BY <1>1, <2>1, <2>2 DEF KillReceiver, StorageFails, LoseRecords, TypeOK
<1>6. madeDirs' \in SUBSET Dir /\ verified' \in [File -> Version \cup {NoVersion}]
  BY <1>1 DEF KillReceiver, StorageFails, TypeOK
<1> QED
  BY <1>2, <1>3, <1>4, <1>5, <1>6, OutOfFileIInv

\* A short write keeps the invariant.
LEMMA WriteFailsIInv ==
  ASSUME IInv, WriteFails
  PROVE  IInv'
<1> DEFINE bytes == Head(toReceiver).bytes
<1>1. TypeOK /\ faults' \in 0..MaxFaults
  BY FaultType DEF IInv, WriteFails
<1>2. bytes \in Seq(Byte)
  BY NextIsType, PacketFields DEF WriteFails
<1>3. PICK n \in 0..(Len(bytes) - 1) :
        disk' = [disk EXCEPT ![fileInfo.file] = @ \o Prefix(bytes, n)]
  BY DEF WriteFails
<1>4. Prefix(bytes, n) \in Seq(Byte)
  <2>1. n \in 0..Len(bytes)
    BY <1>2, <1>3
  <2> QED
    BY <1>2, <2>1, PrefixType
<1>5. Writing
  BY DEF WriteFails, Writing
<1>6. disk[fileInfo.file] \o Prefix(bytes, n) \in Seq(Byte)
  BY <1>4, <1>5, OpenFileType, BytesExist
<1>7. disk' \in [File -> Seq(Byte) \cup {Absent}] /\ VerifiedIntact'
  <2>1. disk' = [disk EXCEPT ![fileInfo.file]
                   = disk[fileInfo.file] \o Prefix(bytes, n)]
    BY <1>3
  <2> QED
    BY <1>5, <1>6, <2>1, WriteKeepsVerified DEF WriteFails
<1>8. OtherEndFrame
  BY <1>1 DEF WriteFails, OtherEndFrame, TypeOK
<1>9. ReceiverOutOfFile'
  BY ConstantsAssumption
  DEF WriteFails, ReceiverEnds, ReceiverOutOfFile, EndOfTask, ReceiveResults
<1> QED
  BY <1>1, <1>7, <1>8, <1>9, OutOfFileIInv DEF WriteFails, TypeOK

\* An edit keeps the invariant.
LEMMA EditSourceIInv ==
  ASSUME IInv, NEW f \in File, EditSource(f)
  PROVE  IInv'
<1>1. TypeOK /\ faults' \in 0..MaxFaults
  BY FaultType DEF IInv, EditSource
<1>2. source' \in [File -> Version]
  BY <1>1 DEF EditSource, TypeOK
<1>3. TypeOK'
  BY <1>1, <1>2 DEF EditSource, TypeOK, senderVars, receiverVars, net
<1> QED
  BY <1>3 DEF EditSource, IInv, SenderInFile, ReceiverInFile, OffsetOnDisk,
              OpenFileUnverified, VerifiedIntact, Writing, ReceivingFile,
              ExistingFileSize, senderVars, receiverVars

\* Deleting a leftover keeps the invariant.
LEMMA RemoveLeftoverIInv ==
  ASSUME IInv, NEW f \in File, RemoveLeftover(f)
  PROVE  IInv'
<1>1. TypeOK /\ faults' \in 0..MaxFaults
  BY FaultType DEF IInv, RemoveLeftover
<1>2. /\ disk' = [disk EXCEPT ![f] = Absent]
      /\ verified' = [verified EXCEPT ![f] = NoVersion]
  BY DEF RemoveLeftover
<1>3. TypeOK'
  BY <1>1, <1>2 DEF RemoveLeftover, TypeOK, senderVars, receiverVars, net
<1>4. VerifiedIntact'
  BY <1>1, <1>2 DEF IInv, TypeOK, VerifiedIntact
<1> QED
  BY <1>3, <1>4
  DEF RemoveLeftover, IInv, SenderInFile, ReceiverInFile, OffsetOnDisk,
      OpenFileUnverified, Writing, ReceivingFile, senderVars, receiverVars

\* The environment keeps the invariant.
LEMMA EnvironmentIInv ==
  ASSUME IInv, Environment
  PROVE  IInv'
<1>t. TypeOK
  BY DEF IInv
<1>1. CASE Break
  BY <1>1, BreakIInv
<1>2. CASE CancelSend
  BY <1>2, <1>t, FaultType, SenderEndsIInv DEF CancelSend, SendResults
<1>3. CASE SourceUnreadable
  BY <1>3, <1>t, FaultType, SenderEndsIInv DEF SourceUnreadable, SendResults
<1>4. CASE KillSender
  BY <1>4, <1>t, FaultType, SenderEndsIInv DEF KillSender, SendResults
<1>5. CASE KillReceiver \/ StorageFails
  BY <1>5, LossIInv
<1>6. CASE StopReceiving
  BY <1>6, <1>t, FaultType, ReceiverEndsIInv DEF StopReceiving, ReceiveResults
<1>7. CASE WriteFails
  BY <1>7, WriteFailsIInv
<1>8. CASE \E f \in File : EditSource(f) \/ RemoveLeftover(f)
  BY <1>8, EditSourceIInv, RemoveLeftoverIInv
<1> QED
  BY <1>1, <1>2, <1>3, <1>4, <1>5, <1>6, <1>7, <1>8 DEF Environment

-----------------------------------------------------------------------------
(* The theorems. *)

\* Every step keeps the invariant.
LEMMA StepIInv == IInv /\ [Next]_vars => IInv'
<1> SUFFICES ASSUME IInv, [Next]_vars PROVE IInv'
  OBVIOUS
<1>1. CASE UNCHANGED vars
  BY <1>1
  DEF vars, disks, senderVars, receiverVars, net, IInv, TypeOK, SenderInFile,
      ReceiverInFile, OffsetOnDisk, OpenFileUnverified, VerifiedIntact, Writing,
      ExistingFileSize
<1>2. CASE Next
  BY <1>2, ConnectIInv, SenderStepIInv, ReceiverStepIInv, RestartIInv,
     EnvironmentIInv DEF Next
<1> QED
  BY <1>1, <1>2

\* The invariant holds in every behaviour.
LEMMA SpecIInv == Spec => []IInv
BY InitIInv, StepIInv, PTL DEF Spec

\* Every variable stays in its type in every behaviour, for any task, sizes,
\* chunk size and number of faults (Sender.cpp, Receiver.cpp).
THEOREM TypeCorrect == Spec => []TypeOK
<1>1. IInv => TypeOK
  BY DEF IInv
<1> QED
  BY <1>1, SpecIInv, PTL

\* A file the receiver has checked keeps exactly the bytes of the version whose
\* digest it checked until it is reopened or removed (Receiver.cpp 107-164).
THEOREM CheckedFilesStayIntact == Spec => []VerifiedIntact
<1>1. IInv => VerifiedIntact
  BY DEF IInv
<1> QED
  BY <1>1, SpecIInv, PTL

-----------------------------------------------------------------------------
(* The implementation of FileDelivery. *)

\* The steps that touch a file's bytes or its certificate.
FileStep ==
  \/ OpenOutput \/ ReceiveData \/ VerifyFile \/ KillReceiver \/ WriteFails
  \/ StorageFails \/ \E f \in File : RemoveLeftover(f)

\* All other steps leave files and certificates alone.
LEMMA OtherSteps ==
  ASSUME [Next]_vars
  PROVE  FileStep \/ UNCHANGED <<disk, verified>>
<1>1. CASE UNCHANGED vars
  BY <1>1 DEF vars, disks
<1>2. CASE Connect \/ RestartReceiver
  BY <1>2 DEF Connect, RestartReceiver, disks
<1>3. CASE SenderStep
  BY <1>3
  DEF SenderStep, SendHello, SendOneDirectory, ReadFileSize, HashAndAnnounce,
      ReadResumeAck, SendData, SendFileEnd, SendFinish, SenderNetworkError,
      SenderEnds, disks
<1>4. CASE ReceiverStep
  BY <1>4
  DEF ReceiverStep, FileStep, ReceiveHello, ReceiveOneDirectory,
      ReceiveFileInfo, SendResumeAck, UpdateOffset, ReceiveFileEnd,
      ClearRecord, ReceiveFinish, ReceiverNetworkError, disks
<1>5. CASE Environment
  BY <1>5
  DEF Environment, FileStep, Break, CancelSend, SourceUnreadable, KillSender,
      StopReceiving, EditSource, SenderEnds, disks
<1> QED
  BY <1>1, <1>2, <1>3, <1>4, <1>5 DEF Next

\* Opening a file is opening it in the specification.
LEMMA OpenRefines ==
  ASSUME IInv, OpenOutput
  PROVE  Delivery!Open(fileInfo.file)
<1> DEFINE f == fileInfo.file
<1>1. f \in File
  BY DEF OpenOutput, IInv, ReceiverInFile, ReceivingFile, FileInfos
<1>2. /\ disk' = [disk EXCEPT ![f] = Kept(disk[f])]
      /\ verified' = [verified EXCEPT ![f] = NoVersion]
  BY DEF OpenOutput
<1>3. /\ resumeOffset \in Nat /\ resumeOffset <= ExistingFileSize(f)
      /\ EnableResume \/ disk[f] = Absent
  BY DEF OpenOutput, IInv, OffsetOnDisk, TypeOK
<1>4. CASE disk[f] = Absent
  <2>1. Kept(disk[f]) = <<>>
    BY <1>3, <1>4 DEF Kept, ExistingFileSize
  <2> QED
    BY <1>2, <1>4, <2>1 DEF Delivery!Open
<1>5. CASE disk[f] # Absent
  <2>1. disk[f] \in Seq(Byte) /\ EnableResume
    BY <1>1, <1>3, <1>5 DEF IInv, TypeOK
  <2>2. resumeOffset \in 0..Len(disk[f])
    BY <1>3, <1>5, <2>1 DEF ExistingFileSize
  <2>3. Kept(disk[f]) = SubSeq(disk[f], 1, resumeOffset)
    <3>1. CASE resumeOffset > 0
      BY <3>1 DEF Kept, Prefix
    <3>2. CASE resumeOffset = 0
      BY <2>1, <3>2 DEF Kept
    <3> QED
      BY <1>3, <3>1, <3>2
  <2>4. Delivery!Cut(f)
    <3>1. disk' = [disk EXCEPT ![f] = SubSeq(disk[f], 1, resumeOffset)]
      BY <1>2, <2>3
    <3> QED
      BY <2>2, <3>1 DEF Delivery!Cut
  <2> QED
    BY <1>2, <1>5, <2>1, <2>4 DEF Delivery!Open
<1> QED
  BY <1>4, <1>5

\* Appending to the open file is growth of an uncertified copy.
LEMMA AppendRefines ==
  ASSUME IInv, Writing, NEW bytes \in Seq(Byte),
         disk' = [disk EXCEPT ![fileInfo.file] = disk[fileInfo.file] \o bytes],
         UNCHANGED verified
  PROVE  Delivery!Grow(fileInfo.file)
<1> DEFINE f == fileInfo.file
<1>1. f \in File /\ disk[f] \in Seq(Byte)
  BY OpenFileType
<1>2. verified[f] = NoVersion /\ disk[f] # Absent
  BY DEF IInv, OpenFileUnverified
<1>3. disk'[f] = disk[f] \o bytes
  BY <1>1 DEF IInv, TypeOK
<1>4. /\ disk[f] \o bytes \in Seq(Byte)
      /\ Len(disk[f] \o bytes) = Len(disk[f]) + Len(bytes)
      /\ Len(disk[f]) \in Nat /\ Len(bytes) \in Nat
  BY <1>1
<1>5. disk[f] = SubSeq(disk[f] \o bytes, 1, Len(disk[f]))
  BY <1>1
<1>6. disk' = [disk EXCEPT ![f] = disk'[f]]
  BY <1>3
<1> QED
  BY <1>2, <1>3, <1>4, <1>5, <1>6 DEF Delivery!Grow

\* A DATA packet that is written appends to its file.
LEMMA ReceiveDataRefines ==
  ASSUME IInv, ReceiveData
  PROVE  Delivery!Next \/ UNCHANGED <<disk, verified>>
<1> DEFINE bytes == Head(toReceiver).bytes
<1>1. Writing /\ UNCHANGED verified /\ fileInfo.file \in File
  BY OpenFileType DEF ReceiveData, Writing
<1>2. bytes \in Seq(Byte)
  BY NextIsType, PacketFields DEF ReceiveData
<1>3. CASE UNCHANGED disk
  BY <1>1, <1>3
<1>4. CASE disk' = [disk EXCEPT ![fileInfo.file] = @ \o bytes]
  <2>1. disk' = [disk EXCEPT ![fileInfo.file] = disk[fileInfo.file] \o bytes]
    BY <1>4
  <2>2. Delivery!Grow(fileInfo.file)
    BY <1>1, <1>2, <2>1, AppendRefines
  <2> QED
    BY <1>1, <2>2 DEF Delivery!Next
<1> QED
  BY <1>3, <1>4 DEF ReceiveData

\* A verified digest certifies the file.
LEMMA VerifyFileRefines ==
  ASSUME IInv, VerifyFile
  PROVE  Delivery!Next \/ UNCHANGED <<disk, verified>>
<1> DEFINE f == fileInfo.file
           v == fileInfo.hash
<1>1. f \in File /\ v \in Version /\ UNCHANGED disk
  BY DEF VerifyFile, IInv, ReceiverInFile, ReceivingFile, FileInfos
<1>2. CASE UNCHANGED verified
  BY <1>1, <1>2
<1>3. CASE DigestMatches(f, v) /\ verified' = [verified EXCEPT ![f] = v]
  <2>1. Delivery!Certify(f)
    BY <1>1, <1>3 DEF Delivery!Certify, DigestMatches
  <2> QED
    BY <1>1, <2>1 DEF Delivery!Next
<1> QED
  BY <1>2, <1>3 DEF VerifyFile

\* A loss cuts the file being written, or nothing.
LEMMA LossRefines ==
  ASSUME IInv, KillReceiver \/ StorageFails
  PROVE  Delivery!Next \/ UNCHANGED <<disk, verified>>
<1>1. UNCHANGED verified
  BY DEF KillReceiver, StorageFails
<1>2. CASE UNCHANGED disk
  BY <1>1, <1>2
<1>3. ASSUME Writing,
             NEW n \in resumeOffset..Len(disk[fileInfo.file]),
             disk' = [disk EXCEPT ![fileInfo.file] = Prefix(@, n)]
      PROVE  Delivery!Next
  <2>1. fileInfo.file \in File /\ disk[fileInfo.file] \in Seq(Byte)
    BY <1>3, OpenFileType
  <2>2. n \in 0..Len(disk[fileInfo.file])
    BY <1>3, <2>1 DEF IInv, TypeOK
  <2>3. verified[fileInfo.file] = NoVersion /\ disk[fileInfo.file] # Absent
    BY <1>3 DEF IInv, OpenFileUnverified
  <2>4. Delivery!Cut(fileInfo.file)
    BY <1>3, <2>2 DEF Delivery!Cut, Prefix
  <2>5. Delivery!Lose(fileInfo.file)
    BY <1>1, <2>3, <2>4 DEF Delivery!Lose
  <2> QED
    BY <2>1, <2>5 DEF Delivery!Next
<1> QED
  BY <1>2, <1>3 DEF KillReceiver, StorageFails, LoseBuffered, Writing

\* A short write appends less.
LEMMA WriteFailsRefines ==
  ASSUME IInv, WriteFails
  PROVE  Delivery!Next
<1> DEFINE bytes == Head(toReceiver).bytes
<1>1. Writing /\ UNCHANGED verified
  BY DEF WriteFails, Writing
<1>2. bytes \in Seq(Byte)
  BY NextIsType, PacketFields DEF WriteFails
<1>3. PICK n \in 0..(Len(bytes) - 1) :
        disk' = [disk EXCEPT ![fileInfo.file] = @ \o Prefix(bytes, n)]
  BY DEF WriteFails
<1>4. Prefix(bytes, n) \in Seq(Byte)
  <2>1. n \in 0..Len(bytes)
    BY <1>2, <1>3
  <2> QED
    BY <1>2, <2>1, PrefixType
<1>5. disk' = [disk EXCEPT ![fileInfo.file]
                 = disk[fileInfo.file] \o Prefix(bytes, n)]
  BY <1>3
<1>6. Delivery!Grow(fileInfo.file) /\ fileInfo.file \in File
  BY <1>1, <1>4, <1>5, AppendRefines, OpenFileType
<1> QED
  BY <1>6 DEF Delivery!Next

\* Every step is a step FileDelivery allows, or none.
LEMMA StepRefines ==
  IInv /\ [Next]_vars => [Delivery!Next]_<<disk, verified>>
<1> SUFFICES ASSUME IInv, [Next]_vars
             PROVE  Delivery!Next \/ UNCHANGED <<disk, verified>>
  OBVIOUS
<1>1. CASE OpenOutput
  <2>1. fileInfo.file \in File
    BY <1>1 DEF OpenOutput, IInv, ReceiverInFile, ReceivingFile, FileInfos
  <2> QED
    BY <1>1, <2>1, OpenRefines DEF Delivery!Next
<1>2. CASE ReceiveData
  BY <1>2, ReceiveDataRefines
<1>3. CASE VerifyFile
  BY <1>3, VerifyFileRefines
<1>4. CASE KillReceiver \/ StorageFails
  BY <1>4, LossRefines
<1>5. CASE WriteFails
  BY <1>5, WriteFailsRefines
<1>6. ASSUME NEW f \in File, RemoveLeftover(f)
      PROVE  Delivery!Next
  BY <1>6 DEF RemoveLeftover, Delivery!Next, Delivery!Remove
<1> QED
  BY <1>1, <1>2, <1>3, <1>4, <1>5, <1>6, OtherSteps DEF FileStep

\* Receiving implements FileDelivery: a copy in the save directory only grows
\* at its end, is certified only when it is exactly a version, and once
\* certified stays so until it is replaced, which needs resuming to be enabled,
\* or removed (Receiver.cpp 76-175).
THEOREM TransferImplementsDelivery == Spec => DeliverySpec
<1>1. Init => Delivery!Init
  BY DEF Init, Delivery!Init
<1> QED
  BY <1>1, StepRefines, SpecIInv, PTL DEF Spec, DeliverySpec, Delivery!Spec

\* Without resuming, nothing that was in the save directory is overwritten
\* (Receiver.cpp 85-88).
THEOREM NothingOverwritten ==
  ASSUME ~EnableResume
  PROVE  Spec => ExistingFilesUntouched
<1>1. IInv /\ [Next]_vars =>
        [\A f \in File :
           (disk[f] # Absent /\ ~(Writing /\ fileInfo.file = f))
             => disk'[f] \in {disk[f], Absent}]_vars
  <2> SUFFICES ASSUME IInv, [Next]_vars, NEW f \in File,
                      disk[f] # Absent, ~(Writing /\ fileInfo.file = f)
               PROVE  disk'[f] \in {disk[f], Absent}
    OBVIOUS
  <2>1. CASE UNCHANGED <<disk, verified>>
    BY <2>1
  <2>2. CASE OpenOutput
    BY <2>2 DEF OpenOutput, IInv, OffsetOnDisk, TypeOK
  <2>3. CASE ReceiveData \/ WriteFails \/ KillReceiver \/ StorageFails
    BY <2>3 DEF ReceiveData, WriteFails, KillReceiver, StorageFails, LoseBuffered,
                Writing, IInv, TypeOK
  <2>4. CASE VerifyFile
    BY <2>4 DEF VerifyFile
  <2>5. CASE \E g \in File : RemoveLeftover(g)
    BY <2>5 DEF RemoveLeftover, IInv, TypeOK
  <2> QED
    BY <2>1, <2>2, <2>3, <2>4, <2>5, OtherSteps DEF FileStep
<1> QED
  BY <1>1, SpecIInv, PTL DEF Spec, ExistingFilesUntouched

-----------------------------------------------------------------------------
(* The conversation: the two ends stay in step, success means that everything *)
(* is there, without edits the offsets are right and no mismatch arises, and  *)
(* without any fault the two ends agree on the result.  The argument: what is *)
(* in flight leads from the receiver's place in the conversation to the       *)
(* sender's.                                                                  *)


\* Places in the conversation.
At(name, item, pos) == [at |-> name, item |-> item, pos |-> pos]
Place == [at : {"hello", "task", "asked", "in", "over"}, item : Nat, pos : Nat]
InHello    == At("hello", 0, 0)
InTask(i)  == At("task", i, 0)
Asked(f, size) == At("asked", f, size)
InFile(f, n)   == At("in", f, n)
Over       == At("over", 0, 0)

\* What is announced of a file while nobody edits it.
Announced(src, f) == [file |-> f, size |-> Size[src[f]], hash |-> src[f]]

\* Until something is edited, which counts as a fault, the sources are known.
Known == ~MayEdit \/ faults = 0
Seen  == [known |-> Known, source |-> source]
StaysKnown == Known' => Known /\ source' = source

\* A packet leads from one place to another.  What it says of the file is only
\* certain while no source is edited.
HelloLeads(a, p, b) == a = InHello /\ p = Hello /\ b = InTask(1)
DirectoryLeads(a, p, b) ==
  \E d \in Dir : a = InTask(d) /\ p = DirectoryInfo(d) /\ b = InTask(d + 1)
InfoLeads(src, a, p, b) ==
  \E f \in File :
    /\ a = InTask(f) /\ p.type = "FILE_INFO" /\ p.info.file = f
    /\ b = Asked(f, p.info.size)
    /\ ~src.known \/ p.info = Announced(src.source, f)
DataLeads(src, a, p, b) ==
  \E f \in File, n \in Nat :
    /\ a = InFile(f, n) /\ p.type = "DATA" /\ b = InFile(f, n + Len(p.bytes))
    /\ \/ ~src.known
       \/ /\ n + Len(p.bytes) <= Size[src.source[f]]
          /\ p.bytes = SubSeq(Content(src.source[f]), n + 1, n + Len(p.bytes))
EndLeads(src, a, p, b) ==
  \E f \in File, n \in Nat :
    /\ a = InFile(f, n) /\ p = FileEnd /\ b = InTask(f + 1)
    /\ ~src.known \/ n = Size[src.source[f]]
FinishLeads(a, p, b) == a = InTask(EndOfTask) /\ p = Finish /\ b = Over

Leads(src, a, p, b) ==
  \/ HelloLeads(a, p, b) \/ DirectoryLeads(a, p, b) \/ InfoLeads(src, a, p, b)
  \/ DataLeads(src, a, p, b) \/ EndLeads(src, a, p, b) \/ FinishLeads(a, p, b)

\* Packets lead from one place to another, one after the other.
Follows(src, a, s, b) ==
  \E q \in [0..Len(s) -> Place] :
    /\ q[0] = a /\ q[Len(s)] = b
    /\ \A i \in 1..Len(s) : Leads(src, q[i - 1], s[i], q[i])

-----------------------------------------------------------------------------
(* Lemmas about conversations. *)

\* Nothing in flight leads nowhere else.
LEMMA FollowsNothing ==
  ASSUME NEW src, NEW a \in Place
  PROVE  /\ Follows(src, a, <<>>, a)
         /\ \A b : Follows(src, a, <<>>, b) => b = a
<1>1. Len(<<>>) = 0
  OBVIOUS
<1>2. Follows(src, a, <<>>, a)
  <2> DEFINE q == [i \in 0..0 |-> a]
  <2>1. q \in [0..0 -> Place] /\ q[0] = a
    OBVIOUS
  <2>2. \A i \in 1..0 : Leads(src, q[i - 1], <<>>[i], q[i])
    OBVIOUS
  <2> QED
    BY <1>1, <2>1, <2>2 DEF Follows
<1>3. \A b : Follows(src, a, <<>>, b) => b = a
  BY <1>1 DEF Follows
<1> QED
  BY <1>2, <1>3

\* A packet written at the place reached leads on from there.
LEMMA FollowsAppend ==
  ASSUME NEW src, NEW a \in Place, NEW b \in Place, NEW c \in Place,
         NEW s \in Seq(Packet), NEW p \in Packet,
         Follows(src, a, s, b), Leads(src, b, p, c)
  PROVE  Follows(src, a, Append(s, p), c)
<1> DEFINE n == Len(s)
           t == Append(s, p)
<1>1. n \in Nat /\ Len(t) = n + 1 /\ t[n + 1] = p /\ \A i \in 1..n : t[i] = s[i]
  OBVIOUS
<1>2. PICK q \in [0..n -> Place] :
        /\ q[0] = a /\ q[n] = b
        /\ \A i \in 1..n : Leads(src, q[i - 1], s[i], q[i])
  BY DEF Follows
<1> DEFINE r == [i \in 0..(n + 1) |-> IF i <= n THEN q[i] ELSE c]
<1>3. r \in [0..(n + 1) -> Place] /\ r[0] = a /\ r[n + 1] = c
  BY <1>1, <1>2
<1>4. \A i \in 1..(n + 1) : Leads(src, r[i - 1], t[i], r[i])
  <2> TAKE i \in 1..(n + 1)
  <2>1. CASE i <= n
    <3>1. i \in 1..n /\ r[i - 1] = q[i - 1] /\ r[i] = q[i] /\ t[i] = s[i]
      BY <1>1, <2>1
    <3> QED
      BY <3>1, <1>2
  <2>2. CASE i = n + 1
    <3>1. r[i - 1] = b /\ r[i] = c /\ t[i] = p
      BY <1>1, <1>2, <2>2
    <3> QED
      BY <3>1
  <2> QED
    BY <1>1, <2>1, <2>2
<1> HIDE DEF r, t, n
<1> QED
  BY <1>1, <1>3, <1>4 DEF Follows, t

\* Reading the first packet leads to where the rest starts.
LEMMA FollowsRead ==
  ASSUME NEW src, NEW a \in Place, NEW b \in Place, NEW s \in Seq(Packet),
         s # <<>>, Follows(src, a, s, b)
  PROVE  \E c \in Place : Leads(src, a, Head(s), c) /\ Follows(src, c, Tail(s), b)
<1> DEFINE n == Len(s)
           t == Tail(s)
<1>1. n \in Nat /\ n >= 1 /\ Head(s) = s[1]
      /\ Len(t) = n - 1 /\ \A i \in 1..(n - 1) : t[i] = s[i + 1]
  OBVIOUS
<1>2. PICK q \in [0..n -> Place] :
        /\ q[0] = a /\ q[n] = b
        /\ \A i \in 1..n : Leads(src, q[i - 1], s[i], q[i])
  BY DEF Follows
<1> DEFINE r == [i \in 0..(n - 1) |-> q[i + 1]]
<1>3. q[1] \in Place /\ Leads(src, a, Head(s), q[1])
  <2>1. 1 \in 1..n /\ 1 \in 0..n /\ 1 - 1 = 0
    BY <1>1
  <2> QED
    BY <1>1, <1>2, <2>1
<1>4. r \in [0..(n - 1) -> Place] /\ r[0] = q[1] /\ r[n - 1] = b
  BY <1>1, <1>2
<1>5. \A i \in 1..(n - 1) : Leads(src, r[i - 1], t[i], r[i])
  <2> TAKE i \in 1..(n - 1)
  <2>1. /\ i + 1 \in 1..n /\ r[i - 1] = q[i] /\ r[i] = q[i + 1]
        /\ t[i] = s[i + 1] /\ (i + 1) - 1 = i
    BY <1>1
  <2> QED
    BY <2>1, <1>2
<1> HIDE DEF r, t, n
<1>6. Follows(src, q[1], t, b)
  BY <1>1, <1>4, <1>5 DEF Follows
<1> QED
  BY <1>3, <1>6 DEF t

\* What is left of a broken conversation leads somewhere.
LEMMA FollowsPrefix ==
  ASSUME NEW src, NEW a \in Place, NEW b \in Place, NEW s \in Seq(Packet),
         NEW k \in 0..Len(s), Follows(src, a, s, b)
  PROVE  \E c \in Place : Follows(src, a, Prefix(s, k), c)
<1> DEFINE n == Len(s)
           t == Prefix(s, k)
<1>1. /\ n \in Nat /\ k \in Nat /\ k <= n
      /\ Len(t) = k /\ \A i \in 1..k : t[i] = s[i]
  BY DEF Prefix
<1>2. PICK q \in [0..n -> Place] :
        /\ q[0] = a /\ q[n] = b
        /\ \A i \in 1..n : Leads(src, q[i - 1], s[i], q[i])
  BY DEF Follows
<1> DEFINE r == [i \in 0..k |-> q[i]]
<1>3. r \in [0..k -> Place] /\ r[0] = a /\ q[k] \in Place /\ r[k] = q[k]
  BY <1>1, <1>2
<1>4. \A i \in 1..k : Leads(src, r[i - 1], t[i], r[i])
  <2> TAKE i \in 1..k
  <2>1. i \in 1..n /\ r[i - 1] = q[i - 1] /\ r[i] = q[i] /\ t[i] = s[i]
    BY <1>1
  <2> QED
    BY <2>1, <1>2
<1> HIDE DEF r, t, n
<1>5. Follows(src, a, t, q[k])
  BY <1>1, <1>3, <1>4 DEF Follows
<1> QED
  BY <1>3, <1>5 DEF t

\* A step that makes nothing more certain does not disturb a conversation.
LEMMA FollowsKept ==
  ASSUME StaysKnown
  PROVE  \A a, s, b : Follows(Seen, a, s, b) => Follows(Seen', a, s, b)
<1>1. \A x, p, y : Leads(Seen, x, p, y) => Leads(Seen', x, p, y)
  <2>1. \A x, p, y : InfoLeads(Seen, x, p, y) => InfoLeads(Seen', x, p, y)
    BY DEF InfoLeads, Seen, StaysKnown
  <2>2. \A x, p, y : DataLeads(Seen, x, p, y) => DataLeads(Seen', x, p, y)
    BY DEF DataLeads, Seen, StaysKnown
  <2>3. \A x, p, y : EndLeads(Seen, x, p, y) => EndLeads(Seen', x, p, y)
    BY DEF EndLeads, Seen, StaysKnown
  <2> QED
    BY <2>1, <2>2, <2>3 DEF Leads
<1> QED
  BY <1>1 DEF Follows

\* Nothing but the answer to FILE_INFO leads on from there.
LEMMA AskedWaits ==
  ASSUME NEW src, NEW f, NEW size, NEW p, NEW b
  PROVE  ~Leads(src, Asked(f, size), p, b)
BY DEF Leads, HelloLeads, DirectoryLeads, InfoLeads, DataLeads, EndLeads,
       FinishLeads, InHello, InTask, Asked, InFile, Over, At

\* Nothing at all leads on from the end.
LEMMA NothingFollowsOver ==
  ASSUME NEW src, NEW p, NEW b
  PROVE  ~Leads(src, Over, p, b)
BY DEF Leads, HelloLeads, DirectoryLeads, InfoLeads, DataLeads, EndLeads,
       FinishLeads, InHello, InTask, Asked, InFile, Over, At

-----------------------------------------------------------------------------
(* The two ends in the conversation. *)

Live   == receiverPc \notin {"accept", "down"}
Linked == Live /\ ~broken /\ (senderPc # "idle" \/ sendResult = "ok")

ReceiverPlace ==
  IF receiverPc = "hello" THEN InHello
  ELSE IF receiverPc = "task" THEN InTask(receiveItem)
  ELSE IF receiverPc = "ack" THEN Asked(receiveItem, fileInfo.size)
  ELSE IF receiverPc \in {"open", "data", "record"}
       THEN InFile(receiveItem, receivedSize)
  ELSE InTask(receiveItem + 1)

SenderPlace ==
  IF senderPc = "idle" THEN Over
  ELSE IF senderPc = "hello" THEN InHello
  ELSE IF senderPc \in {"task", "hash"} THEN InTask(sendItem)
  ELSE IF senderPc = "ack"
       THEN IF toSender = <<>> THEN Asked(sendItem, sendSize)
            ELSE InFile(sendItem, Head(toSender).offset)
  ELSE InFile(sendItem, sentSize)

\* What is in flight leads from the receiver's place to the sender's, or, once
\* the connection is lost, to where the sender's last packet to arrive led.
Conversation ==
  Live => \E b \in Place : /\ Follows(Seen, ReceiverPlace, toReceiver, b)
                           /\ Linked => b = SenderPlace

\* One answer is under way at most, to a sender that waits for it.
AckFits ==
  toSender # <<>> => /\ Len(toSender) = 1 /\ senderPc = "ack"
                     /\ Head(toSender).offset <= sendSize

\* Both ends begin with the first item; the file being received is the one
\* whose turn it is.
ItemMatches ==
  /\ senderPc \in {"idle", "hello"} => sendItem = 1
  /\ receiverPc \in {"accept", "down", "hello"} => receiveItem = 1
  /\ receiverPc \in ReceivingFile => fileInfo.file = receiveItem

OffsetFits ==
  receiverPc \in {"ack", "open"} =>
    receivedSize = resumeOffset /\ resumeOffset <= fileInfo.size

\* The sender's locals while the sources are known.
SenderTrue ==
  Known =>
    /\ senderPc \in {"hash", "ack", "stream", "end"} =>
         sendSize = Size[source[sendItem]]
    /\ senderPc = "stream" => sentSize <= sendSize
    /\ senderPc = "end" => sentSize = sendSize

TInv == Conversation /\ AckFits /\ ItemMatches /\ OffsetFits /\ SenderTrue

\* Both ends are at a place of the conversation.
LEMMA PlaceTypes ==
  ASSUME TypeOK
  PROVE  ReceiverPlace \in Place /\ SenderPlace \in Place
<1>1. /\ receiveItem \in Nat /\ sendItem \in Nat /\ sentSize \in Nat
      /\ receivedSize \in Nat
  BY ConstantsAssumption DEF TypeOK, EndOfTask
<1>2. \A x \in Sizes : x \in Nat
  BY ConstantsAssumption DEF Sizes
<1>3. fileInfo.size \in Nat /\ sendSize \in Nat
  BY <1>2 DEF TypeOK, FileInfos, NoInfo
<1>4. toSender # <<>> => Head(toSender).offset \in Nat
  <2>1. toSender # <<>> => Head(toSender) \in Ack
    BY DEF TypeOK
  <2> QED
    BY <2>1 DEF Ack
<1>5. \A name \in {"hello", "task", "asked", "in", "over"}, i \in Nat, n \in Nat :
        At(name, i, n) \in Place
  BY DEF At, Place
<1>6. ReceiverPlace \in Place
  BY <1>1, <1>3, <1>5 DEF ReceiverPlace, InHello, InTask, Asked, InFile
<1>7. SenderPlace \in Place
  BY <1>1, <1>3, <1>4, <1>5 DEF SenderPlace, InHello, InTask, Asked, InFile, Over
<1> QED
  BY <1>6, <1>7

\* The next packet leads on from the receiver's place.
LEMMA HeadLeads ==
  ASSUME TypeOK, Conversation, Live, toReceiver # <<>>
  PROVE  \E c \in Place : Leads(Seen, ReceiverPlace, Head(toReceiver), c)
<1>1. PICK b \in Place : Follows(Seen, ReceiverPlace, toReceiver, b)
  BY DEF Conversation
<1>2. toReceiver \in Seq(Packet) /\ ReceiverPlace \in Place
  BY PlaceTypes DEF TypeOK
<1> QED
  BY <1>1, <1>2, FollowsRead

\* A write of the sender, whatever becomes of it.
LEMMA SenderSends ==
  ASSUME TypeOK, Conversation, NEW p \in Packet, NEW c \in Place,
         StaysKnown, SendToReceiver(p), UNCHANGED <<receiverVars, broken>>,
         senderPc # "idle", Linked => Leads(Seen, SenderPlace, p, c),
         c = SenderPlace'
  PROVE  Conversation'
<1> SUFFICES ASSUME Live'
             PROVE  \E b \in Place : /\ Follows(Seen, ReceiverPlace, toReceiver', b)
                                     /\ Linked' => b = SenderPlace'
  <2>1. ReceiverPlace' = ReceiverPlace
    BY DEF ReceiverPlace, receiverVars
  <2> QED
    BY <2>1, FollowsKept DEF Conversation
<1>1. Live
  BY DEF Live, receiverVars
<1>2. PICK b \in Place : /\ Follows(Seen, ReceiverPlace, toReceiver, b)
                         /\ Linked => b = SenderPlace
  BY <1>1 DEF Conversation
<1>3. ReceiverPlace \in Place /\ toReceiver \in Seq(Packet)
  BY PlaceTypes DEF TypeOK
<1>4. CASE ~SenderCut /\ toReceiver' = Append(toReceiver, p)
  <2>1. Linked
    BY <1>1, <1>4 DEF Linked, SenderCut
  <2>2. Follows(Seen, ReceiverPlace, Append(toReceiver, p), c)
    BY <1>2, <1>3, <2>1, FollowsAppend
  <2> QED
    BY <1>4, <2>2
<1>5. CASE SenderCut /\ UNCHANGED toReceiver
  <2>1. ~Linked'
    BY <1>1, <1>5 DEF Linked, Live, SenderCut
  <2> QED
    BY <1>2, <1>5, <2>1
<1> QED
  BY <1>4, <1>5 DEF SendToReceiver

\* A step of the sender that writes nothing keeps its place, or gives up.
LEMMA SenderSilent ==
  ASSUME Conversation, StaysKnown, UNCHANGED <<receiverVars, toReceiver, broken>>,
         senderPc # "idle",
         IF senderPc' = "idle" THEN sendResult' # "ok" ELSE SenderPlace' = SenderPlace
  PROVE  Conversation'
<1>1. ReceiverPlace' = ReceiverPlace /\ (Live' <=> Live) /\ (Linked' => Linked)
  BY DEF ReceiverPlace, receiverVars, Live, Linked
<1>2. Linked' => SenderPlace' = SenderPlace
  BY DEF Linked
<1> QED
  BY <1>1, <1>2, FollowsKept DEF Conversation

\* The receiver reads a packet and goes where it leads.
LEMMA ReceiverReads ==
  ASSUME TypeOK, Conversation, Live, toReceiver # <<>>,
         StaysKnown, toReceiver' = Tail(toReceiver),
         UNCHANGED <<senderVars, toSender, broken>>,
         \A c \in Place :
           Leads(Seen, ReceiverPlace, Head(toReceiver), c) => c = ReceiverPlace'
  PROVE  Conversation'
<1>1. PICK b \in Place : /\ Follows(Seen, ReceiverPlace, toReceiver, b)
                         /\ Linked => b = SenderPlace
  BY DEF Conversation
<1>2. ReceiverPlace \in Place /\ toReceiver \in Seq(Packet)
  BY PlaceTypes DEF TypeOK
<1>3. Follows(Seen, ReceiverPlace', Tail(toReceiver), b)
  BY <1>1, <1>2, FollowsRead
<1>4. SenderPlace' = SenderPlace /\ (Linked' => Linked)
  BY DEF SenderPlace, Linked, senderVars
<1>5. Follows(Seen', ReceiverPlace', toReceiver', b)
  BY <1>3, FollowsKept
<1> QED
  BY <1>1, <1>4, <1>5 DEF Conversation

\* A step of the receiver that reads nothing keeps its place.
LEMMA ReceiverSilent ==
  ASSUME Conversation, Live, StaysKnown, UNCHANGED <<toReceiver, senderVars, toSender, broken>>,
         ReceiverPlace' = ReceiverPlace
  PROVE  Conversation'
<1>1. SenderPlace' = SenderPlace /\ (Linked' => Linked)
  BY DEF SenderPlace, Linked, senderVars
<1> QED
  BY <1>1, FollowsKept DEF Conversation

-----------------------------------------------------------------------------
(* Where each packet leads. *)

\* At the start only HELLO leads on, to the first item.
LEMMA FromHello ==
  ASSUME NEW src, NEW p, NEW b, Leads(src, InHello, p, b)
  PROVE  p = Hello /\ b = InTask(1)
BY DEF Leads, HelloLeads, DirectoryLeads, InfoLeads, DataLeads, EndLeads,
       FinishLeads, InHello, InTask, InFile, At

\* Between two items only the announcement of the next one leads on.
LEMMA FromTask ==
  ASSUME NEW src, NEW i, NEW p, NEW b, Leads(src, InTask(i), p, b)
  PROVE  \/ i \in Dir /\ p = DirectoryInfo(i) /\ b = InTask(i + 1)
         \/ /\ i \in File /\ p.type = "FILE_INFO" /\ p.info.file = i
            /\ b = Asked(i, p.info.size)
            /\ ~src.known \/ p.info = Announced(src.source, i)
         \/ i = EndOfTask /\ p = Finish /\ b = Over
<1>1. ~HelloLeads(InTask(i), p, b) /\ ~DataLeads(src, InTask(i), p, b)
      /\ ~EndLeads(src, InTask(i), p, b)
  BY DEF HelloLeads, DataLeads, EndLeads, InHello, InTask, InFile, At
<1>2. \A j : InTask(i) = InTask(j) => i = j
  BY DEF InTask, At
<1>3. CASE DirectoryLeads(InTask(i), p, b)
  BY <1>2, <1>3 DEF DirectoryLeads
<1>4. CASE InfoLeads(src, InTask(i), p, b)
  BY <1>2, <1>4 DEF InfoLeads
<1>5. CASE FinishLeads(InTask(i), p, b)
  BY <1>2, <1>5 DEF FinishLeads
<1> QED
  BY <1>1, <1>3, <1>4, <1>5 DEF Leads

\* Inside a file only the next bytes or its end lead on.
LEMMA FromFile ==
  ASSUME NEW src, NEW f, NEW n, NEW p, NEW b, Leads(src, InFile(f, n), p, b)
  PROVE  \/ /\ p.type = "DATA" /\ b = InFile(f, n + Len(p.bytes))
            /\ \/ ~src.known
               \/ /\ n + Len(p.bytes) <= Size[src.source[f]]
                  /\ p.bytes = SubSeq(Content(src.source[f]), n + 1, n + Len(p.bytes))
         \/ /\ p = FileEnd /\ b = InTask(f + 1)
            /\ ~src.known \/ n = Size[src.source[f]]
<1>1. ~HelloLeads(InFile(f, n), p, b) /\ ~DirectoryLeads(InFile(f, n), p, b)
      /\ ~InfoLeads(src, InFile(f, n), p, b) /\ ~FinishLeads(InFile(f, n), p, b)
  BY DEF HelloLeads, DirectoryLeads, InfoLeads, FinishLeads, InHello, InTask,
         InFile, At
<1>2. \A g, m : InFile(f, n) = InFile(g, m) => f = g /\ n = m
  BY DEF InFile, At
<1>3. CASE DataLeads(src, InFile(f, n), p, b)
  BY <1>2, <1>3, ZenonT(30) DEF DataLeads
<1>4. CASE EndLeads(src, InFile(f, n), p, b)
  BY <1>2, <1>4, ZenonT(30) DEF EndLeads
<1> QED
  BY <1>1, <1>3, <1>4 DEF Leads

\* The packets the sender writes, by type.
LEMMA PacketTypes ==
  /\ Hello.type = "HELLO" /\ FileEnd.type = "FILE_END" /\ Finish.type = "FINISH"
  /\ \A d : DirectoryInfo(d).type = "DIRECTORY_INFO" /\ DirectoryInfo(d).dir = d
  /\ \A i : FileInfoPacket(i).type = "FILE_INFO" /\ FileInfoPacket(i).info = i
  /\ \A s : Data(s).type = "DATA" /\ Data(s).bytes = s
BY DEF Hello, FileEnd, Finish, DirectoryInfo, FileInfoPacket, Data

\* What the receiver reads is what it is waiting for.
LEMMA InvariantInStep == IInv /\ TInv => InStep
<1> SUFFICES ASSUME IInv, TInv PROVE InStep
  OBVIOUS
<1>1. TypeOK /\ Conversation /\ AckFits
  BY DEF IInv, TInv
<1>2. ASSUME toReceiver # <<>>, Live
      PROVE  /\ receiverPc = "hello" => Head(toReceiver) = Hello
             /\ receiverPc # "ack"
             /\ receiverPc = "data" => Head(toReceiver).type \in {"DATA", "FILE_END"}
             /\ receiverPc = "task" =>
                  \/ receiveItem \in Dir
                     /\ Head(toReceiver) = DirectoryInfo(receiveItem)
                  \/ /\ receiveItem \in File /\ Head(toReceiver).type = "FILE_INFO"
                     /\ Head(toReceiver).info.file = receiveItem
                  \/ receiveItem = EndOfTask /\ Head(toReceiver) = Finish
  <2>1. PICK c \in Place : Leads(Seen, ReceiverPlace, Head(toReceiver), c)
    BY <1>1, <1>2, HeadLeads
  <2>2. receiverPc = "hello" => Head(toReceiver) = Hello
    BY <2>1, FromHello DEF ReceiverPlace
  <2>3. receiverPc # "ack"
    BY <2>1, AskedWaits DEF ReceiverPlace
  <2>4. receiverPc = "data" => Head(toReceiver).type \in {"DATA", "FILE_END"}
    <3>1. receiverPc = "data" => ReceiverPlace = InFile(receiveItem, receivedSize)
      BY DEF ReceiverPlace
    <3> QED
      BY <2>1, <3>1, FromFile, PacketTypes
  <2>5. receiverPc = "task" => ReceiverPlace = InTask(receiveItem)
    BY DEF ReceiverPlace
  <2> QED
    BY <2>1, <2>2, <2>3, <2>4, <2>5, FromTask
<1> QED
  BY <1>1, <1>2 DEF InStep, Live, AckFits

-----------------------------------------------------------------------------
(* The sender's steps. *)

\* The offsets and items of the receiver are not the sender's business.
LEMMA SenderKeeps ==
  ASSUME TInv, UNCHANGED receiverVars,
         senderPc' \in {"idle", "hello"} => sendItem' = 1
  PROVE  ItemMatches' /\ OffsetFits'
BY DEF TInv, ItemMatches, OffsetFits, receiverVars, ReceivingFile

\* What the sender reads from a file that nobody edits: the next bytes, and a
\* short read ends at its end.
LEMMA ChunkFacts ==
  ASSUME TypeOK, sendItem \in File, sentSize <= Size[source[sendItem]]
  PROVE  /\ Len(NextChunk) \in Nat
         /\ sentSize + Len(NextChunk) <= Size[source[sendItem]]
         /\ NextChunk = SubSeq(Content(source[sendItem]), sentSize + 1,
                               sentSize + Len(NextChunk))
         /\ Len(NextChunk) < ChunkSize =>
              sentSize + Len(NextChunk) = Size[source[sendItem]]
<1> DEFINE c == Content(source[sendItem])
           size == Size[source[sendItem]]
           last == Minimum(sentSize + ChunkSize, size)
<1>1. sentSize \in Nat /\ size \in Nat /\ ChunkSize \in Nat \ {0}
  BY ConstantsAssumption DEF TypeOK
<1>2. /\ last \in Nat /\ sentSize <= last /\ last <= size
      /\ last - sentSize < ChunkSize => last = size
  BY <1>1 DEF Minimum
<1>3. c \in Seq(Byte) /\ Len(c) = size
  BY ContentType DEF TypeOK
<1>4. NextChunk = SubSeq(c, sentSize + 1, last)
  BY DEF NextChunk
<1> HIDE DEF c, size, last
<1>5. Len(SubSeq(c, sentSize + 1, last)) = last - sentSize
  BY <1>1, <1>2, <1>3
<1>6. sentSize + (last - sentSize) = last /\ last - sentSize \in Nat
  BY <1>1, <1>2
<1>7. Len(NextChunk) = last - sentSize /\ sentSize + Len(NextChunk) = last
  BY <1>4, <1>5, <1>6
<1>8. NextChunk = SubSeq(c, sentSize + 1, sentSize + Len(NextChunk))
  BY <1>4, <1>7
<1> QED
  BY <1>2, <1>6, <1>7, <1>8 DEF c, size

\* HELLO keeps the two ends in step.
LEMMA SendHelloKeepsTInv ==
  ASSUME IInv, TInv, StaysKnown, SendHello PROVE TInv'
<1>1. TypeOK /\ Conversation /\ AckFits /\ ItemMatches
  BY DEF IInv, TInv
<1>2. SenderPlace = InHello /\ SenderPlace' = InTask(1)
  BY <1>1 DEF SendHello, SenderPlace, ItemMatches
<1>3. Leads(Seen, SenderPlace, Hello, SenderPlace')
  BY <1>2 DEF Leads, HelloLeads
<1>4. Hello \in Packet
  BY DEF Hello, Packet
<1>5. /\ UNCHANGED <<receiverVars, broken>>
      /\ senderPc = "hello" /\ senderPc' = "task" /\ UNCHANGED toSender
      /\ SendToReceiver(Hello)
  BY DEF SendHello, disks
<1>6. SenderPlace' \in Place
  BY <1>2 DEF InTask, At, Place
<1>7. Conversation'
  BY <1>1, <1>3, <1>4, <1>5, <1>6, SenderSends
<1>8. AckFits' /\ SenderTrue'
  BY <1>1, <1>5 DEF AckFits, SenderTrue, StaysKnown
<1>9. ItemMatches' /\ OffsetFits'
  BY <1>5, SenderKeeps
<1> QED
  BY <1>7, <1>8, <1>9 DEF TInv

\* Announcing a directory keeps the two ends in step.
LEMMA SendOneDirectoryKeepsTInv ==
  ASSUME IInv, TInv, StaysKnown, SendOneDirectory PROVE TInv'
<1>1. TypeOK /\ Conversation /\ AckFits
  BY DEF IInv, TInv
<1>2. /\ UNCHANGED <<receiverVars, broken>>
      /\ senderPc = "task" /\ senderPc' = "task" /\ UNCHANGED toSender
      /\ sendItem \in Dir /\ sendItem' = sendItem + 1
      /\ SendToReceiver(DirectoryInfo(sendItem))
  BY DEF SendOneDirectory, disks
<1>3. SenderPlace = InTask(sendItem) /\ SenderPlace' = InTask(sendItem + 1)
  BY <1>2 DEF SenderPlace
<1>4. Leads(Seen, SenderPlace, DirectoryInfo(sendItem), SenderPlace')
  BY <1>2, <1>3 DEF Leads, DirectoryLeads
<1>5. DirectoryInfo(sendItem) \in Packet
  BY <1>2 DEF DirectoryInfo, Packet
<1>6. SenderPlace' \in Place
  BY <1>2, <1>3 DEF InTask, At, Place, Dir
<1>7. Conversation'
  BY <1>1, <1>2, <1>4, <1>5, <1>6, SenderSends
<1>8. AckFits' /\ SenderTrue'
  BY <1>1, <1>2 DEF AckFits, SenderTrue, StaysKnown
<1>9. ItemMatches' /\ OffsetFits'
  BY <1>2, SenderKeeps
<1> QED
  BY <1>7, <1>8, <1>9 DEF TInv

\* Reading the size keeps the two ends in step.
LEMMA ReadFileSizeKeepsTInv ==
  ASSUME IInv, TInv, StaysKnown, ReadFileSize PROVE TInv'
<1>1. TypeOK /\ Conversation /\ AckFits
  BY DEF IInv, TInv
<1>2. /\ UNCHANGED <<receiverVars, toReceiver, broken>>
      /\ senderPc = "task" /\ senderPc' = "hash" /\ UNCHANGED <<toSender, sendItem>>
      /\ sendSize' = Size[source[sendItem]]
  BY DEF ReadFileSize, disks, net
<1>3. SenderPlace' = SenderPlace
  BY <1>2 DEF SenderPlace
<1>4. Conversation'
  BY <1>1, <1>2, <1>3, SenderSilent
<1>5. AckFits' /\ SenderTrue'
  BY <1>1, <1>2 DEF AckFits, SenderTrue, StaysKnown
<1>6. ItemMatches' /\ OffsetFits'
  BY <1>2, SenderKeeps
<1> QED
  BY <1>4, <1>5, <1>6 DEF TInv

\* Announcing a file keeps the two ends in step.
LEMMA HashAndAnnounceKeepsTInv ==
  ASSUME IInv, TInv, StaysKnown, HashAndAnnounce PROVE TInv'
<1> DEFINE info == [file |-> sendItem, size |-> sendSize, hash |-> source[sendItem]]
<1>1. TypeOK /\ Conversation /\ AckFits /\ SenderInFile /\ SenderTrue
  BY DEF IInv, TInv
<1>2. /\ UNCHANGED <<receiverVars, broken>>
      /\ senderPc = "hash" /\ senderPc' = "ack"
      /\ UNCHANGED <<toSender, sendItem, sendSize, sentSize>>
      /\ SendToReceiver(FileInfoPacket(info))
  BY DEF HashAndAnnounce, disks
<1>3. sendItem \in File /\ sendSize \in Sizes /\ source[sendItem] \in Version
  BY <1>1, <1>2 DEF SenderInFile, TypeOK
<1>4. info \in FileInfos /\ info.size = sendSize
  BY <1>3 DEF FileInfos
<1>5. FileInfoPacket(info) \in Packet
  BY <1>4 DEF FileInfoPacket, Packet
<1>6. toSender = <<>> /\ toSender' = <<>>
  BY <1>1, <1>2 DEF AckFits
<1>7. SenderPlace = InTask(sendItem) /\ SenderPlace' = Asked(sendItem, sendSize)
  BY <1>2, <1>6 DEF SenderPlace
<1>8. ~Seen.known \/ info = Announced(Seen.source, sendItem)
  BY <1>1, <1>2 DEF SenderTrue, Announced, Seen
<1>9. InfoLeads(Seen, SenderPlace, FileInfoPacket(info), SenderPlace')
  BY <1>3, <1>4, <1>7, <1>8, PacketTypes DEF InfoLeads
<1>10. SenderPlace' \in Place
  <2>1. sendSize \in Nat /\ sendItem \in Nat
    BY <1>3, ConstantsAssumption DEF Sizes, File
  <2> QED
    BY <1>7, <2>1 DEF Asked, At, Place
<1> HIDE DEF info
<1>11. Conversation'
  BY <1>1, <1>2, <1>5, <1>9, <1>10, SenderSends DEF Leads
<1>12. AckFits' /\ SenderTrue'
  BY <1>1, <1>2, <1>6 DEF AckFits, SenderTrue, StaysKnown
<1>13. ItemMatches' /\ OffsetFits'
  BY <1>2, SenderKeeps
<1> QED
  BY <1>11, <1>12, <1>13 DEF TInv

\* The answer read keeps the two ends in step.
LEMMA ReadResumeAckKeepsTInv ==
  ASSUME IInv, TInv, StaysKnown, ReadResumeAck PROVE TInv'
<1>1. TypeOK /\ Conversation /\ AckFits /\ SenderTrue
  BY DEF IInv, TInv
<1>2. /\ UNCHANGED <<receiverVars, toReceiver, broken>>
      /\ senderPc = "ack" /\ senderPc' = "stream" /\ toSender # <<>>
      /\ UNCHANGED <<sendItem, sendSize>>
      /\ sentSize' = Head(toSender).offset /\ Head(toSender).offset <= sendSize
      /\ toSender' = Tail(toSender)
  BY DEF ReadResumeAck, disks, SeekPosition
<1>3. SenderPlace' = SenderPlace
  BY <1>2 DEF SenderPlace
<1>4. Conversation'
  BY <1>1, <1>2, <1>3, SenderSilent
<1>5. toSender' = <<>>
  <2>1. toSender \in Seq(Ack) /\ Len(toSender) = 1
    BY <1>1, <1>2 DEF AckFits, TypeOK
  <2> QED
    BY <1>2, <2>1
<1>6. AckFits' /\ SenderTrue'
  BY <1>1, <1>2, <1>5 DEF AckFits, SenderTrue, StaysKnown
<1>7. ItemMatches' /\ OffsetFits'
  BY <1>2, SenderKeeps
<1> QED
  BY <1>4, <1>6, <1>7 DEF TInv

\* A chunk written keeps the two ends in step.
LEMMA SendDataKeepsTInv ==
  ASSUME IInv, TInv, StaysKnown, SendData PROVE TInv'
<1>1. TypeOK /\ Conversation /\ AckFits /\ SenderInFile /\ SenderTrue
  BY DEF IInv, TInv
<1>2. /\ UNCHANGED <<receiverVars, broken>>
      /\ senderPc = "stream" /\ senderPc' \in {"stream", "end"}
      /\ senderPc' = (IF Len(NextChunk) < ChunkSize THEN "end" ELSE "stream")
      /\ UNCHANGED <<toSender, sendItem, sendSize>>
      /\ sentSize' = sentSize + Len(NextChunk)
      /\ SendToReceiver(Data(NextChunk))
  BY DEF SendData, disks
<1>3. sendItem \in File /\ NextChunk \in Seq(Byte) /\ sentSize \in Nat
  BY <1>1, <1>2, ChunkType DEF SenderInFile, TypeOK
<1>4. Data(NextChunk) \in Packet
  BY <1>3 DEF Data, Packet
<1>5. Known => sendSize = Size[source[sendItem]] /\ sentSize <= sendSize
  BY <1>1, <1>2 DEF SenderTrue
<1>6. \/ ~Known
      \/ /\ sentSize + Len(NextChunk) <= Size[source[sendItem]]
         /\ NextChunk = SubSeq(Content(source[sendItem]), sentSize + 1,
                               sentSize + Len(NextChunk))
         /\ Len(NextChunk) < ChunkSize =>
              sentSize + Len(NextChunk) = Size[source[sendItem]]
  BY <1>1, <1>3, <1>5, ChunkFacts
<1>7. /\ SenderPlace = InFile(sendItem, sentSize)
      /\ SenderPlace' = InFile(sendItem, sentSize + Len(NextChunk))
  BY <1>2 DEF SenderPlace
<1>8. DataLeads(Seen, SenderPlace, Data(NextChunk), SenderPlace')
  <2>1. Seen.source = source /\ Seen.known = Known
    BY DEF Seen
  <2> QED
    BY <1>3, <1>6, <1>7, <2>1, PacketTypes, ZenonT(30) DEF DataLeads
<1>9. SenderPlace' \in Place
  <2>1. Len(NextChunk) \in Nat /\ sendItem \in Nat
    BY <1>3, ConstantsAssumption DEF File
  <2> QED
    BY <1>3, <1>7, <2>1 DEF InFile, At, Place
<1>10. Conversation'
  BY <1>1, <1>2, <1>4, <1>8, <1>9, SenderSends DEF Leads
<1>11. AckFits'
  BY <1>1, <1>2 DEF AckFits
<1>12. SenderTrue'
  BY <1>2, <1>5, <1>6 DEF SenderTrue, StaysKnown
<1>13. ItemMatches' /\ OffsetFits'
  BY <1>2, SenderKeeps
<1> QED
  BY <1>10, <1>11, <1>12, <1>13 DEF TInv

\* The end of a file keeps the two ends in step.
LEMMA SendFileEndKeepsTInv ==
  ASSUME IInv, TInv, StaysKnown, SendFileEnd PROVE TInv'
<1>1. TypeOK /\ Conversation /\ AckFits /\ SenderInFile /\ SenderTrue
  BY DEF IInv, TInv
<1>2. /\ UNCHANGED <<receiverVars, broken>>
      /\ senderPc \in {"stream", "end"} /\ senderPc' = "task"
      /\ senderPc = "stream" => NextChunk = <<>>
      /\ sendItem' = sendItem + 1 /\ UNCHANGED toSender
      /\ SendToReceiver(FileEnd)
  BY DEF SendFileEnd, disks
<1>3. sendItem \in File /\ sentSize \in Nat
  BY <1>1, <1>2 DEF SenderInFile, TypeOK
<1>4. ~Known \/ sentSize = Size[source[sendItem]]
  <2> SUFFICES ASSUME Known PROVE sentSize = Size[source[sendItem]]
    OBVIOUS
  <2>1. sendSize = Size[source[sendItem]]
    BY <1>1, <1>2 DEF SenderTrue
  <2>2. CASE senderPc = "end"
    BY <1>1, <2>1, <2>2 DEF SenderTrue
  <2>3. CASE senderPc = "stream"
    <3>1. sentSize <= Size[source[sendItem]]
      BY <1>1, <2>1, <2>3 DEF SenderTrue
    <3>2. Len(NextChunk) = 0 /\ 0 < ChunkSize
      BY <1>2, <2>3, ConstantsAssumption
    <3>3. sentSize + 0 = Size[source[sendItem]]
      BY <1>1, <1>3, <3>1, <3>2, ChunkFacts
    <3> QED
      BY <1>3, <3>3
  <2> QED
    BY <1>2, <2>2, <2>3
<1>5. SenderPlace = InFile(sendItem, sentSize) /\ SenderPlace' = InTask(sendItem + 1)
  BY <1>2 DEF SenderPlace
<1>6. EndLeads(Seen, SenderPlace, FileEnd, SenderPlace')
  <2>1. Seen.source = source /\ Seen.known = Known
    BY DEF Seen
  <2> QED
    BY <1>3, <1>4, <1>5, <2>1, ZenonT(30) DEF EndLeads
<1>7. FileEnd \in Packet
  BY DEF FileEnd, Packet
<1>8. SenderPlace' \in Place
  <2>1. sendItem \in Nat
    BY <1>3, ConstantsAssumption DEF File
  <2> QED
    BY <1>5, <2>1 DEF InTask, At, Place
<1>9. Conversation'
  BY <1>1, <1>2, <1>6, <1>7, <1>8, SenderSends DEF Leads
<1>10. AckFits' /\ SenderTrue'
  BY <1>1, <1>2 DEF AckFits, SenderTrue, StaysKnown
<1>11. ItemMatches' /\ OffsetFits'
  BY <1>2, SenderKeeps
<1> QED
  BY <1>9, <1>10, <1>11 DEF TInv

\* FINISH keeps the two ends in step.
LEMMA SendFinishKeepsTInv ==
  ASSUME IInv, TInv, StaysKnown, SendFinish PROVE TInv'
<1>1. TypeOK /\ Conversation
  BY DEF IInv, TInv
<1>2. /\ UNCHANGED <<receiverVars, broken>>
      /\ senderPc = "task" /\ senderPc' = "idle"
      /\ sendItem = EndOfTask /\ sendItem' = 1 /\ toSender' = <<>>
      /\ SendToReceiver(Finish)
  BY DEF SendFinish, disks
<1>3. Finish \in Packet /\ Over \in Place
  BY DEF Finish, Packet, Over, At, Place
<1>4. Leads(Seen, SenderPlace, Finish, Over)
  BY <1>2 DEF SenderPlace, Leads, FinishLeads
<1>5. Conversation'
  <2>1. SenderPlace' = Over
    BY <1>2 DEF SenderPlace
  <2> QED
    BY <1>1, <1>2, <1>3, <1>4, <2>1, SenderSends
<1>6. AckFits' /\ SenderTrue'
  BY <1>2 DEF AckFits, SenderTrue, StaysKnown
<1>7. ItemMatches' /\ OffsetFits'
  BY <1>2, SenderKeeps
<1> QED
  BY <1>5, <1>6, <1>7 DEF TInv

\* The sender gives up.
LEMMA SenderEndsKeepsTInv ==
  ASSUME IInv, TInv, StaysKnown, NEW result, SenderEnds(result), result # "ok",
         senderPc # "idle"
  PROVE  TInv'
<1>1. Conversation
  BY DEF TInv
<1>2. /\ UNCHANGED <<receiverVars, toReceiver, broken>>
      /\ senderPc' = "idle" /\ sendResult' # "ok"
      /\ sendItem' = 1 /\ toSender' = <<>>
  BY DEF SenderEnds, disks
<1>3. Conversation'
  BY <1>1, <1>2, SenderSilent
<1>4. AckFits' /\ SenderTrue'
  BY <1>2 DEF AckFits, SenderTrue, StaysKnown
<1>5. ItemMatches' /\ OffsetFits'
  BY <1>2, SenderKeeps
<1> QED
  BY <1>3, <1>4, <1>5 DEF TInv

-----------------------------------------------------------------------------
(* The receiver's steps. *)

\* What the receiver's steps leave alone.
LEMMA ReceiverKeeps ==
  ASSUME TInv, StaysKnown, UNCHANGED <<senderVars, toSender>>
  PROVE  AckFits' /\ SenderTrue'
BY DEF TInv, AckFits, SenderTrue, senderVars, StaysKnown

\* The receiver gives up, succeeds, is killed or restarts.
LEMMA ReceiverGone ==
  ASSUME TInv, StaysKnown, UNCHANGED <<senderVars, toSender>>,
         receiverPc' \in {"accept", "down"}, receiveItem' = 1
  PROVE  TInv'
<1>1. AckFits' /\ SenderTrue'
  BY ReceiverKeeps
<1>2. Conversation' /\ ItemMatches' /\ OffsetFits'
  BY DEF TInv, Conversation, Live, ItemMatches, OffsetFits, ReceivingFile, senderVars
<1> QED
  BY <1>1, <1>2 DEF TInv

\* Reading HELLO keeps the two ends in step.
LEMMA ReceiveHelloKeepsTInv ==
  ASSUME IInv, TInv, StaysKnown, ReceiveHello PROVE TInv'
<1>1. TypeOK /\ Conversation /\ ItemMatches
  BY DEF IInv, TInv
<1>2. /\ UNCHANGED <<senderVars, toSender, broken>>
      /\ receiverPc = "hello" /\ receiverPc' = "task"
      /\ toReceiver # <<>> /\ toReceiver' = Tail(toReceiver)
      /\ UNCHANGED receiveItem
  BY DEF ReceiveHello, disks, NextIs
<1>3. ReceiverPlace = InHello /\ ReceiverPlace' = InTask(1)
  BY <1>1, <1>2 DEF ReceiverPlace, ItemMatches
<1>4. Conversation'
  BY <1>1, <1>2, <1>3, FromHello, ReceiverReads DEF Live
<1>5. ItemMatches' /\ OffsetFits'
  BY <1>1, <1>2 DEF ItemMatches, OffsetFits, ReceivingFile, senderVars
<1> QED
  BY <1>2, <1>4, <1>5, ReceiverKeeps DEF TInv

\* Reading a directory keeps the two ends in step.
LEMMA ReceiveOneDirectoryKeepsTInv ==
  ASSUME IInv, TInv, StaysKnown, ReceiveOneDirectory PROVE TInv'
<1>1. TypeOK /\ Conversation /\ ItemMatches
  BY DEF IInv, TInv
<1>2. /\ UNCHANGED <<senderVars, toSender, broken>>
      /\ receiverPc = "task" /\ receiveItem \in Dir
      /\ toReceiver # <<>> /\ Head(toReceiver).type = "DIRECTORY_INFO"
      /\ \/ ReceiverEnds("filesystem")
         \/ /\ receiveItem' = receiveItem + 1 /\ toReceiver' = Tail(toReceiver)
            /\ UNCHANGED receiverPc
  BY DEF ReceiveOneDirectory, NextIs
<1>3. CASE ReceiverEnds("filesystem")
  BY <1>2, <1>3, ReceiverGone DEF ReceiverEnds
<1>4. CASE /\ receiveItem' = receiveItem + 1 /\ toReceiver' = Tail(toReceiver)
           /\ UNCHANGED receiverPc
  <2>1. ReceiverPlace = InTask(receiveItem)
        /\ ReceiverPlace' = InTask(receiveItem + 1)
    BY <1>2, <1>4 DEF ReceiverPlace
  <2>2. \A c \in Place : Leads(Seen, ReceiverPlace, Head(toReceiver), c)
                           => c = ReceiverPlace'
    BY <1>2, <2>1, FromTask, PacketTypes
  <2>3. Conversation'
    BY <1>1, <1>2, <1>4, <2>2, ReceiverReads DEF Live
  <2>4. ItemMatches' /\ OffsetFits'
    BY <1>1, <1>2, <1>4 DEF ItemMatches, OffsetFits, ReceivingFile, senderVars
  <2> QED
    BY <1>2, <2>3, <2>4, ReceiverKeeps DEF TInv
<1> QED
  BY <1>2, <1>3, <1>4

\* The offset the receiver trusts lies within the announced file.
LEMMA TrustedOffsetFits ==
  ASSUME TypeOK, NEW i \in FileInfos
  PROVE  TrustedResumeOffset(i) \in Nat /\ TrustedResumeOffset(i) <= i.size
<1>1. i.size \in Nat /\ records[i] \in Nat /\ i.file \in File
  BY ConstantsAssumption DEF TypeOK, FileInfos, Sizes
<1>2. ExistingFileSize(i.file) \in Nat
  <2>1. disk[i.file] = Absent \/ Len(disk[i.file]) \in Nat
    BY <1>1 DEF TypeOK
  <2> QED
    BY <2>1 DEF ExistingFileSize
<1> QED
  BY <1>1, <1>2 DEF TrustedResumeOffset, Minimum

\* Reading the announcement of a file keeps the two ends in step.
LEMMA ReceiveFileInfoKeepsTInv ==
  ASSUME IInv, TInv, StaysKnown, ReceiveFileInfo PROVE TInv'
<1> DEFINE i == Head(toReceiver).info
           offset == IF EnableResume THEN TrustedResumeOffset(i) ELSE 0
<1>1. TypeOK /\ Conversation /\ ItemMatches
  BY DEF IInv, TInv
<1>2. /\ UNCHANGED <<senderVars, toSender, broken>>
      /\ receiverPc = "task" /\ receiveItem \in File
      /\ toReceiver # <<>> /\ Head(toReceiver).type = "FILE_INFO"
      /\ \/ ReceiverEnds("filesystem")
         \/ /\ fileInfo' = i /\ resumeOffset' = offset /\ receivedSize' = offset
            /\ receiverPc' = "ack" /\ toReceiver' = Tail(toReceiver)
            /\ UNCHANGED receiveItem
  BY DEF ReceiveFileInfo, NextIs, disks
<1>3. CASE ReceiverEnds("filesystem")
  BY <1>2, <1>3, ReceiverGone DEF ReceiverEnds
<1>4. CASE /\ fileInfo' = i /\ resumeOffset' = offset /\ receivedSize' = offset
           /\ receiverPc' = "ack" /\ toReceiver' = Tail(toReceiver)
           /\ UNCHANGED receiveItem
  <2>1. ReceiverPlace = InTask(receiveItem) /\ ReceiverPlace' = Asked(receiveItem, i.size)
    BY <1>2, <1>4 DEF ReceiverPlace
  <2>2. \A c \in Place : Leads(Seen, ReceiverPlace, Head(toReceiver), c)
                           => i.file = receiveItem /\ c = ReceiverPlace'
    BY <1>2, <2>1, FromTask, PacketTypes
  <2>3. Conversation'
    BY <1>1, <1>2, <1>4, <2>2, ReceiverReads DEF Live
  <2>4. i.file = receiveItem
    BY <1>1, <1>2, <2>2, HeadLeads DEF Live
  <2>5. offset <= i.size
    <3>1. Head(toReceiver) \in Packet
      BY <1>1, <1>2 DEF TypeOK
    <3>2. i \in FileInfos /\ i.size \in Nat
      BY <1>2, <3>1, PacketFields, ConstantsAssumption DEF FileInfos, Sizes
    <3> QED
      BY <1>1, <3>2, TrustedOffsetFits
  <2> HIDE DEF i, offset
  <2>6. ItemMatches' /\ OffsetFits'
    BY <1>1, <1>2, <1>4, <2>4, <2>5
    DEF ItemMatches, OffsetFits, ReceivingFile, senderVars
  <2> QED
    BY <1>2, <2>3, <2>6, ReceiverKeeps DEF TInv
<1> QED
  BY <1>2, <1>3, <1>4

\* The answer: it is only sent when nothing is in flight, to a sender that
\* waits for it and announced a file of that size.
LEMMA SendResumeAckKeepsTInv ==
  ASSUME IInv, TInv, StaysKnown, SendResumeAck PROVE TInv'
<1>1. /\ TypeOK /\ Conversation /\ AckFits /\ ItemMatches /\ OffsetFits
      /\ SenderTrue /\ ReceiverInFile
  BY DEF IInv, TInv
<1>2. /\ UNCHANGED <<senderVars, toReceiver, broken>>
      /\ receiverPc = "ack" /\ receiverPc' = "open"
      /\ UNCHANGED <<receiveItem, fileInfo, resumeOffset, receivedSize>>
      /\ SendToSender(ResumeAck(resumeOffset))
  BY DEF SendResumeAck, disks
<1>3. /\ ReceiverPlace = Asked(receiveItem, fileInfo.size)
      /\ ReceiverPlace' = InFile(receiveItem, receivedSize)
  BY <1>2 DEF ReceiverPlace
<1>4. toReceiver = <<>>
  BY <1>1, <1>2, <1>3, HeadLeads, AskedWaits DEF Live
<1>5. Linked => SenderPlace = ReceiverPlace
  <2>1. Live
    BY <1>2 DEF Live
  <2>2. ReceiverPlace \in Place
    BY <1>1, PlaceTypes
  <2> QED
    BY <1>1, <1>4, <2>1, <2>2, FollowsNothing DEF Conversation
<1>6. Linked => senderPc = "ack" /\ toSender = <<>> /\ sendItem = receiveItem
                /\ sendSize = fileInfo.size
  <2>1. \A f, n : /\ InHello # Asked(receiveItem, fileInfo.size)
                  /\ InTask(f) # Asked(receiveItem, fileInfo.size)
                  /\ InFile(f, n) # Asked(receiveItem, fileInfo.size)
                  /\ Over # Asked(receiveItem, fileInfo.size)
                  /\ Asked(f, n) = Asked(receiveItem, fileInfo.size)
                       => f = receiveItem /\ n = fileInfo.size
    BY DEF InHello, InTask, InFile, Asked, Over, At
  <2> QED
    BY <1>3, <1>5, <2>1 DEF SenderPlace
<1>7. Linked <=> ~ReceiverCut
  BY <1>1, <1>2, <1>6 DEF Linked, Live, ReceiverCut
<1>8. UNCHANGED <<senderPc, sendItem, sendSize, sentSize, sendResult>>
  BY <1>2 DEF senderVars
<1>9. InFile(receiveItem, receivedSize) \in Place
  BY <1>1, ConstantsAssumption DEF TypeOK, EndOfTask, InFile, At, Place
<1>10. Follows(Seen', ReceiverPlace', toReceiver', ReceiverPlace')
  BY <1>2, <1>3, <1>4, <1>9, FollowsNothing
<1>11. CASE ~ReceiverCut /\ toSender' = Append(toSender, ResumeAck(resumeOffset))
  <2>1. toSender' = <<ResumeAck(resumeOffset)>>
    <3>1. toSender = <<>>
      BY <1>6, <1>7, <1>11
    <3>2. \A x : Append(<<>>, x) = <<x>>
      OBVIOUS
    <3> QED
      BY <1>11, <3>1, <3>2
  <2>2. /\ toSender' # <<>> /\ Len(toSender') = 1
        /\ Head(toSender').offset = resumeOffset
    BY <2>1 DEF ResumeAck
  <2>3. AckFits'
    BY <1>1, <1>2, <1>6, <1>7, <1>8, <1>11, <2>2 DEF AckFits, OffsetFits
  <2>4. SenderPlace' = InFile(receiveItem, receivedSize)
    BY <1>1, <1>2, <1>6, <1>7, <1>8, <1>11, <2>2 DEF SenderPlace, OffsetFits
  <2>5. Conversation'
    BY <1>3, <1>9, <1>10, <2>4 DEF Conversation
  <2> QED
    BY <1>1, <1>2, <1>8, <2>3, <2>5
    DEF TInv, ItemMatches, OffsetFits, SenderTrue, ReceivingFile, StaysKnown
<1>12. CASE ReceiverCut /\ UNCHANGED toSender
  <2>1. ~Linked'
    BY <1>2, <1>7, <1>8, <1>12 DEF Linked, Live
  <2>2. Conversation'
    BY <1>3, <1>9, <1>10, <2>1 DEF Conversation
  <2> QED
    BY <1>1, <1>2, <1>8, <1>12, <2>2
    DEF TInv, AckFits, ItemMatches, OffsetFits, SenderTrue, ReceivingFile, StaysKnown
<1> QED
  BY <1>2, <1>11, <1>12 DEF SendToSender

\* Opening the file keeps the two ends in step.
LEMMA OpenOutputKeepsTInv ==
  ASSUME IInv, TInv, StaysKnown, OpenOutput PROVE TInv'
<1>1. Conversation /\ ItemMatches
  BY DEF IInv, TInv
<1>2. /\ UNCHANGED <<senderVars, toReceiver, toSender, broken>>
      /\ receiverPc = "open" /\ receiverPc' = "data"
      /\ UNCHANGED <<receiveItem, fileInfo, receivedSize>>
  BY DEF OpenOutput, net
<1>3. ReceiverPlace' = ReceiverPlace
  BY <1>2 DEF ReceiverPlace
<1>4. Conversation'
  BY <1>1, <1>2, <1>3, ReceiverSilent DEF Live
<1>5. ItemMatches' /\ OffsetFits'
  BY <1>1, <1>2 DEF ItemMatches, OffsetFits, ReceivingFile, senderVars
<1> QED
  BY <1>2, <1>4, <1>5, ReceiverKeeps DEF TInv

\* Reading a chunk keeps the two ends in step.
LEMMA ReceiveDataKeepsTInv ==
  ASSUME IInv, TInv, StaysKnown, ReceiveData PROVE TInv'
<1> DEFINE total == receivedSize + Len(Head(toReceiver).bytes)
<1>1. TypeOK /\ Conversation /\ ItemMatches
  BY DEF IInv, TInv
<1>2. /\ UNCHANGED <<senderVars, toSender, broken>>
      /\ receiverPc = "data"
      /\ toReceiver # <<>> /\ Head(toReceiver).type = "DATA"
      /\ \/ ReceiverEnds("size")
         \/ /\ receivedSize' = total /\ receiverPc' \in {"record", "data"}
            /\ toReceiver' = Tail(toReceiver)
            /\ UNCHANGED <<receiveItem, fileInfo>>
  BY DEF ReceiveData, NextIs
<1>3. CASE ReceiverEnds("size")
  BY <1>2, <1>3, ReceiverGone DEF ReceiverEnds
<1>4. CASE /\ receivedSize' = total /\ receiverPc' \in {"record", "data"}
           /\ toReceiver' = Tail(toReceiver)
           /\ UNCHANGED <<receiveItem, fileInfo>>
  <2>1. /\ ReceiverPlace = InFile(receiveItem, receivedSize)
        /\ ReceiverPlace' = InFile(receiveItem, total)
    BY <1>2, <1>4 DEF ReceiverPlace
  <2>2. \A c \in Place : Leads(Seen, ReceiverPlace, Head(toReceiver), c)
                           => c = ReceiverPlace'
    BY <1>2, <2>1, FromFile, PacketTypes
  <2>3. Conversation'
    BY <1>1, <1>2, <1>4, <2>2, ReceiverReads DEF Live
  <2>4. ItemMatches' /\ OffsetFits'
    BY <1>1, <1>2, <1>4 DEF ItemMatches, OffsetFits, ReceivingFile, senderVars
  <2> QED
    BY <1>2, <2>3, <2>4, ReceiverKeeps DEF TInv
<1> QED
  BY <1>2, <1>3, <1>4

\* Recording the offset keeps the two ends in step.
LEMMA UpdateOffsetKeepsTInv ==
  ASSUME IInv, TInv, StaysKnown, UpdateOffset PROVE TInv'
<1>1. Conversation /\ ItemMatches
  BY DEF IInv, TInv
<1>2. /\ UNCHANGED <<senderVars, toReceiver, toSender, broken>>
      /\ receiverPc = "record" /\ receiverPc' = "data"
      /\ UNCHANGED <<receiveItem, fileInfo, receivedSize>>
  BY DEF UpdateOffset, net
<1>3. ReceiverPlace' = ReceiverPlace
  BY <1>2 DEF ReceiverPlace
<1>4. Conversation'
  BY <1>1, <1>2, <1>3, ReceiverSilent DEF Live
<1>5. ItemMatches' /\ OffsetFits'
  BY <1>1, <1>2 DEF ItemMatches, OffsetFits, ReceivingFile, senderVars
<1> QED
  BY <1>2, <1>4, <1>5, ReceiverKeeps DEF TInv

\* Reading the end of a file keeps the two ends in step.
LEMMA ReceiveFileEndKeepsTInv ==
  ASSUME IInv, TInv, StaysKnown, ReceiveFileEnd PROVE TInv'
<1>1. TypeOK /\ Conversation /\ ItemMatches
  BY DEF IInv, TInv
<1>2. /\ UNCHANGED <<senderVars, toSender, broken>>
      /\ receiverPc = "data" /\ receiverPc' = "verify"
      /\ toReceiver # <<>> /\ Head(toReceiver).type = "FILE_END"
      /\ toReceiver' = Tail(toReceiver)
      /\ UNCHANGED <<receiveItem, fileInfo>>
  BY DEF ReceiveFileEnd, NextIs, disks
<1>3. /\ ReceiverPlace = InFile(receiveItem, receivedSize)
      /\ ReceiverPlace' = InTask(receiveItem + 1)
  BY <1>2 DEF ReceiverPlace
<1>4. \A c \in Place : Leads(Seen, ReceiverPlace, Head(toReceiver), c)
                         => c = ReceiverPlace'
  BY <1>2, <1>3, FromFile, PacketTypes
<1>5. Conversation'
  BY <1>1, <1>2, <1>4, ReceiverReads DEF Live
<1>6. ItemMatches' /\ OffsetFits'
  BY <1>1, <1>2 DEF ItemMatches, OffsetFits, ReceivingFile, senderVars
<1> QED
  BY <1>2, <1>5, <1>6, ReceiverKeeps DEF TInv

\* On to the next item, from a file that has been received.
LEMMA NextFileKeepsTInv ==
  ASSUME TInv, StaysKnown, NextFile, receiverPc \in {"verify", "clear"},
         UNCHANGED <<senderVars, toSender, broken>>
  PROVE  TInv'
<1>1. /\ receiverPc' = "task" /\ receiveItem' = receiveItem + 1
      /\ UNCHANGED toReceiver
  BY DEF NextFile
<1>2. ReceiverPlace' = ReceiverPlace
  BY <1>1 DEF ReceiverPlace
<1>3. Conversation'
  BY <1>1, <1>2, ReceiverSilent DEF Live, TInv
<1>4. ItemMatches' /\ OffsetFits'
  BY <1>1 DEF TInv, ItemMatches, OffsetFits, ReceivingFile, senderVars
<1> QED
  BY <1>3, <1>4, ReceiverKeeps DEF TInv

\* Verifying the file keeps the two ends in step.
LEMMA VerifyFileKeepsTInv ==
  ASSUME IInv, TInv, StaysKnown, VerifyFile PROVE TInv'
<1>1. Conversation /\ ItemMatches
  BY DEF TInv
<1>2. /\ UNCHANGED <<senderVars, toSender, broken>>
      /\ receiverPc = "verify"
      /\ \/ ReceiverEnds("size")
         \/ ReceiverEnds("checksum")
         \/ /\ receiverPc' = "clear"
            /\ UNCHANGED <<receiveItem, fileInfo, toReceiver>>
         \/ NextFile
  BY DEF VerifyFile
<1>3. CASE ReceiverEnds("size") \/ ReceiverEnds("checksum")
  BY <1>2, <1>3, ReceiverGone DEF ReceiverEnds
<1>4. CASE receiverPc' = "clear" /\ UNCHANGED <<receiveItem, fileInfo, toReceiver>>
  <2>1. ReceiverPlace' = ReceiverPlace
    BY <1>2, <1>4 DEF ReceiverPlace
  <2>2. Conversation'
    BY <1>1, <1>2, <1>4, <2>1, ReceiverSilent DEF Live
  <2>3. ItemMatches' /\ OffsetFits'
    BY <1>1, <1>2, <1>4 DEF ItemMatches, OffsetFits, ReceivingFile, senderVars
  <2> QED
    BY <1>2, <2>2, <2>3, ReceiverKeeps DEF TInv
<1>5. CASE NextFile
  BY <1>2, <1>5, NextFileKeepsTInv
<1> QED
  BY <1>2, <1>3, <1>4, <1>5

\* The receiver's steps together.
LEMMA ReceiverStepKeepsTInv ==
  ASSUME IInv, TInv, StaysKnown, ReceiverStep PROVE TInv'
<1>1. CASE ClearRecord
  BY <1>1, NextFileKeepsTInv DEF ClearRecord
<1>2. CASE ReceiveFinish \/ ReceiverNetworkError
  BY <1>2, ReceiverGone DEF ReceiveFinish, ReceiverNetworkError, ReceiverEnds, disks
<1> QED
  BY <1>1, <1>2, ReceiveHelloKeepsTInv, ReceiveOneDirectoryKeepsTInv,
     ReceiveFileInfoKeepsTInv, SendResumeAckKeepsTInv, OpenOutputKeepsTInv,
     ReceiveDataKeepsTInv, UpdateOffsetKeepsTInv, ReceiveFileEndKeepsTInv,
     VerifyFileKeepsTInv
  DEF ReceiverStep

\* The sender's steps together.
LEMMA SenderStepKeepsTInv ==
  ASSUME IInv, TInv, StaysKnown, SenderStep PROVE TInv'
<1>1. CASE SenderNetworkError
  BY <1>1, SenderEndsKeepsTInv DEF SenderNetworkError
<1> QED
  BY <1>1, SendHelloKeepsTInv, SendOneDirectoryKeepsTInv, ReadFileSizeKeepsTInv,
     HashAndAnnounceKeepsTInv, ReadResumeAckKeepsTInv, SendDataKeepsTInv,
     SendFileEndKeepsTInv, SendFinishKeepsTInv
  DEF SenderStep

-----------------------------------------------------------------------------
(* The environment. *)

\* A new connection keeps the two ends in step.
LEMMA ConnectKeepsTInv ==
  ASSUME IInv, TInv, StaysKnown, Connect PROVE TInv'
<1>1. /\ senderPc = "idle" /\ receiverPc = "accept"
      /\ senderPc' = "hello" /\ receiverPc' = "hello"
      /\ toReceiver' = <<>> /\ toSender' = <<>>
      /\ UNCHANGED <<sendItem, receiveItem>>
  BY DEF Connect
<1>2. sendItem' = 1 /\ receiveItem' = 1
  BY <1>1 DEF TInv, ItemMatches
<1>3. ReceiverPlace' = InHello /\ SenderPlace' = InHello
  BY <1>1 DEF ReceiverPlace, SenderPlace
<1>4. InHello \in Place
  BY DEF InHello, At, Place
<1>5. Conversation'
  BY <1>1, <1>3, <1>4, FollowsNothing DEF Conversation
<1>6. AckFits' /\ ItemMatches' /\ OffsetFits' /\ SenderTrue'
  BY <1>1, <1>2 DEF AckFits, ItemMatches, OffsetFits, SenderTrue, ReceivingFile, StaysKnown
<1> QED
  BY <1>5, <1>6 DEF TInv

\* A broken connection keeps the two ends in step.
LEMMA BreakKeepsTInv ==
  ASSUME IInv, TInv, StaysKnown, Break PROVE TInv'
<1>1. TypeOK /\ Conversation /\ AckFits /\ ItemMatches /\ OffsetFits /\ SenderTrue
  BY DEF IInv, TInv
<1>2. UNCHANGED <<senderVars, receiverVars>> /\ broken'
  BY DEF Break, disks
<1>3. PICK n \in 0..Len(toReceiver) : toReceiver' = Prefix(toReceiver, n)
  BY DEF Break
<1>4. PICK m \in 0..Len(toSender) : toSender' = Prefix(toSender, m)
  BY DEF Break
<1>5. UNCHANGED <<senderPc, sendItem, sendSize, sentSize, receiverPc, receiveItem,
                  fileInfo, resumeOffset, receivedSize>>
  BY <1>2 DEF senderVars, receiverVars
<1>6. Conversation'
  <2> SUFFICES ASSUME Live'
               PROVE  \E b \in Place : Follows(Seen, ReceiverPlace, toReceiver', b)
    <3>1. ReceiverPlace' = ReceiverPlace
      BY <1>5 DEF ReceiverPlace
    <3>2. ~Linked'
      BY <1>2 DEF Linked
    <3> QED
      BY <3>1, <3>2, FollowsKept DEF Conversation
  <2>1. PICK b \in Place : Follows(Seen, ReceiverPlace, toReceiver, b)
    BY <1>1, <1>5 DEF Live, Conversation
  <2>2. ReceiverPlace \in Place /\ toReceiver \in Seq(Packet)
    BY <1>1, PlaceTypes DEF TypeOK
  <2>3. PICK c \in Place : Follows(Seen, ReceiverPlace, Prefix(toReceiver, n), c)
    BY <2>1, <2>2, FollowsPrefix
  <2> QED
    BY <1>3, <2>3
<1>7. toSender' = <<>> \/ toSender' = toSender
  <2>1. CASE toSender = <<>>
    BY <1>4, <2>1 DEF Prefix
  <2>2. CASE toSender # <<>>
    <3>1. Len(toSender) = 1 /\ toSender \in Seq(Ack)
      BY <1>1, <2>2 DEF AckFits, TypeOK
    <3>2. m = 0 \/ m = 1
      BY <3>1
    <3> QED
      BY <1>4, <3>1, <3>2 DEF Prefix
  <2> QED
    BY <2>1, <2>2
<1>8. AckFits'
  BY <1>1, <1>5, <1>7 DEF AckFits
<1>9. ItemMatches' /\ OffsetFits' /\ SenderTrue'
  BY <1>1, <1>2, <1>5 DEF ItemMatches, OffsetFits, SenderTrue, ReceivingFile, StaysKnown
<1> QED
  BY <1>6, <1>8, <1>9 DEF TInv

\* Steps that touch nothing of the conversation.
LEMMA IdleStepKeepsTInv ==
  ASSUME TInv, StaysKnown, UNCHANGED <<senderVars, receiverVars, net>>
  PROVE  TInv'
<1>1. UNCHANGED <<senderPc, sendItem, sendSize, sentSize, sendResult, receiverPc, receiveItem,
                  fileInfo, resumeOffset, receivedSize, toReceiver, toSender, broken>>
  BY DEF senderVars, receiverVars, net
<1>2. ReceiverPlace' = ReceiverPlace /\ SenderPlace' = SenderPlace
  BY <1>1 DEF ReceiverPlace, SenderPlace
<1>3. (Live' <=> Live) /\ (Linked' <=> Linked)
  BY <1>1 DEF Live, Linked
<1>4. Conversation'
  BY <1>1, <1>2, <1>3, FollowsKept DEF TInv, Conversation
<1>5. AckFits' /\ ItemMatches' /\ OffsetFits' /\ SenderTrue'
  BY <1>1 DEF TInv, AckFits, ItemMatches, OffsetFits, SenderTrue, ReceivingFile, StaysKnown
<1> QED
  BY <1>4, <1>5 DEF TInv

\* The environment keeps the two ends in step, or parts them.
LEMMA EnvironmentKeepsTInv ==
  ASSUME IInv, TInv, StaysKnown, Environment PROVE TInv'
<1>1. CASE CancelSend \/ SourceUnreadable \/ KillSender
  BY <1>1, SenderEndsKeepsTInv DEF CancelSend, SourceUnreadable, KillSender
<1>2. CASE KillReceiver \/ StopReceiving \/ WriteFails \/ StorageFails
  <2>1. /\ UNCHANGED <<senderVars, toSender>>
        /\ receiverPc' \in {"accept", "down"} /\ receiveItem' = 1
    BY <1>2 DEF KillReceiver, StopReceiving, WriteFails, StorageFails, ReceiverEnds,
                disks
  <2> QED
    BY <2>1, ReceiverGone
<1>3. CASE \E f \in File : RemoveLeftover(f)
  BY <1>3, IdleStepKeepsTInv DEF RemoveLeftover
<1>4. CASE \E f \in File : EditSource(f)
  BY <1>4, IdleStepKeepsTInv DEF EditSource
<1> QED
  BY <1>1, <1>2, <1>3, <1>4, BreakKeepsTInv DEF Environment

\* The two ends start in step.
LEMMA InitTInv == Init => TInv
<1> SUFFICES ASSUME Init PROVE TInv
  OBVIOUS
<1>1. Conversation /\ AckFits /\ ItemMatches /\ OffsetFits /\ SenderTrue
  BY DEF Init, Conversation, Live, AckFits, ItemMatches, OffsetFits, SenderTrue,
         ReceivingFile
<1> QED
  BY <1>1 DEF TInv

\* A step counts one fault at most.
LEMMA NextCounts ==
  ASSUME [Next]_vars PROVE UNCHANGED faults \/ faults' = faults + 1
BY DEF vars, Next, Connect, SenderStep, SendHello, SendOneDirectory, ReadFileSize,
       HashAndAnnounce, ReadResumeAck, SendData, SendFileEnd, SendFinish,
       SenderNetworkError, ReceiverStep, ReceiveHello, ReceiveOneDirectory,
       ReceiveFileInfo, SendResumeAck, OpenOutput, ReceiveData, UpdateOffset,
       ReceiveFileEnd, VerifyFile, ClearRecord, ReceiveFinish,
       ReceiverNetworkError, RestartReceiver, Environment, Break, CancelSend,
       SourceUnreadable, KillSender, KillReceiver, StopReceiving, WriteFails,
       StorageFails, EditSource, RemoveLeftover, Fault

\* No step makes anything more certain: what is edited counts as a fault.
LEMMA NextKept ==
  ASSUME TypeOK, [Next]_vars PROVE StaysKnown
<1>1. faults \in Nat
  BY DEF TypeOK
<1>2. UNCHANGED faults \/ faults' = faults + 1
  BY NextCounts
<1>3. UNCHANGED source \/ (MayEdit /\ faults' = faults + 1)
  BY DEF vars, disks, Next, Connect, SenderStep, SendHello, SendOneDirectory,
         ReadFileSize, HashAndAnnounce, ReadResumeAck, SendData, SendFileEnd,
         SendFinish, SenderNetworkError, SenderEnds, ReceiverStep, ReceiveHello,
         ReceiveOneDirectory, ReceiveFileInfo, SendResumeAck, OpenOutput,
         ReceiveData, UpdateOffset, ReceiveFileEnd, VerifyFile, ClearRecord,
         ReceiveFinish, ReceiverNetworkError, RestartReceiver, Environment, Break,
         CancelSend, SourceUnreadable, KillSender, KillReceiver, StopReceiving,
         WriteFails, StorageFails, EditSource, RemoveLeftover, Fault
<1> QED
  BY <1>1, <1>2, <1>3 DEF StaysKnown, Known

\* Every step keeps the two ends in step.
LEMMA NextKeepsTInv == IInv /\ TInv /\ [Next]_vars => TInv'
<1> SUFFICES ASSUME IInv, TInv, [Next]_vars PROVE TInv'
  OBVIOUS
<1>0. StaysKnown
  BY NextKept DEF IInv
<1>1. CASE UNCHANGED vars
  BY <1>1, <1>0, IdleStepKeepsTInv DEF vars, disks
<1>2. CASE RestartReceiver
  <2>1. /\ UNCHANGED <<senderVars, toSender>>
        /\ receiverPc' = "accept" /\ receiveItem' = 1
    BY <1>2 DEF RestartReceiver, disks, net, TInv, ItemMatches
  <2> QED
    BY <1>0, <2>1, ReceiverGone
<1> QED
  BY <1>1, <1>2, <1>0, ConnectKeepsTInv, SenderStepKeepsTInv, ReceiverStepKeepsTInv,
     EnvironmentKeepsTInv
  DEF Next

\* The two ends stay in step: UnexpectedPacket and InvalidResumeOffset are
\* never raised between these two programs, whatever breaks or is edited
\* (Receiver.cpp 41-46, 120, 169-190; Sender.cpp 55-66).
THEOREM StaysInStep == Spec => []InStep
<1>1. Spec => [](IInv /\ TInv)
  BY InitIInv, InitTInv, NextKeepsTInv, SpecIInv, PTL DEF Spec
<1> QED
  BY <1>1, InvariantInStep, PTL

-----------------------------------------------------------------------------
(* Success, and the records of a receive under way. *)

\* The files before the one whose turn it is have been checked, all of them
\* when the receive has succeeded.
Checked ==
  /\ \A f \in File : f < receiveItem => verified[f] # NoVersion
  /\ receiverPc = "clear" => verified[receiveItem] # NoVersion
  /\ receiveResult = "ok" =>
       receiverPc = "accept" /\ \A f \in File : verified[f] # NoVersion

\* The record covers what the receiver counts as received, except while it is
\* being brought up to date.
Recorded ==
  (EnableResume /\ receiverPc \in {"ack", "open", "data"}) =>
    receivedSize <= records[fileInfo]

CInv == Checked /\ Recorded

\* Nothing is checked, recorded or reported at the start.
LEMMA InitCInv == Init => CInv
<1> SUFFICES ASSUME Init PROVE CInv
  OBVIOUS
<1>1. \A f \in File : ~(f < 1)
  BY ConstantsAssumption DEF File
<1> QED
  BY <1>1 DEF Init, CInv, Checked, Recorded

\* A step that leaves the receiver, its records and its certificates alone.
LEMMA QuietStepKeepsCInv ==
  ASSUME CInv, UNCHANGED <<records, verified, receiverVars>>
  PROVE  CInv'
BY DEF CInv, Checked, Recorded, receiverVars

\* The receiver leaves without success, or restarts; a file's certificate may
\* go with the file.
LEMMA LeavingKeepsCInv ==
  ASSUME receiverPc' \in {"accept", "down"}, receiveItem' = 1, receiveResult' # "ok"
  PROVE  CInv'
<1>1. \A f \in File : ~(f < 1)
  BY ConstantsAssumption DEF File
<1> QED
  BY <1>1 DEF CInv, Checked, Recorded

\* A restart, or the wait for the next sender.
LEMMA RestartKeepsCInv ==
  ASSUME IInv, TInv, CInv, RestartReceiver PROVE CInv'
<1>1. receiveResult # "ok"
  BY DEF RestartReceiver, CInv, Checked
<1> QED
  BY <1>1, LeavingKeepsCInv DEF RestartReceiver, TInv, ItemMatches

\* A new connection forgets the result of the last.
LEMMA ConnectKeepsCInv ==
  ASSUME CInv, Connect PROVE CInv'
BY DEF Connect, disks, CInv, Checked, Recorded

\* A step of the receiver within an item.
LEMMA WithinItemKeepsCInv ==
  ASSUME CInv, UNCHANGED <<verified, receiveItem, receiveResult>>,
         receiverPc' \notin {"accept", "clear"}, receiveResult # "ok", Recorded'
  PROVE  CInv'
BY DEF CInv, Checked

\* On to the next item, when this one is a directory or has been checked.
LEMMA NextItemKeepsCInv ==
  ASSUME TypeOK, CInv, receiverPc' = "task", receiveItem' = receiveItem + 1,
         UNCHANGED receiveResult, receiveResult # "ok",
         \A f \in File : f < receiveItem => verified'[f] = verified[f],
         receiveItem \in File => verified'[receiveItem] # NoVersion
  PROVE  CInv'
<1>1. receiveItem \in Nat /\ \A f \in File : f \in Nat
  BY ConstantsAssumption DEF TypeOK, EndOfTask, File
<1>2. \A f \in File : f < receiveItem + 1 => f < receiveItem \/ f = receiveItem
  BY <1>1
<1>3. \A f \in File : f < receiveItem' => verified'[f] # NoVersion
  BY <1>2 DEF CInv, Checked
<1> QED
  BY <1>3 DEF CInv, Checked, Recorded

\* The offset the receiver trusts is one it recorded.
LEMMA TrustedOffsetRecorded ==
  ASSUME TypeOK, NEW i \in FileInfos
  PROVE  TrustedResumeOffset(i) <= records[i]
<1>1. i.size \in Nat /\ records[i] \in Nat /\ i.file \in File
  BY ConstantsAssumption DEF TypeOK, FileInfos, Sizes
<1>2. ExistingFileSize(i.file) \in Nat
  <2>1. disk[i.file] = Absent \/ Len(disk[i.file]) \in Nat
    BY <1>1 DEF TypeOK
  <2> QED
    BY <2>1 DEF ExistingFileSize
<1> QED
  BY <1>1, <1>2 DEF TrustedResumeOffset, Minimum

\* A file is passed only when it was checked, a packet only when recorded.
LEMMA ReceiverStepKeepsCInv ==
  ASSUME IInv, TInv, CInv, ReceiverStep PROVE CInv'
<1>1. TypeOK /\ ReceiverInFile /\ ItemMatches /\ OffsetFits /\ Checked /\ Recorded
  BY DEF IInv, TInv, CInv
<1>2. receiverPc # "accept" => receiveResult # "ok"
  BY <1>1 DEF Checked
<1>3. CASE ReceiveHello
  <2>1. Recorded' /\ receiverPc' = "task"
    BY <1>3 DEF ReceiveHello, Recorded
  <2> QED
    BY <1>2, <1>3, <2>1, WithinItemKeepsCInv DEF ReceiveHello, disks
<1>4. CASE ReceiveOneDirectory
  <2>1. receiveItem \notin File
    BY <1>4, ConstantsAssumption DEF ReceiveOneDirectory, Dir, File
  <2>2. receiverPc = "task" /\ UNCHANGED verified
    BY <1>4 DEF ReceiveOneDirectory
  <2>3. CASE ReceiverEnds("filesystem")
    BY <2>3, LeavingKeepsCInv DEF ReceiverEnds
  <2>4. CASE receiveItem' = receiveItem + 1 /\ UNCHANGED <<receiverPc, receiveResult>>
    BY <1>1, <1>2, <2>1, <2>2, <2>4, NextItemKeepsCInv DEF CInv
  <2> QED
    BY <1>4, <2>3, <2>4 DEF ReceiveOneDirectory
<1>5. CASE ReceiveFileInfo
  <2> DEFINE i == Head(toReceiver).info
             offset == IF EnableResume THEN TrustedResumeOffset(i) ELSE 0
  <2>1. /\ receiverPc = "task" /\ UNCHANGED <<verified, records>>
        /\ toReceiver # <<>> /\ Head(toReceiver).type = "FILE_INFO"
        /\ \/ ReceiverEnds("filesystem")
           \/ /\ fileInfo' = i /\ receivedSize' = offset /\ receiverPc' = "ack"
              /\ UNCHANGED <<receiveItem, receiveResult>>
    BY <1>5 DEF ReceiveFileInfo, NextIs, disks
  <2>2. CASE ReceiverEnds("filesystem")
    BY <2>2, LeavingKeepsCInv DEF ReceiverEnds
  <2>3. CASE /\ fileInfo' = i /\ receivedSize' = offset /\ receiverPc' = "ack"
             /\ UNCHANGED <<receiveItem, receiveResult>>
    <3>1. Head(toReceiver) \in Packet
      BY <1>1, <2>1 DEF TypeOK
    <3>2. i \in FileInfos
      BY <2>1, <3>1, PacketFields
    <3>3. EnableResume => offset <= records[i]
      BY <1>1, <3>2, TrustedOffsetRecorded
    <3> HIDE DEF i, offset
    <3>4. Recorded'
      BY <2>1, <2>3, <3>3 DEF Recorded
    <3> QED
      BY <1>2, <2>1, <2>3, <3>4, WithinItemKeepsCInv
  <2> QED
    BY <2>1, <2>2, <2>3
<1>6. CASE SendResumeAck
  <2>1. Recorded' /\ receiverPc' = "open" /\ receiverPc = "ack"
    BY <1>1, <1>6 DEF SendResumeAck, Recorded, disks
  <2> QED
    BY <1>2, <1>6, <2>1, WithinItemKeepsCInv DEF SendResumeAck, disks
<1>7. CASE OpenOutput
  <2>1. /\ receiverPc = "open" /\ receiverPc' = "data"
        /\ UNCHANGED <<receiveItem, receiveResult, records, fileInfo, receivedSize>>
        /\ verified' = [verified EXCEPT ![fileInfo.file] = NoVersion]
    BY <1>7 DEF OpenOutput
  <2>2. fileInfo.file = receiveItem /\ receiveItem \in File
    BY <1>1, <2>1 DEF ItemMatches, ReceiverInFile, ReceivingFile
  <2>3. \A f \in File : f < receiveItem => verified'[f] = verified[f]
    <3>1. \A f \in File : f < receiveItem => f # receiveItem
      BY <2>2, ConstantsAssumption DEF File
    <3> QED
      BY <1>1, <2>1, <2>2, <3>1 DEF TypeOK
  <2>4. Recorded'
    BY <1>1, <2>1 DEF Recorded
  <2> QED
    BY <1>1, <1>2, <2>1, <2>3, <2>4 DEF CInv, Checked
<1>8. CASE ReceiveData
  <2>1. /\ receiverPc = "data" /\ UNCHANGED verified
        /\ \/ ReceiverEnds("size")
           \/ /\ receiverPc' = (IF EnableResume THEN "record" ELSE "data")
              /\ UNCHANGED <<receiveItem, receiveResult>>
    BY <1>8 DEF ReceiveData
  <2>2. CASE ReceiverEnds("size")
    BY <2>2, LeavingKeepsCInv DEF ReceiverEnds
  <2>3. CASE /\ receiverPc' = (IF EnableResume THEN "record" ELSE "data")
             /\ UNCHANGED <<receiveItem, receiveResult>>
    <3>1. Recorded'
      BY <2>3 DEF Recorded
    <3> QED
      BY <1>2, <2>1, <2>3, <3>1, WithinItemKeepsCInv
  <2> QED
    BY <2>1, <2>2, <2>3
<1>9. CASE UpdateOffset
  <2>1. /\ receiverPc = "record" /\ receiverPc' = "data"
        /\ records' = [records EXCEPT ![fileInfo] = receivedSize]
        /\ UNCHANGED <<verified, receiveItem, receiveResult, fileInfo, receivedSize>>
    BY <1>9 DEF UpdateOffset, RecordAfterWrite
  <2>2. fileInfo \in FileInfos /\ receivedSize \in Nat
    BY <1>1, <2>1 DEF ReceiverInFile, ReceivingFile, TypeOK
  <2>3. records'[fileInfo] = receivedSize
    BY <1>1, <2>1, <2>2 DEF TypeOK
  <2>4. Recorded'
    BY <2>1, <2>2, <2>3 DEF Recorded
  <2> QED
    BY <1>2, <2>1, <2>4, WithinItemKeepsCInv
<1>10. CASE ReceiveFileEnd
  <2>1. Recorded' /\ receiverPc' = "verify" /\ receiverPc = "data"
    BY <1>10 DEF ReceiveFileEnd, Recorded
  <2> QED
    BY <1>2, <1>10, <2>1, WithinItemKeepsCInv DEF ReceiveFileEnd, disks
<1>11. CASE VerifyFile
  <2>1. receiverPc = "verify"
    BY <1>11 DEF VerifyFile
  <2>2. CASE ReceiverEnds("size") \/ ReceiverEnds("checksum")
    BY <2>2, LeavingKeepsCInv DEF ReceiverEnds
  <2>3. CASE verified' = [verified EXCEPT ![fileInfo.file] = fileInfo.hash]
    <3>1. /\ fileInfo.file = receiveItem /\ receiveItem \in File
          /\ fileInfo \in FileInfos
      BY <1>1, <2>1 DEF ItemMatches, ReceiverInFile, ReceivingFile
    <3>2. fileInfo.hash # NoVersion
      BY <3>1, ConstantsAssumption DEF FileInfos
    <3>3. verified'[receiveItem] # NoVersion
      BY <1>1, <2>3, <3>1, <3>2 DEF TypeOK
    <3>4. \A f \in File : f < receiveItem => verified'[f] = verified[f]
      <4>1. \A f \in File : f < receiveItem => f # receiveItem
        BY <3>1, ConstantsAssumption DEF File
      <4> QED
        BY <1>1, <2>3, <3>1, <4>1 DEF TypeOK
    <3>5. CASE receiverPc' = "clear" /\ UNCHANGED <<receiveItem, receiveResult>>
      BY <1>1, <1>2, <2>1, <3>3, <3>4, <3>5 DEF CInv, Checked, Recorded
    <3>6. CASE NextFile
      BY <1>1, <1>2, <2>1, <3>3, <3>4, <3>6, NextItemKeepsCInv DEF NextFile, CInv
    <3> QED
      BY <1>11, <2>2, <3>5, <3>6 DEF VerifyFile
  <2> QED
    BY <1>11, <2>2, <2>3 DEF VerifyFile
<1>12. CASE ClearRecord
  <2>1. receiverPc = "clear" /\ UNCHANGED verified /\ NextFile
    BY <1>12 DEF ClearRecord
  <2> QED
    BY <1>1, <1>2, <2>1, NextItemKeepsCInv DEF NextFile, CInv, Checked
<1>13. CASE ReceiveFinish
  <2>1. /\ receiverPc' = "accept" /\ receiveItem' = 1 /\ receiveItem = EndOfTask
        /\ UNCHANGED verified
    BY <1>13 DEF ReceiveFinish, ReceiverEnds, disks
  <2>2. \A f \in File : f < EndOfTask /\ ~(f < 1)
    BY ConstantsAssumption DEF File, EndOfTask
  <2> QED
    BY <1>1, <2>1, <2>2 DEF CInv, Checked, Recorded
<1>14. CASE ReceiverNetworkError
  BY <1>14, LeavingKeepsCInv DEF ReceiverNetworkError, ReceiverEnds
<1> QED
  BY <1>3, <1>4, <1>5, <1>6, <1>7, <1>8, <1>9, <1>10, <1>11, <1>12, <1>13, <1>14
  DEF ReceiverStep

\* The environment cannot make a receive succeed.
LEMMA EnvironmentKeepsCInv ==
  ASSUME IInv, TInv, CInv, Environment PROVE CInv'
<1>1. CASE Break \/ \E f \in File : EditSource(f)
  <2>1. UNCHANGED <<records, verified, receiverVars>>
    BY <1>1 DEF Break, EditSource, disks
  <2> QED
    BY <2>1, QuietStepKeepsCInv
<1>2. CASE CancelSend \/ SourceUnreadable \/ KillSender
  <2>1. UNCHANGED <<records, verified, receiverVars>>
    BY <1>2 DEF CancelSend, SourceUnreadable, KillSender, SenderEnds, disks
  <2> QED
    BY <2>1, QuietStepKeepsCInv
<1>3. CASE KillReceiver \/ StopReceiving \/ WriteFails \/ StorageFails
  BY <1>3, LeavingKeepsCInv DEF KillReceiver, StopReceiving, WriteFails, StorageFails,
                                ReceiverEnds
<1>4. CASE \E f \in File : RemoveLeftover(f)
  <2>1. /\ receiverPc \in {"accept", "down"} /\ receiveResult # "ok"
        /\ UNCHANGED receiverVars
    BY <1>4 DEF RemoveLeftover
  <2> QED
    BY <2>1, LeavingKeepsCInv DEF TInv, ItemMatches, receiverVars
<1> QED
  BY <1>1, <1>2, <1>3, <1>4 DEF Environment

\* Every step keeps what is known of success and of the records.
LEMMA NextKeepsCInv == IInv /\ TInv /\ CInv /\ [Next]_vars => CInv'
<1> SUFFICES ASSUME IInv, TInv, CInv, [Next]_vars PROVE CInv'
  OBVIOUS
<1>1. CASE UNCHANGED vars
  BY <1>1, QuietStepKeepsCInv DEF vars, disks
<1>2. CASE SenderStep
  <2>1. UNCHANGED <<records, verified, receiverVars>>
    BY <1>2
    DEF SenderStep, SendHello, SendOneDirectory, ReadFileSize, HashAndAnnounce,
        ReadResumeAck, SendData, SendFileEnd, SendFinish, SenderNetworkError,
        SenderEnds, disks
  <2> QED
    BY <2>1, QuietStepKeepsCInv
<1> QED
  BY <1>1, <1>2, ConnectKeepsCInv, ReceiverStepKeepsCInv, RestartKeepsCInv,
     EnvironmentKeepsCInv
  DEF Next

\* The three invariants together hold in every behaviour.
LEMMA SpecCInv == Spec => [](IInv /\ TInv /\ CInv)
BY InitIInv, InitTInv, InitCInv, NextKeepsTInv, NextKeepsCInv, SpecIInv, PTL DEF Spec

\* When a receive reports success every file of the task has been checked and
\* is complete, whatever the source files, the network and the processes did in
\* the meantime (ReceiveService.cpp 73-87).
THEOREM SuccessIsComplete == Spec => []SuccessMeansComplete
<1>1. IInv /\ CInv => SuccessMeansComplete
  BY DEF IInv, CInv, Checked, VerifiedIntact, SuccessMeansComplete
<1> QED
  BY <1>1, SpecCInv, PTL

\* Between two DATA packets the record covers every byte written
\* (Receiver.cpp 141-144).
THEOREM ProgressIsRecorded == Spec => []NoLostProgress
<1>1. IInv /\ CInv => NoLostProgress
  <2> SUFFICES ASSUME IInv, CInv, EnableResume, receiverPc = "data"
               PROVE  records[fileInfo] >= receivedSize
    BY DEF NoLostProgress
  <2>1. fileInfo \in FileInfos /\ records[fileInfo] \in Nat /\ receivedSize \in Nat
    BY DEF IInv, ReceiverInFile, ReceivingFile, TypeOK
  <2>2. receivedSize <= records[fileInfo]
    BY DEF CInv, Recorded
  <2> QED
    BY <2>1, <2>2
<1> QED
  BY <1>1, SpecCInv, PTL

-----------------------------------------------------------------------------
(* The bytes, while nobody edits a source file. *)

\* Sequences of bytes with the same elements are the same.
LEMMA SameBytes ==
  ASSUME NEW s \in Seq(Byte), NEW t \in Seq(Byte), Len(s) = Len(t),
         \A i \in 1..Len(s) : s[i] = t[i]
  PROVE  s = t
OBVIOUS

\* A prefix of a prefix is a prefix.
LEMMA PrefixOfPrefix ==
  ASSUME NEW s \in Seq(Byte), NEW m \in 0..Len(s), NEW n \in 0..m
  PROVE  Prefix(Prefix(s, m), n) = Prefix(s, n)
<1> DEFINE t == SubSeq(s, 1, m)
<1>1. t \in Seq(Byte) /\ Len(t) = m /\ \A i \in 1..m : t[i] = s[i]
  OBVIOUS
<1> HIDE DEF t
<1>2. SubSeq(t, 1, n) \in Seq(Byte) /\ Len(SubSeq(t, 1, n)) = n
      /\ \A i \in 1..n : SubSeq(t, 1, n)[i] = t[i]
  BY <1>1
<1>3. SubSeq(s, 1, n) \in Seq(Byte) /\ Len(SubSeq(s, 1, n)) = n
      /\ \A i \in 1..n : SubSeq(s, 1, n)[i] = s[i]
  OBVIOUS
<1>4. ASSUME NEW i \in 1..n PROVE SubSeq(t, 1, n)[i] = SubSeq(s, 1, n)[i]
  <2>1. i \in 1..m
    OBVIOUS
  <2> QED
    BY <1>1, <1>2, <1>3, <2>1
<1> QED
  BY <1>2, <1>3, <1>4, SameBytes DEF Prefix, t

\* The beginning of a range is a range.
LEMMA PrefixOfRange ==
  ASSUME NEW s \in Seq(Byte), NEW a \in Nat, NEW b \in a..Len(s), NEW n \in 0..(b - a)
  PROVE  Prefix(SubSeq(s, a + 1, b), n) = SubSeq(s, a + 1, a + n)
<1> DEFINE t == SubSeq(s, a + 1, b)
           u == SubSeq(s, a + 1, a + n)
<1>1. t \in Seq(Byte) /\ Len(t) = b - a /\ \A i \in 1..(b - a) : t[i] = s[a + i]
  OBVIOUS
<1>2. u \in Seq(Byte) /\ Len(u) = n /\ \A i \in 1..n : u[i] = s[a + i]
  OBVIOUS
<1> HIDE DEF t, u
<1>3. SubSeq(t, 1, n) \in Seq(Byte) /\ Len(SubSeq(t, 1, n)) = n
      /\ \A i \in 1..n : SubSeq(t, 1, n)[i] = t[i]
  BY <1>1
<1>4. ASSUME NEW i \in 1..n PROVE SubSeq(t, 1, n)[i] = u[i]
  <2>1. i \in 1..(b - a)
    OBVIOUS
  <2>2. t[i] = s[a + i] /\ u[i] = s[a + i]
    BY <1>1, <1>2, <2>1
  <2> QED
    BY <1>3, <2>2
<1> QED
  BY <1>2, <1>3, <1>4, SameBytes DEF Prefix, t, u

\* A prefix continued by what comes next is a longer prefix.
LEMMA PrefixGrows ==
  ASSUME NEW s \in Seq(Byte), NEW a \in Nat, NEW b \in a..Len(s)
  PROVE  Prefix(s, a) \o SubSeq(s, a + 1, b) = Prefix(s, b)
<1> DEFINE t == SubSeq(s, 1, a)
           u == SubSeq(s, a + 1, b)
           w == SubSeq(s, 1, b)
<1>1. t \in Seq(Byte) /\ Len(t) = a /\ \A i \in 1..a : t[i] = s[i]
  OBVIOUS
<1>2. u \in Seq(Byte) /\ Len(u) = b - a /\ \A i \in 1..(b - a) : u[i] = s[a + i]
  OBVIOUS
<1>3. w \in Seq(Byte) /\ Len(w) = b /\ \A i \in 1..b : w[i] = s[i]
  OBVIOUS
<1> HIDE DEF t, u, w
<1>4. t \o u \in Seq(Byte) /\ Len(t \o u) = b
  <2>1. a + (b - a) = b
    OBVIOUS
  <2> QED
    BY <1>1, <1>2, <2>1, BytesExist
<1>5. \A i \in 1..b : (t \o u)[i] = s[i]
  <2> TAKE i \in 1..b
  <2>1. CASE i <= a
    BY <1>1, <1>2, <2>1
  <2>2. CASE i > a
    <3>1. (t \o u)[i] = u[i - a] /\ i - a \in 1..(b - a) /\ a + (i - a) = i
      BY <1>1, <1>2, <2>2
    <3> QED
      BY <1>2, <3>1
  <2>3. i <= a \/ i > a
    OBVIOUS
  <2> QED
    BY <2>1, <2>2, <2>3, Zenon
<1> QED
  BY <1>3, <1>4, <1>5, SameBytes DEF Prefix, t, u, w

\* A whole sequence is its longest prefix, nothing its shortest.
LEMMA PrefixEnds ==
  ASSUME NEW s \in Seq(Byte)
  PROVE  Prefix(s, Len(s)) = s /\ Prefix(s, 0) = <<>>
BY DEF Prefix

\* What a file of the task holds on the sending host.
Original(f) == Content(source[f])

RightUpTo(f, n) == Prefix(disk[f], n) = Prefix(Original(f), n)

\* What was announced is what the source file is.
InfoTrue ==
  receiverPc \in ReceivingFile => fileInfo = Announced(source, receiveItem)

SkipTrue ==
  (receiverPc \in {"ack", "open"} /\ resumeOffset > 0) =>
    RightUpTo(receiveItem, resumeOffset)

\* The file being written holds what was received of the original, no more.
DiskTrue ==
  Writing => /\ disk[receiveItem] = Prefix(Original(receiveItem), receivedSize)
             /\ receivedSize <= Size[source[receiveItem]]

EndTrue ==
  receiverPc = "verify" => receivedSize = Size[source[receiveItem]]

\* A record belongs to the original, and as far as it and the file on disk
\* reach, the file is right.
RecordsNamed ==
  \A i \in FileInfos :
    records[i] > 0 => i = Announced(source, i.file) /\ records[i] <= i.size
RecordsRight ==
  \A i \in FileInfos, n \in Nat :
    (1 <= n /\ n <= records[i] /\ n <= ExistingFileSize(i.file)) =>
      RightUpTo(i.file, n)

NoMismatch == receiveResult \notin {"size", "checksum"}

BInv == /\ InfoTrue /\ SkipTrue /\ DiskTrue /\ EndTrue
        /\ RecordsNamed /\ RecordsRight /\ NoMismatch

\* A source file is a sequence of bytes of its size.
LEMMA OriginalType ==
  ASSUME TypeOK, NEW f \in File
  PROVE  /\ Original(f) \in Seq(Byte) /\ Len(Original(f)) = Size[source[f]]
         /\ Size[source[f]] \in Nat /\ source[f] \in Version
BY ContentType, ConstantsAssumption DEF TypeOK, Original

\* There are no records at the start.
LEMMA InitBInv == Init => BInv
<1> SUFFICES ASSUME Init PROVE BInv
  OBVIOUS
<1>1. \A i \in FileInfos : records[i] = 0
  BY DEF Init
<1>2. RecordsNamed /\ RecordsRight
  BY <1>1 DEF RecordsNamed, RecordsRight
<1>3. InfoTrue /\ SkipTrue /\ DiskTrue /\ EndTrue /\ NoMismatch
  BY DEF Init, InfoTrue, SkipTrue, DiskTrue, EndTrue, NoMismatch, ReceivingFile,
         Writing
<1> QED
  BY <1>2, <1>3 DEF BInv

\* Steps that change nothing the invariant speaks of.
LEMMA QuietStepKeepsBInv ==
  ASSUME BInv, UNCHANGED <<source, disk, records, receiverVars>>
  PROVE  BInv'
<1>1. UNCHANGED <<receiverPc, receiveItem, fileInfo, resumeOffset, receivedSize,
                  receiveResult>>
  BY DEF receiverVars
<1>2. InfoTrue' /\ SkipTrue' /\ DiskTrue' /\ EndTrue' /\ NoMismatch'
  BY <1>1 DEF BInv, InfoTrue, SkipTrue, DiskTrue, EndTrue, NoMismatch, Writing,
              RightUpTo, Original
<1>3. RecordsNamed' /\ RecordsRight'
  BY DEF BInv, RecordsNamed, RecordsRight, RightUpTo, Original, ExistingFileSize
<1> QED
  BY <1>2, <1>3 DEF BInv

\* Outside a file only the records and the result matter.
LEMMA OutsideKeepsBInv ==
  ASSUME receiverPc' \notin ReceivingFile, NoMismatch', RecordsNamed', RecordsRight'
  PROVE  BInv'
BY DEF BInv, InfoTrue, SkipTrue, DiskTrue, EndTrue, ReceivingFile, Writing

\* Fewer records and removed files leave the remaining records right.
LEMMA FewerRecordsStayRight ==
  ASSUME TypeOK, TypeOK', RecordsNamed, RecordsRight, UNCHANGED source,
         \A f \in File : disk'[f] = disk[f] \/ disk'[f] = Absent,
         \A i \in FileInfos : records'[i] <= records[i]
  PROVE  RecordsNamed' /\ RecordsRight'
<1>1. \A i \in FileInfos : records[i] \in Nat /\ records'[i] \in Nat /\ i.size \in Nat
                           /\ i.file \in File
  BY ConstantsAssumption DEF TypeOK, FileInfos, Sizes
<1>2. RecordsNamed'
  <2> SUFFICES ASSUME NEW i \in FileInfos, records'[i] > 0
               PROVE  i = Announced(source', i.file) /\ records'[i] <= i.size
    BY DEF RecordsNamed
  <2>1. records[i] > 0 /\ records'[i] <= records[i]
    BY <1>1
  <2>2. i = Announced(source, i.file) /\ records[i] <= i.size
    BY <2>1 DEF RecordsNamed
  <2> QED
    BY <1>1, <2>1, <2>2
<1>3. RecordsRight'
  <2> SUFFICES ASSUME NEW i \in FileInfos, NEW n \in Nat, 1 <= n, n <= records'[i],
                      n <= ExistingFileSize(i.file)'
               PROVE  RightUpTo(i.file, n)'
    BY DEF RecordsRight
  <2>1. disk'[i.file] = disk[i.file]
    <3>1. disk'[i.file] # Absent
      BY DEF ExistingFileSize
    <3> QED
      BY <1>1, <3>1
  <2>2. n <= records[i] /\ n <= ExistingFileSize(i.file)
    BY <1>1, <2>1 DEF ExistingFileSize
  <2>3. RightUpTo(i.file, n)
    BY <2>2 DEF RecordsRight
  <2> QED
    BY <2>1, <2>3 DEF RightUpTo, Original
<1> QED
  BY <1>2, <1>3

\* The file being written holds part of the original afterwards, however much.
LEMMA WrittenFileStaysRight ==
  ASSUME TypeOK, TypeOK', RecordsRight, UNCHANGED source, NEW f \in File,
         NEW m \in 0..Size[source[f]], disk'[f] = Prefix(Original(f), m),
         \A g \in File \ {f} : disk'[g] = disk[g],
         \A i \in FileInfos : i.file # f => records'[i] <= records[i]
  PROVE  RecordsRight'
<1> SUFFICES ASSUME NEW i \in FileInfos, NEW n \in Nat, 1 <= n, n <= records'[i],
                    n <= ExistingFileSize(i.file)'
             PROVE  RightUpTo(i.file, n)'
  BY DEF RecordsRight
<1>1. records[i] \in Nat /\ records'[i] \in Nat /\ i.file \in File
  BY DEF TypeOK, FileInfos
<1>2. CASE i.file = f
  <2>1. /\ Original(f) \in Seq(Byte) /\ Len(Original(f)) = Size[source[f]]
        /\ Size[source[f]] \in Nat
    BY OriginalType
  <2>2. m \in 0..Len(Original(f))
    BY <2>1
  <2>3. Len(disk'[f]) = m
    BY <2>1, <2>2, PrefixType
  <2>4. n <= m
    BY <1>2, <2>3 DEF ExistingFileSize
  <2>5. Prefix(Prefix(Original(f), m), n) = Prefix(Original(f), n)
    BY <2>1, <2>2, <2>4, PrefixOfPrefix
  <2> QED
    BY <1>2, <2>5 DEF RightUpTo, Original
<1>3. CASE i.file # f
  <2>1. disk'[i.file] = disk[i.file] /\ records'[i] <= records[i]
    BY <1>1, <1>3
  <2>2. n <= records[i] /\ n <= ExistingFileSize(i.file)
    BY <1>1, <2>1 DEF ExistingFileSize
  <2>3. RightUpTo(i.file, n)
    BY <2>2 DEF RecordsRight
  <2> QED
    BY <2>1, <2>3 DEF RightUpTo, Original
<1> QED
  BY <1>2, <1>3

\* Steps that leave disk and records alone and no file open.
LEMMA OutsideStepKeepsBInv ==
  ASSUME BInv, UNCHANGED <<source, disk, records>>, receiverPc' \notin ReceivingFile,
         NoMismatch'
  PROVE  BInv'
<1>1. RecordsNamed' /\ RecordsRight'
  BY DEF BInv, RecordsNamed, RecordsRight, RightUpTo, Original, ExistingFileSize
<1> QED
  BY <1>1, OutsideKeepsBInv

\* The DATA packet the receiver is about to read holds the next bytes.
LEMMA DataIsNext ==
  ASSUME Known, TypeOK, TInv, BInv, ReceiverInFile, receiverPc = "data",
         NextIs("DATA")
  PROVE  LET bytes == Head(toReceiver).bytes
             total == receivedSize + Len(bytes)
         IN  /\ bytes \in Seq(Byte) /\ total \in Nat
             /\ total <= Size[source[receiveItem]]
             /\ bytes = SubSeq(Original(receiveItem), receivedSize + 1, total)
<1>1. Live /\ toReceiver # <<>> /\ Head(toReceiver).type = "DATA"
  BY DEF Live, NextIs
<1>2. PICK c \in Place : Leads(Seen, ReceiverPlace, Head(toReceiver), c)
  BY <1>1, HeadLeads DEF TInv
<1>3. ReceiverPlace = InFile(receiveItem, receivedSize)
  BY DEF ReceiverPlace
<1>4. Head(toReceiver) \in Packet
  BY <1>1 DEF TypeOK
<1>5. Head(toReceiver).bytes \in Seq(Byte) /\ receivedSize \in Nat
  BY <1>1, <1>4, PacketFields DEF TypeOK
<1>6. receivedSize + Len(Head(toReceiver).bytes) \in Nat
  BY <1>5
<1>7. Head(toReceiver) # FileEnd
  BY <1>1, PacketTypes
<1>8. /\ receivedSize + Len(Head(toReceiver).bytes) <= Size[source[receiveItem]]
      /\ Head(toReceiver).bytes
           = SubSeq(Content(source[receiveItem]), receivedSize + 1,
                    receivedSize + Len(Head(toReceiver).bytes))
  BY <1>2, <1>3, <1>7, FromFile DEF Seen
<1> QED
  BY <1>5, <1>6, <1>8 DEF Original

\* Writing a part of those bytes leaves a longer part of the original.
LEMMA AppendedIsRight ==
  ASSUME Known, TypeOK, TInv, BInv, ReceiverInFile, receiverPc = "data",
         NextIs("DATA"), NEW n \in 0..Len(Head(toReceiver).bytes)
  PROVE  /\ disk[receiveItem] \o Prefix(Head(toReceiver).bytes, n)
              = Prefix(Original(receiveItem), receivedSize + n)
         /\ receivedSize + n \in 0..Size[source[receiveItem]]
<1> DEFINE bytes == Head(toReceiver).bytes
           total == receivedSize + Len(bytes)
           c     == Original(receiveItem)
<1>1. receiveItem \in File /\ receivedSize \in Nat
  BY DEF ReceiverInFile, ReceivingFile, TypeOK
<1>2. c \in Seq(Byte) /\ Len(c) = Size[source[receiveItem]] /\ Len(c) \in Nat
  BY <1>1, OriginalType
<1>3. /\ bytes \in Seq(Byte) /\ total \in Nat /\ total <= Len(c)
      /\ bytes = SubSeq(c, receivedSize + 1, total)
  BY <1>2, DataIsNext
<1>4. disk[receiveItem] = Prefix(c, receivedSize)
  BY DEF BInv, DiskTrue, Writing
<1> HIDE DEF bytes, c
<1>5. Len(bytes) \in Nat /\ n \in Nat /\ n <= Len(bytes)
  BY <1>3 DEF bytes
<1>6. /\ total \in receivedSize..Len(c) /\ n \in 0..(total - receivedSize)
      /\ receivedSize + n \in receivedSize..Len(c) /\ receivedSize + n \in Nat
  BY <1>1, <1>2, <1>3, <1>5
<1> HIDE DEF total
<1>7. Prefix(bytes, n) = SubSeq(c, receivedSize + 1, receivedSize + n)
  BY <1>1, <1>2, <1>3, <1>6, PrefixOfRange
<1>8. Prefix(c, receivedSize) \o SubSeq(c, receivedSize + 1, receivedSize + n)
        = Prefix(c, receivedSize + n)
  BY <1>1, <1>2, <1>6, PrefixGrows
<1>9. receivedSize + n \in 0..Size[source[receiveItem]]
  BY <1>1, <1>2, <1>6
<1> QED
  BY <1>4, <1>7, <1>8, <1>9 DEF bytes, c

\* The offset the receiver trusts lies within what is on its disk.
LEMMA TrustedOffsetOnDisk ==
  ASSUME TypeOK, NEW i \in FileInfos
  PROVE  TrustedResumeOffset(i) <= ExistingFileSize(i.file)
<1>1. i.size \in Nat /\ records[i] \in Nat /\ i.file \in File
  BY ConstantsAssumption DEF TypeOK, FileInfos, Sizes
<1>2. ExistingFileSize(i.file) \in Nat
  <2>1. disk[i.file] = Absent \/ Len(disk[i.file]) \in Nat
    BY <1>1 DEF TypeOK
  <2> QED
    BY <2>1 DEF ExistingFileSize
<1> QED
  BY <1>1, <1>2 DEF TrustedResumeOffset, Minimum

\* Reading the announcement of a file keeps the bytes right.
LEMMA ReceiveFileInfoKeepsBInv ==
  ASSUME Known, IInv, TInv, BInv, ReceiveFileInfo PROVE BInv'
<1> DEFINE i == Head(toReceiver).info
           offset == IF EnableResume THEN TrustedResumeOffset(i) ELSE 0
<1>1. TypeOK /\ Conversation
  BY DEF IInv, TInv
<1>2. /\ UNCHANGED <<source, disk, records>>
      /\ receiverPc = "task" /\ receiveItem \in File
      /\ toReceiver # <<>> /\ Head(toReceiver).type = "FILE_INFO"
      /\ \/ ReceiverEnds("filesystem")
         \/ /\ fileInfo' = i /\ resumeOffset' = offset /\ receivedSize' = offset
            /\ receiverPc' = "ack" /\ UNCHANGED <<receiveItem, receiveResult>>
  BY DEF ReceiveFileInfo, NextIs, disks
<1>3. CASE ReceiverEnds("filesystem")
  BY <1>2, <1>3, OutsideStepKeepsBInv DEF ReceiverEnds, ReceivingFile, NoMismatch
<1>4. CASE /\ fileInfo' = i /\ resumeOffset' = offset /\ receivedSize' = offset
           /\ receiverPc' = "ack" /\ UNCHANGED <<receiveItem, receiveResult>>
  <2>1. PICK c \in Place : Leads(Seen, ReceiverPlace, Head(toReceiver), c)
    BY <1>1, <1>2, HeadLeads DEF Live
  <2>2. ReceiverPlace = InTask(receiveItem)
    BY <1>2 DEF ReceiverPlace
  <2>3. i = Announced(source, receiveItem)
    BY <1>2, <2>1, <2>2, FromTask, PacketTypes DEF Seen
  <2>4. i.file = receiveItem
    BY <2>3 DEF Announced
  <2>5. i \in FileInfos
    <3>1. Head(toReceiver) \in Packet
      BY <1>1, <1>2 DEF TypeOK
    <3> QED
      BY <1>2, <3>1, PacketFields
  <2>6. offset > 0 => offset \in Nat /\ offset <= records[i]
                      /\ offset <= ExistingFileSize(receiveItem)
    BY <1>1, <2>4, <2>5, TrustedOffsetFits, TrustedOffsetRecorded,
       TrustedOffsetOnDisk
  <2> HIDE DEF i, offset
  <2>7. offset > 0 => RightUpTo(receiveItem, offset)
    <3>1. offset > 0 => 1 <= offset
      BY <2>6
    <3> QED
      BY <2>4, <2>5, <2>6, <3>1 DEF BInv, RecordsRight
  <2>8. InfoTrue' /\ SkipTrue'
    BY <1>2, <1>4, <2>3, <2>7 DEF InfoTrue, SkipTrue, RightUpTo, Original
  <2>9. DiskTrue' /\ EndTrue' /\ NoMismatch'
    BY <1>4 DEF BInv, DiskTrue, EndTrue, NoMismatch, Writing
  <2>10. RecordsNamed' /\ RecordsRight'
    BY <1>2 DEF BInv, RecordsNamed, RecordsRight, RightUpTo, Original, ExistingFileSize
  <2> QED
    BY <2>8, <2>9, <2>10 DEF BInv
<1> QED
  BY <1>2, <1>3, <1>4

\* Sending the answer keeps the bytes right.
LEMMA SendResumeAckKeepsBInv ==
  ASSUME BInv, SendResumeAck PROVE BInv'
<1>1. /\ UNCHANGED <<source, disk, records, receiveItem, fileInfo, resumeOffset,
                     receivedSize, receiveResult>>
      /\ receiverPc = "ack" /\ receiverPc' = "open"
  BY DEF SendResumeAck, disks
<1>2. InfoTrue' /\ SkipTrue' /\ DiskTrue' /\ EndTrue' /\ NoMismatch'
  BY <1>1 DEF BInv, InfoTrue, SkipTrue, DiskTrue, EndTrue, NoMismatch, Writing,
              RightUpTo, Original, ReceivingFile
<1>3. RecordsNamed' /\ RecordsRight'
  BY <1>1 DEF BInv, RecordsNamed, RecordsRight, RightUpTo, Original, ExistingFileSize
<1> QED
  BY <1>2, <1>3 DEF BInv

\* The file is cut to the offset that was confirmed.
LEMMA OpenOutputKeepsBInv ==
  ASSUME Known, IInv, IInv', TInv, BInv, OpenOutput PROVE BInv'
<1>1. /\ TypeOK /\ TypeOK' /\ ReceiverInFile /\ ItemMatches /\ OffsetFits
      /\ OffsetOnDisk
  BY DEF IInv, TInv
<1>2. /\ UNCHANGED <<source, records, receiveItem, fileInfo, resumeOffset,
                     receivedSize, receiveResult>>
      /\ receiverPc = "open" /\ receiverPc' = "data"
      /\ disk' = [disk EXCEPT ![fileInfo.file] = Kept(disk[fileInfo.file])]
  BY DEF OpenOutput
<1>3. fileInfo.file = receiveItem /\ receiveItem \in File
  BY <1>1, <1>2 DEF ItemMatches, ReceiverInFile, ReceivingFile
<1>4. fileInfo = Announced(source, receiveItem)
  BY <1>2 DEF BInv, InfoTrue, ReceivingFile
<1>5. /\ Original(receiveItem) \in Seq(Byte) /\ Size[source[receiveItem]] \in Nat
      /\ Len(Original(receiveItem)) = Size[source[receiveItem]]
  BY <1>1, <1>3, OriginalType
<1>6. /\ resumeOffset \in Nat /\ receivedSize = resumeOffset
      /\ resumeOffset <= Size[source[receiveItem]]
  BY <1>1, <1>2, <1>4 DEF TypeOK, OffsetFits, Announced
<1>7. Kept(disk[receiveItem]) = Prefix(Original(receiveItem), resumeOffset)
  <2>1. CASE resumeOffset > 0
    BY <1>2, <2>1 DEF Kept, BInv, SkipTrue, RightUpTo
  <2>2. CASE resumeOffset = 0
    BY <1>5, <2>2, PrefixEnds DEF Kept
  <2> QED
    BY <1>6, <2>1, <2>2
<1>8. /\ disk'[receiveItem] = Prefix(Original(receiveItem), resumeOffset)
      /\ \A g \in File \ {receiveItem} : disk'[g] = disk[g]
  BY <1>1, <1>2, <1>3, <1>7 DEF TypeOK
<1>9. RecordsRight'
  <2>1. resumeOffset \in 0..Size[source[receiveItem]]
    BY <1>5, <1>6
  <2>2. \A i \in FileInfos : records'[i] <= records[i]
    BY <1>1, <1>2 DEF TypeOK
  <2> QED
    BY <1>1, <1>2, <1>3, <1>8, <2>1, <2>2, WrittenFileStaysRight DEF BInv
<1>10. DiskTrue'
  BY <1>2, <1>6, <1>8 DEF DiskTrue, Original
<1>11. InfoTrue' /\ SkipTrue' /\ EndTrue' /\ NoMismatch' /\ RecordsNamed'
  BY <1>2 DEF BInv, InfoTrue, SkipTrue, EndTrue, NoMismatch, RecordsNamed, ReceivingFile
<1> QED
  BY <1>9, <1>10, <1>11 DEF BInv

\* Reading a chunk keeps the bytes right.
LEMMA ReceiveDataKeepsBInv ==
  ASSUME Known, IInv, IInv', TInv, BInv, ReceiveData PROVE BInv'
<1> DEFINE bytes == Head(toReceiver).bytes
           total == receivedSize + Len(bytes)
<1>1. TypeOK /\ TypeOK' /\ ReceiverInFile /\ ItemMatches
  BY DEF IInv, TInv
<1>2. /\ UNCHANGED <<source, records>>
      /\ receiverPc = "data" /\ NextIs("DATA")
      /\ \/ total > fileInfo.size
         \/ /\ disk' = [disk EXCEPT ![fileInfo.file] = disk[fileInfo.file] \o bytes]
            /\ receivedSize' = total /\ receiverPc' \in {"record", "data"}
            /\ UNCHANGED <<receiveItem, fileInfo, resumeOffset, receiveResult>>
  BY DEF ReceiveData
<1>3. fileInfo.file = receiveItem /\ receiveItem \in File
  BY <1>1, <1>2 DEF ItemMatches, ReceiverInFile, ReceivingFile
<1>4. fileInfo = Announced(source, receiveItem)
  BY <1>2 DEF BInv, InfoTrue, ReceivingFile
<1>5. /\ bytes \in Seq(Byte) /\ total \in Nat
      /\ total <= Size[source[receiveItem]]
  BY <1>1, <1>2, DataIsNext
<1>6. Size[source[receiveItem]] \in Nat /\ fileInfo.size = Size[source[receiveItem]]
  BY <1>1, <1>3, <1>4, OriginalType DEF Announced
<1>7. /\ disk[receiveItem] \o bytes = Prefix(Original(receiveItem), total)
      /\ total \in 0..Size[source[receiveItem]]
  <2>1. Len(bytes) \in 0..Len(bytes) /\ Prefix(bytes, Len(bytes)) = bytes
    BY <1>5, PrefixEnds
  <2> QED
    BY <1>1, <1>2, <2>1, AppendedIsRight
<1> HIDE DEF bytes, total
<1>8. /\ disk' = [disk EXCEPT ![fileInfo.file] = disk[fileInfo.file] \o bytes]
      /\ receivedSize' = total /\ receiverPc' \in {"record", "data"}
      /\ UNCHANGED <<receiveItem, fileInfo, resumeOffset, receiveResult>>
  <2>1. ~(total > fileInfo.size)
    BY <1>5, <1>6
  <2> QED
    BY <1>2, <2>1
<1>9. /\ disk'[receiveItem] = Prefix(Original(receiveItem), total)
      /\ \A g \in File \ {receiveItem} : disk'[g] = disk[g]
  BY <1>1, <1>3, <1>7, <1>8 DEF TypeOK
<1>10. RecordsRight'
  <2>1. \A i \in FileInfos : records'[i] <= records[i]
    BY <1>1, <1>2 DEF TypeOK
  <2> QED
    BY <1>1, <1>2, <1>3, <1>7, <1>9, <2>1, WrittenFileStaysRight DEF BInv
<1>11. DiskTrue'
  BY <1>2, <1>5, <1>8, <1>9 DEF DiskTrue, Original
<1>12. InfoTrue' /\ SkipTrue' /\ EndTrue' /\ NoMismatch' /\ RecordsNamed'
  BY <1>2, <1>8
  DEF BInv, InfoTrue, SkipTrue, EndTrue, NoMismatch, RecordsNamed, ReceivingFile
<1> QED
  BY <1>10, <1>11, <1>12 DEF BInv

\* A record made or torn while one file is received names the original.
LEMMA RecordStaysNamed ==
  ASSUME TypeOK, TypeOK', RecordsNamed, UNCHANGED source,
         fileInfo = Announced(source, receiveItem), receivedSize <= fileInfo.size,
         \A i \in FileInfos : \/ records'[i] <= records[i]
                              \/ i = fileInfo /\ records'[i] <= receivedSize
  PROVE  RecordsNamed'
<1> SUFFICES ASSUME NEW i \in FileInfos, records'[i] > 0
             PROVE  i = Announced(source', i.file) /\ records'[i] <= i.size
  BY DEF RecordsNamed
<1>1. /\ records[i] \in Nat /\ records'[i] \in Nat /\ i.size \in Nat
      /\ receivedSize \in Nat
  BY ConstantsAssumption DEF TypeOK, FileInfos, Sizes
<1>2. CASE records'[i] <= records[i]
  <2>1. records[i] > 0
    BY <1>1, <1>2
  <2>2. i = Announced(source, i.file) /\ records[i] <= i.size
    BY <2>1 DEF RecordsNamed
  <2> QED
    BY <1>1, <1>2, <2>2
<1>3. CASE i = fileInfo /\ records'[i] <= receivedSize
  <2>1. i.file = receiveItem
    BY <1>3 DEF Announced
  <2>2. records'[i] <= i.size
    BY <1>1, <1>3
  <2> QED
    BY <1>3, <2>1, <2>2
<1> QED
  BY <1>2, <1>3

\* The file being written is a file of the task, announced as it is.
LEMMA WritingFacts ==
  ASSUME IInv, TInv, BInv, Writing
  PROVE  /\ receiveItem \in File /\ fileInfo \in FileInfos
         /\ fileInfo.file = receiveItem
         /\ fileInfo = Announced(source, receiveItem)
         /\ fileInfo.size = Size[source[receiveItem]]
         /\ receivedSize \in 0..Size[source[receiveItem]]
         /\ disk[receiveItem] = Prefix(Original(receiveItem), receivedSize)
         /\ Len(disk[receiveItem]) = receivedSize
<1>1. receiverPc \in ReceivingFile
  BY DEF Writing, ReceivingFile
<1>2. receiveItem \in File /\ fileInfo \in FileInfos /\ fileInfo.file = receiveItem
  BY <1>1 DEF IInv, ReceiverInFile, TInv, ItemMatches
<1>3. fileInfo = Announced(source, receiveItem)
  BY <1>1 DEF BInv, InfoTrue
<1>4. /\ disk[receiveItem] = Prefix(Original(receiveItem), receivedSize)
      /\ receivedSize <= Size[source[receiveItem]] /\ receivedSize \in Nat
  BY DEF BInv, DiskTrue, IInv, TypeOK
<1>5. /\ Original(receiveItem) \in Seq(Byte) /\ Size[source[receiveItem]] \in Nat
      /\ Len(Original(receiveItem)) = Size[source[receiveItem]]
  BY <1>2, OriginalType DEF IInv
<1>6. receivedSize \in 0..Size[source[receiveItem]]
  BY <1>4, <1>5
<1>7. Len(disk[receiveItem]) = receivedSize
  BY <1>4, <1>5, <1>6, PrefixType
<1>8. fileInfo.size = Size[source[receiveItem]]
  BY <1>3 DEF Announced
<1> QED
  BY <1>2, <1>3, <1>4, <1>6, <1>7, <1>8

\* Recording the offset keeps the bytes right.
LEMMA UpdateOffsetKeepsBInv ==
  ASSUME Known, IInv, IInv', TInv, BInv, UpdateOffset PROVE BInv'
<1>1. TypeOK /\ TypeOK'
  BY DEF IInv
<1>2. /\ UNCHANGED <<source, disk, receiveItem, fileInfo, resumeOffset,
                     receivedSize, receiveResult>>
      /\ receiverPc = "record" /\ receiverPc' = "data"
      /\ records' = [records EXCEPT ![fileInfo] = receivedSize]
  BY DEF UpdateOffset, RecordAfterWrite
<1>3. Writing
  BY <1>2 DEF Writing
<1>4. \A i \in FileInfos : \/ i # fileInfo /\ records'[i] <= records[i]
                           \/ i = fileInfo /\ records'[i] <= receivedSize
  <2>1. \A i \in FileInfos : records[i] \in Nat /\ records'[i] \in Nat
    BY <1>1 DEF TypeOK
  <2>2. \A i \in FileInfos : records'[i] = IF i = fileInfo THEN receivedSize ELSE records[i]
    BY <1>1, <1>2, <1>3, WritingFacts DEF TypeOK
  <2>3. receivedSize \in Nat
    BY <1>1 DEF TypeOK
  <2> QED
    BY <2>1, <2>2, <2>3
<1>5. RecordsNamed'
  BY <1>1, <1>2, <1>3, <1>4, WritingFacts, RecordStaysNamed DEF BInv
<1>6. RecordsRight'
  <2>1. \A i \in FileInfos : i.file # receiveItem => records'[i] <= records[i]
    BY <1>3, <1>4, WritingFacts
  <2>2. disk'[receiveItem] = Prefix(Original(receiveItem), receivedSize)
    BY <1>2, <1>3, WritingFacts
  <2> QED
    BY <1>1, <1>2, <1>3, <2>1, <2>2, WritingFacts, WrittenFileStaysRight DEF BInv
<1>7. InfoTrue' /\ SkipTrue' /\ DiskTrue' /\ EndTrue' /\ NoMismatch'
  BY <1>2 DEF BInv, InfoTrue, SkipTrue, DiskTrue, EndTrue, NoMismatch, Writing,
              Original, ReceivingFile
<1> QED
  BY <1>5, <1>6, <1>7 DEF BInv

\* FILE_END only comes when everything has.
LEMMA ReceiveFileEndKeepsBInv ==
  ASSUME Known, IInv, TInv, BInv, ReceiveFileEnd PROVE BInv'
<1>1. /\ UNCHANGED <<source, disk, records, receiveItem, fileInfo, resumeOffset,
                     receivedSize, receiveResult>>
      /\ receiverPc = "data" /\ receiverPc' = "verify"
      /\ toReceiver # <<>> /\ Head(toReceiver).type = "FILE_END"
  BY DEF ReceiveFileEnd, NextIs, disks
<1>2. PICK c \in Place : Leads(Seen, ReceiverPlace, Head(toReceiver), c)
  BY <1>1, HeadLeads DEF IInv, TInv, Live
<1>3. ReceiverPlace = InFile(receiveItem, receivedSize)
  BY <1>1 DEF ReceiverPlace
<1>4. receivedSize = Size[source[receiveItem]]
  BY <1>1, <1>2, <1>3, FromFile, PacketTypes DEF Seen
<1>5. InfoTrue' /\ SkipTrue' /\ DiskTrue' /\ EndTrue' /\ NoMismatch'
  BY <1>1, <1>4 DEF BInv, InfoTrue, SkipTrue, DiskTrue, EndTrue, NoMismatch, Writing,
                    Original, ReceivingFile
<1>6. RecordsNamed' /\ RecordsRight'
  BY <1>1 DEF BInv, RecordsNamed, RecordsRight, RightUpTo, Original, ExistingFileSize
<1> QED
  BY <1>5, <1>6 DEF BInv

\* The digest matches: the file is the original.
LEMMA VerifyFileKeepsBInv ==
  ASSUME Known, IInv, TInv, BInv, VerifyFile PROVE BInv'
<1>1. UNCHANGED <<source, disk, records>> /\ receiverPc = "verify"
  BY DEF VerifyFile
<1>2. Writing
  BY <1>1 DEF Writing
<1>3. receivedSize = fileInfo.size
  BY <1>1, <1>2, WritingFacts DEF BInv, EndTrue
<1>4. disk[fileInfo.file] = Content(fileInfo.hash)
  <2>1. /\ Original(receiveItem) \in Seq(Byte)
        /\ Len(Original(receiveItem)) = Size[source[receiveItem]]
    BY <1>2, WritingFacts, OriginalType DEF IInv
  <2>2. Prefix(Original(receiveItem), receivedSize) = Original(receiveItem)
    BY <1>2, <1>3, <2>1, WritingFacts, PrefixEnds
  <2>3. fileInfo.hash = source[receiveItem]
    BY <1>2, WritingFacts DEF Announced
  <2> QED
    BY <1>2, <2>2, <2>3, WritingFacts DEF Original
<1>5. \/ /\ receiverPc' = "clear"
         /\ UNCHANGED <<receiveItem, fileInfo, resumeOffset, receivedSize, receiveResult>>
      \/ NextFile
  BY <1>3, <1>4 DEF VerifyFile, DigestMatches
<1>6. CASE NextFile
  BY <1>1, <1>6, OutsideStepKeepsBInv DEF NextFile, ReceivingFile, BInv, NoMismatch
<1>7. CASE /\ receiverPc' = "clear"
           /\ UNCHANGED <<receiveItem, fileInfo, resumeOffset, receivedSize, receiveResult>>
  <2>1. InfoTrue' /\ SkipTrue' /\ DiskTrue' /\ EndTrue' /\ NoMismatch'
    BY <1>1, <1>7 DEF BInv, InfoTrue, SkipTrue, DiskTrue, EndTrue, NoMismatch, Writing,
                      ReceivingFile
  <2>2. RecordsNamed' /\ RecordsRight'
    BY <1>1 DEF BInv, RecordsNamed, RecordsRight, RightUpTo, Original, ExistingFileSize
  <2> QED
    BY <2>1, <2>2 DEF BInv
<1> QED
  BY <1>5, <1>6, <1>7

\* Clearing the record keeps the bytes right.
LEMMA ClearRecordKeepsBInv ==
  ASSUME IInv, IInv', BInv, ClearRecord PROVE BInv'
<1>1. TypeOK /\ TypeOK'
  BY DEF IInv
<1>2. /\ UNCHANGED <<source, disk>> /\ receiverPc' = "task" /\ UNCHANGED receiveResult
      /\ records' = [records EXCEPT ![fileInfo] = 0]
  BY DEF ClearRecord, NextFile
<1>3. \A i \in FileInfos : records'[i] <= records[i]
  <2>1. \A i \in FileInfos : records[i] \in Nat
    BY <1>1 DEF TypeOK
  <2>2. \A i \in FileInfos : records'[i] = records[i] \/ records'[i] = 0
    BY <1>1, <1>2 DEF TypeOK
  <2> QED
    BY <2>1, <2>2
<1>4. RecordsNamed' /\ RecordsRight'
  BY <1>1, <1>2, <1>3, FewerRecordsStayRight DEF BInv
<1> QED
  BY <1>2, <1>4, OutsideKeepsBInv DEF ReceivingFile, BInv, NoMismatch

\* A loss cuts the file somewhere and may tear the state file.
LEMMA LossKeepsBInv ==
  ASSUME Known, IInv, IInv', TInv, BInv, KillReceiver \/ StorageFails
  PROVE  BInv'
<1>1. TypeOK /\ TypeOK' /\ RecordsNamed /\ RecordsRight
  BY DEF IInv, BInv
<1>2. /\ UNCHANGED source /\ receiverPc' \in {"accept", "down"}
      /\ receiveResult' \in {"killed", "filesystem"}
      /\ \/ Writing /\ \E n \in resumeOffset..Len(disk[fileInfo.file]) :
              disk' = [disk EXCEPT ![fileInfo.file] = Prefix(disk[fileInfo.file], n)]
         \/ ~Writing /\ UNCHANGED disk
      /\ \/ UNCHANGED records
         \/ receiverPc = "record" /\ TornSave(RecordAfterWrite)
         \/ receiverPc = "clear" /\ TornSave([records EXCEPT ![fileInfo] = 0])
  BY DEF KillReceiver, StorageFails, LoseBuffered, LoseRecords, ReceiverEnds, Writing
<1>3. \A i \in FileInfos : records[i] \in Nat /\ records'[i] \in Nat
  BY <1>1 DEF TypeOK
<1>4. \A new : TornSave(new) => \A i \in FileInfos : records'[i] = new[i] \/ records'[i] = 0
  BY DEF TornSave
<1>5. \A i \in FileInfos :
        \/ records'[i] <= records[i]
        \/ Writing /\ i = fileInfo /\ records'[i] <= receivedSize
  <2>1. CASE UNCHANGED records
    BY <1>3, <2>1
  <2>2. CASE receiverPc = "record" /\ TornSave(RecordAfterWrite)
    <3>1. Writing /\ receivedSize \in Nat
      BY <1>1, <2>2 DEF Writing, TypeOK
    <3>2. \A i \in FileInfos : RecordAfterWrite[i] =
                                 IF i = fileInfo THEN receivedSize ELSE records[i]
      BY <1>1 DEF RecordAfterWrite, TypeOK
    <3> QED
      BY <1>3, <1>4, <2>2, <3>1, <3>2
  <2>3. CASE receiverPc = "clear" /\ TornSave([records EXCEPT ![fileInfo] = 0])
    <3>1. \A i \in FileInfos : [records EXCEPT ![fileInfo] = 0][i] \in {0, records[i]}
      BY <1>1 DEF TypeOK
    <3>2. \A i \in FileInfos : records'[i] \in {0, records[i]}
      BY <1>4, <2>3, <3>1
    <3> QED
      BY <1>3, <3>2
  <2> QED
    BY <1>2, <2>1, <2>2, <2>3
<1>6. CASE ~Writing
  <2>1. UNCHANGED disk /\ \A i \in FileInfos : records'[i] <= records[i]
    BY <1>2, <1>5, <1>6
  <2>2. RecordsNamed' /\ RecordsRight'
    BY <1>1, <1>2, <2>1, FewerRecordsStayRight
  <2> QED
    BY <1>2, <2>2, OutsideKeepsBInv DEF ReceivingFile, NoMismatch
<1>7. CASE Writing
  <2>1. PICK n \in resumeOffset..Len(disk[fileInfo.file]) :
          disk' = [disk EXCEPT ![fileInfo.file] = Prefix(disk[fileInfo.file], n)]
    BY <1>2, <1>7
  <2>2. /\ receiveItem \in File /\ fileInfo.file = receiveItem
        /\ fileInfo = Announced(source, receiveItem)
        /\ receivedSize \in 0..Size[source[receiveItem]]
        /\ fileInfo.size = Size[source[receiveItem]]
        /\ disk[receiveItem] = Prefix(Original(receiveItem), receivedSize)
        /\ Len(disk[receiveItem]) = receivedSize
    BY <1>7, WritingFacts
  <2>3. /\ Original(receiveItem) \in Seq(Byte) /\ Size[source[receiveItem]] \in Nat
        /\ Len(Original(receiveItem)) = Size[source[receiveItem]]
        /\ resumeOffset \in Nat
    BY <1>1, <2>2, OriginalType DEF TypeOK
  <2>4. n \in 0..receivedSize /\ n \in 0..Size[source[receiveItem]]
    BY <2>1, <2>2, <2>3
  <2>5. Prefix(disk[receiveItem], n) = Prefix(Original(receiveItem), n)
    BY <2>2, <2>3, <2>4, PrefixOfPrefix
  <2>6. /\ disk'[receiveItem] = Prefix(Original(receiveItem), n)
        /\ \A g \in File \ {receiveItem} : disk'[g] = disk[g]
    BY <1>1, <2>1, <2>2, <2>5 DEF TypeOK
  <2>7. \A i \in FileInfos : i.file # receiveItem => records'[i] <= records[i]
    BY <1>5, <2>2
  <2>8. RecordsRight'
    BY <1>1, <1>2, <2>2, <2>4, <2>6, <2>7, WrittenFileStaysRight
  <2>9. RecordsNamed'
    <3>1. receivedSize <= fileInfo.size
      BY <2>2
    <3> QED
      BY <1>1, <1>2, <1>5, <2>2, <3>1, RecordStaysNamed
  <2> QED
    BY <1>2, <2>8, <2>9, OutsideKeepsBInv DEF ReceivingFile, NoMismatch
<1> QED
  BY <1>6, <1>7

\* A short write leaves a part of the packet.
LEMMA WriteFailsKeepsBInv ==
  ASSUME Known, IInv, IInv', TInv, BInv, WriteFails PROVE BInv'
<1>1. TypeOK /\ TypeOK' /\ ReceiverInFile
  BY DEF IInv
<1>2. /\ UNCHANGED <<source, records>> /\ receiverPc = "data" /\ NextIs("DATA")
      /\ receiverPc' = "accept" /\ receiveResult' = "filesystem"
  BY DEF WriteFails, ReceiverEnds
<1>3. PICK n \in 0..(Len(Head(toReceiver).bytes) - 1) :
        disk' = [disk EXCEPT ![fileInfo.file] =
                   disk[fileInfo.file] \o Prefix(Head(toReceiver).bytes, n)]
  BY DEF WriteFails
<1>4. Writing
  BY <1>2 DEF Writing
<1>5. receiveItem \in File /\ fileInfo.file = receiveItem
  BY <1>4, WritingFacts
<1>6. n \in 0..Len(Head(toReceiver).bytes)
  <2>1. Head(toReceiver).bytes \in Seq(Byte)
    BY <1>1, <1>2, DataIsNext
  <2> QED
    BY <2>1
<1>7. /\ disk[receiveItem] \o Prefix(Head(toReceiver).bytes, n)
           = Prefix(Original(receiveItem), receivedSize + n)
      /\ receivedSize + n \in 0..Size[source[receiveItem]]
  BY <1>1, <1>2, <1>6, AppendedIsRight
<1>8. /\ disk'[receiveItem] = Prefix(Original(receiveItem), receivedSize + n)
      /\ \A g \in File \ {receiveItem} : disk'[g] = disk[g]
  BY <1>1, <1>3, <1>5, <1>7 DEF TypeOK
<1>9. RecordsRight'
  <2>1. \A i \in FileInfos : records'[i] <= records[i]
    BY <1>1, <1>2 DEF TypeOK
  <2> QED
    BY <1>1, <1>2, <1>5, <1>7, <1>8, <2>1, WrittenFileStaysRight DEF BInv
<1>10. RecordsNamed'
  BY <1>2 DEF BInv, RecordsNamed
<1> QED
  BY <1>2, <1>9, <1>10, OutsideKeepsBInv DEF ReceivingFile, NoMismatch

\* Deleting a leftover keeps the bytes right.
LEMMA RemoveLeftoverKeepsBInv ==
  ASSUME IInv, IInv', BInv, NEW f \in File, RemoveLeftover(f) PROVE BInv'
<1>1. TypeOK /\ TypeOK'
  BY DEF IInv
<1>2. /\ UNCHANGED <<source, records, receiverVars>>
      /\ receiverPc \in {"accept", "down"}
      /\ disk' = [disk EXCEPT ![f] = Absent]
  BY DEF RemoveLeftover
<1>3. \A g \in File : disk'[g] = disk[g] \/ disk'[g] = Absent
  BY <1>1, <1>2 DEF TypeOK
<1>4. \A i \in FileInfos : records'[i] <= records[i]
  BY <1>1, <1>2 DEF TypeOK
<1>5. RecordsNamed' /\ RecordsRight'
  BY <1>1, <1>2, <1>3, <1>4, FewerRecordsStayRight DEF BInv
<1> QED
  BY <1>2, <1>5, OutsideKeepsBInv DEF ReceivingFile, BInv, NoMismatch, receiverVars

\* Every step keeps what is known of the bytes.
LEMMA NextKeepsBInv ==
  ASSUME Known', IInv, IInv', TInv, Known => BInv, [Next]_vars PROVE BInv'
<1>0. Known /\ BInv /\ UNCHANGED source
  BY NextKept DEF IInv, StaysKnown
<1>1. CASE UNCHANGED vars \/ SenderStep \/ Break \/ CancelSend \/ SourceUnreadable
           \/ KillSender
  <2>1. UNCHANGED <<source, disk, records, receiverVars>>
    BY <1>1
    DEF vars, SenderStep, SendHello, SendOneDirectory, ReadFileSize, HashAndAnnounce,
        ReadResumeAck, SendData, SendFileEnd, SendFinish, SenderNetworkError,
        SenderEnds, disks, Break, CancelSend, SourceUnreadable, KillSender
  <2> QED
    BY <1>0, <2>1, QuietStepKeepsBInv
<1>2. CASE Connect \/ RestartReceiver \/ ReceiveHello \/ ReceiveOneDirectory
           \/ ReceiveFinish \/ ReceiverNetworkError \/ StopReceiving
  <2>1. UNCHANGED <<source, disk, records>>
    BY <1>2
    DEF Connect, RestartReceiver, ReceiveHello, ReceiveOneDirectory, ReceiveFinish,
        ReceiverNetworkError, StopReceiving, disks
  <2>2. receiverPc' \notin ReceivingFile
    BY <1>2
    DEF Connect, RestartReceiver, ReceiveHello, ReceiveOneDirectory, ReceiveFinish,
        ReceiverNetworkError, StopReceiving, ReceiverEnds, ReceivingFile
  <2>3. NoMismatch'
    BY <1>0, <1>2
    DEF Connect, RestartReceiver, ReceiveHello, ReceiveOneDirectory, ReceiveFinish,
        ReceiverNetworkError, StopReceiving, ReceiverEnds, BInv, NoMismatch
  <2> QED
    BY <1>0, <2>1, <2>2, <2>3, OutsideStepKeepsBInv
<1>3. CASE ReceiveFileInfo \/ SendResumeAck \/ OpenOutput \/ ReceiveData
           \/ UpdateOffset \/ ReceiveFileEnd \/ VerifyFile \/ ClearRecord
  BY <1>0, <1>3, ReceiveFileInfoKeepsBInv, SendResumeAckKeepsBInv, OpenOutputKeepsBInv,
     ReceiveDataKeepsBInv, UpdateOffsetKeepsBInv, ReceiveFileEndKeepsBInv,
     VerifyFileKeepsBInv, ClearRecordKeepsBInv
<1>4. CASE \/ KillReceiver \/ WriteFails \/ StorageFails
           \/ \E f \in File : EditSource(f) \/ RemoveLeftover(f)
  <2>1. ~\E f \in File : EditSource(f)
    BY <1>0 DEF EditSource, IInv, TypeOK
  <2> QED
    BY <1>0, <1>4, <2>1, LossKeepsBInv, WriteFailsKeepsBInv,
       RemoveLeftoverKeepsBInv
<1> QED
  BY <1>1, <1>2, <1>3, <1>4 DEF Next, ReceiverStep, Environment

\* What holds of the bytes while no source is edited holds in every behaviour.
LEMMA SpecBInv == Spec => [](IInv /\ TInv /\ (Known => BInv))
<1> DEFINE Good == Known => BInv
<1>1. Init => Good
  BY InitBInv
<1>2. IInv /\ IInv' /\ TInv /\ Good /\ [Next]_vars => Good'
  BY NextKeepsBInv
<1>3. Spec => [](IInv /\ TInv)
  BY InitIInv, InitTInv, NextKeepsTInv, SpecIInv, PTL DEF Spec
<1> HIDE DEF Good
<1>4. Spec => [](IInv /\ TInv /\ Good)
  BY <1>1, <1>2, <1>3, PTL DEF Spec
<1> QED
  BY <1>4 DEF Good

\* While no source file is edited, what the receiver tells the sender to skip
\* is on its disk and right, whatever was killed, torn, cut or deleted before
\* (Receiver.cpp 56-63).
THEOREM SkippedIsRight == Spec => []SkippedBytesAreThere
<1>1. IInv /\ TInv /\ (Known => BInv) => SkippedBytesAreThere
  <2> SUFFICES ASSUME IInv, TInv, BInv, receiverPc \in {"ack", "open"}
               PROVE  /\ resumeOffset <= ExistingFileSize(fileInfo.file)
                      /\ resumeOffset > 0 =>
                           Prefix(disk[fileInfo.file], resumeOffset)
                             = Prefix(Content(fileInfo.hash), resumeOffset)
    BY DEF SkippedBytesAreThere, Known
  <2>1. resumeOffset <= ExistingFileSize(fileInfo.file)
    BY DEF IInv, OffsetOnDisk
  <2>2. fileInfo = Announced(source, receiveItem)
    BY DEF BInv, InfoTrue, ReceivingFile
  <2>3. fileInfo.file = receiveItem /\ fileInfo.hash = source[receiveItem]
    BY <2>2 DEF Announced
  <2> QED
    BY <2>1, <2>3 DEF BInv, SkipTrue, RightUpTo, Original
<1> QED
  BY <1>1, SpecBInv, PTL

\* While no source file is edited, no receive ends with a size or checksum
\* mismatch, after any number of kills, broken connections, cancellations and
\* retries (Receiver.cpp 94-164, Sender.cpp 60-111).
THEOREM MismatchesAreReal == Spec => []NoSpuriousMismatch
<1>1. IInv /\ TInv /\ (Known => BInv) => NoSpuriousMismatch
  BY DEF BInv, NoMismatch, NoSpuriousMismatch, Known
<1> QED
  BY <1>1, SpecBInv, PTL

-----------------------------------------------------------------------------
(* The two results, while no fault has happened. *)

\* The places before the last answer that the sender waits for.
Early(p) ==
  \/ p.at \in {"hello", "asked"}
  \/ p.at = "task" /\ p.item < EndOfTask
  \/ p.at = "in" /\ p.item < EndOfTask - 1

\* The receiver fails only where the sender still waits for an answer or sends
\* what comes before one, and so the sender cannot have finished.
AInv ==
  /\ ~broken /\ receiverPc # "down"
  /\ sendResult = "ok" => senderPc = "idle"
  /\ Live => /\ receiveResult # "ok"
             /\ senderPc = "idle" => sendResult = "ok"
             /\ Early(ReceiverPlace) => Early(SenderPlace)
  /\ ~Live => /\ senderPc = "idle" => (sendResult = "ok" <=> receiveResult = "ok")
              /\ senderPc # "idle" => receiveResult # "ok" /\ Early(SenderPlace)

\* Which places are early.
LEMMA EarlyPlaces ==
  /\ Early(InHello) /\ ~Early(Over)
  /\ \A i : Early(InTask(i)) <=> i < EndOfTask
  /\ \A f, size : Early(Asked(f, size))
  /\ \A f, n : Early(InFile(f, n)) <=> f < EndOfTask - 1
BY DEF Early, InHello, Over, InTask, Asked, InFile, At

\* The numbers of a task that has a file.
LEMMA ItemsInOrder ==
  ASSUME NFiles > 0
  PROVE  /\ EndOfTask \in Nat /\ 1 < EndOfTask
         /\ \A d \in Dir : d \in Nat /\ d < EndOfTask /\ d + 1 < EndOfTask
         /\ \A f \in File : f \in Nat /\ f < EndOfTask
                            /\ (f < EndOfTask - 1 <=> f + 1 < EndOfTask)
BY ConstantsAssumption DEF EndOfTask, Dir, File

\* The sender goes on to a place that is early if the last was.
LEMMA SenderGoesOn ==
  ASSUME AInv, UNCHANGED <<receiverVars, broken, sendResult>>,
         senderPc # "idle", senderPc' # "idle",
         Early(SenderPlace) => Early(SenderPlace')
  PROVE  AInv'
<1>1. ReceiverPlace' = ReceiverPlace /\ (Live' <=> Live) /\ UNCHANGED <<receiverPc, receiveResult>>
  BY DEF ReceiverPlace, Live, receiverVars
<1>2. Early(ReceiverPlace') <=> Early(ReceiverPlace)
  BY <1>1
<1> QED
  BY <1>1, <1>2 DEF AInv

\* The sender's steps: it only gets past the last answer when the receiver has,
\* and only meets a connection that is cut when the receiver has failed.
LEMMA SenderStepKeepsAInv ==
  ASSUME NFiles > 0, IInv, TInv, AInv, SenderStep PROVE AInv'
<1> USE EarlyPlaces, ItemsInOrder
<1>1. TypeOK /\ SenderInFile /\ AckFits /\ ItemMatches
  BY DEF IInv, TInv
<1>2. CASE SendHello
  <2>1. /\ senderPc = "hello" /\ senderPc' = "task" /\ sendItem' = sendItem
        /\ UNCHANGED <<receiverVars, broken, sendResult>>
    BY <1>2 DEF SendHello
  <2>2. SenderPlace' = InTask(1)
    BY <1>1, <2>1 DEF SenderPlace, ItemMatches
  <2> QED
    BY <2>1, <2>2, SenderGoesOn
<1>3. CASE SendOneDirectory
  <2>1. /\ senderPc = "task" /\ senderPc' = "task" /\ sendItem \in Dir
        /\ sendItem' = sendItem + 1
        /\ UNCHANGED <<receiverVars, broken, sendResult>>
    BY <1>3 DEF SendOneDirectory
  <2>2. SenderPlace' = InTask(sendItem + 1)
    BY <2>1 DEF SenderPlace
  <2> QED
    BY <2>1, <2>2, SenderGoesOn
<1>4. CASE ReadFileSize
  <2>1. /\ senderPc = "task" /\ senderPc' = "hash" /\ sendItem' = sendItem
        /\ UNCHANGED <<receiverVars, broken, sendResult>>
    BY <1>4 DEF ReadFileSize, net
  <2>2. SenderPlace' = SenderPlace
    BY <2>1 DEF SenderPlace
  <2> QED
    BY <2>1, <2>2, SenderGoesOn
<1>5. CASE HashAndAnnounce
  <2>1. /\ senderPc = "hash" /\ senderPc' = "ack" /\ toSender' = toSender
        /\ UNCHANGED <<receiverVars, broken, sendResult>>
    BY <1>5 DEF HashAndAnnounce
  <2>2. SenderPlace' = Asked(sendItem', sendSize')
    BY <1>1, <2>1 DEF SenderPlace, AckFits
  <2> QED
    BY <2>1, <2>2, SenderGoesOn
<1>6. CASE ReadResumeAck
  <2>1. /\ senderPc = "ack" /\ senderPc' = "stream" /\ sendItem' = sendItem
        /\ toSender # <<>> /\ sentSize' = Head(toSender).offset
        /\ UNCHANGED <<receiverVars, broken, sendResult>>
    BY <1>6 DEF ReadResumeAck, SeekPosition
  <2>2. SenderPlace' = SenderPlace
    BY <2>1 DEF SenderPlace
  <2> QED
    BY <2>1, <2>2, SenderGoesOn
<1>7. CASE SendData
  <2>1. /\ senderPc = "stream" /\ senderPc' \in {"stream", "end"}
        /\ sendItem' = sendItem
        /\ UNCHANGED <<receiverVars, broken, sendResult>>
    BY <1>7 DEF SendData
  <2>2. SenderPlace = InFile(sendItem, sentSize) /\ SenderPlace' = InFile(sendItem, sentSize')
    BY <2>1 DEF SenderPlace
  <2> QED
    BY <2>1, <2>2, SenderGoesOn
<1>8. CASE SendFileEnd
  <2>1. /\ senderPc \in {"stream", "end"} /\ senderPc' = "task"
        /\ sendItem' = sendItem + 1
        /\ UNCHANGED <<receiverVars, broken, sendResult>>
    BY <1>8 DEF SendFileEnd
  <2>2. SenderPlace = InFile(sendItem, sentSize) /\ SenderPlace' = InTask(sendItem + 1)
    BY <2>1 DEF SenderPlace
  <2>3. sendItem \in File
    BY <1>1, <2>1 DEF SenderInFile
  <2> QED
    BY <2>1, <2>2, <2>3, SenderGoesOn
<1>9. CASE SendFinish
  <2>1. /\ senderPc = "task" /\ senderPc' = "idle" /\ sendResult' = "ok"
        /\ sendItem = EndOfTask /\ UNCHANGED <<receiverVars, broken>>
    BY <1>9 DEF SendFinish
  <2>2. ~Early(SenderPlace)
    BY <2>1 DEF SenderPlace
  <2>3. Live /\ ~Early(ReceiverPlace) /\ receiveResult # "ok"
    BY <2>1, <2>2 DEF AInv
  <2>4. ReceiverPlace' = ReceiverPlace /\ Live'
        /\ UNCHANGED <<receiverPc, receiveResult>>
    BY <2>1, <2>3 DEF ReceiverPlace, Live, receiverVars
  <2>5. ~Early(ReceiverPlace')
    BY <2>3, <2>4
  <2> QED
    BY <2>1, <2>3, <2>4, <2>5 DEF AInv
<1>10. CASE SenderNetworkError
  <2>1. /\ SenderCut /\ senderPc # "idle" /\ senderPc' = "idle"
        /\ sendResult' = "network" /\ UNCHANGED <<receiverVars, broken>>
    BY <1>10 DEF SenderNetworkError, SenderEnds
  <2>2. ~Live /\ receiveResult # "ok"
    BY <2>1 DEF AInv, Live, SenderCut
  <2>3. ~Live' /\ UNCHANGED <<receiverPc, receiveResult>>
    BY <2>1, <2>2 DEF Live, receiverVars
  <2> QED
    BY <2>1, <2>2, <2>3 DEF AInv
<1> QED
  BY <1>2, <1>3, <1>4, <1>5, <1>6, <1>7, <1>8, <1>9, <1>10 DEF SenderStep

\* While no fault has happened the two ends are linked during a receive.
LEMMA LinkedWhileLive ==
  ASSUME AInv, Live PROVE Linked
BY DEF AInv, Linked

\* The receiver goes on within a receive.
LEMMA ReceiverGoesOn ==
  ASSUME AInv, Live, Live', UNCHANGED <<senderVars, toSender, broken, receiveResult>>,
         receiverPc' # "down", Early(ReceiverPlace') => Early(ReceiverPlace)
  PROVE  AInv'
<1>1. SenderPlace' = SenderPlace /\ UNCHANGED <<senderPc, sendResult>>
  BY DEF SenderPlace, senderVars
<1>2. Early(SenderPlace') <=> Early(SenderPlace)
  BY <1>1
<1> QED
  BY <1>1, <1>2 DEF AInv

\* The receiver fails at an early place: the sender has not finished.
LEMMA ReceiverFails ==
  ASSUME AInv, Live, Early(ReceiverPlace), receiverPc' = "accept",
         receiveResult' # "ok", UNCHANGED <<senderVars, toSender, broken>>
  PROVE  AInv'
<1>1. SenderPlace' = SenderPlace /\ UNCHANGED <<senderPc, sendResult>>
  BY DEF SenderPlace, senderVars
<1>2. Early(SenderPlace)
  BY DEF AInv
<1>3. Early(SenderPlace') /\ ~Live'
  BY <1>1, <1>2 DEF Live
<1>4. senderPc # "idle"
  BY <1>2, EarlyPlaces DEF SenderPlace
<1> QED
  BY <1>1, <1>3, <1>4 DEF AInv

\* The answer takes both ends from the same place to the same place.
LEMMA SendResumeAckKeepsAInv ==
  ASSUME IInv, IInv', TInv, TInv', AInv, SendResumeAck PROVE AInv'
<1>1. /\ receiverPc = "ack" /\ receiverPc' = "open" /\ toReceiver' = toReceiver
      /\ UNCHANGED <<senderVars, broken, receiveResult>>
  BY DEF SendResumeAck
<1>2. Live /\ Live' /\ UNCHANGED <<senderPc, sendResult>>
  BY <1>1 DEF Live, senderVars
<1>3. ReceiverPlace = Asked(receiveItem, fileInfo.size)
  BY <1>1 DEF ReceiverPlace
<1>4. toReceiver' = <<>>
  BY <1>1, <1>2, <1>3, HeadLeads, AskedWaits DEF IInv, TInv
<1>5. Linked'
  BY <1>1, <1>2 DEF AInv, Linked
<1>6. PICK b \in Place : Follows(Seen', ReceiverPlace', toReceiver', b) /\ b = SenderPlace'
  BY <1>2, <1>5 DEF TInv, Conversation
<1>7. ReceiverPlace' \in Place
  <2>1. ReceiverPlace' = InFile(receiveItem', receivedSize')
    BY <1>1 DEF ReceiverPlace
  <2>2. receiveItem' \in Nat /\ receivedSize' \in Nat
    BY ConstantsAssumption DEF IInv, TypeOK, EndOfTask
  <2> QED
    BY <2>1, <2>2 DEF InFile, At, Place
<1>8. SenderPlace' = ReceiverPlace'
  BY <1>4, <1>6, <1>7, FollowsNothing
<1> QED
  BY <1>1, <1>2, <1>8 DEF AInv

\* FINISH is the last packet: whoever wrote it has finished.
LEMMA ReceiveFinishKeepsAInv ==
  ASSUME IInv, TInv, AInv, ReceiveFinish PROVE AInv'
<1>1. /\ receiverPc = "task" /\ toReceiver # <<>> /\ Head(toReceiver).type = "FINISH"
      /\ receiverPc' = "accept" /\ receiveResult' = "ok"
      /\ UNCHANGED <<senderVars, broken>>
  BY DEF ReceiveFinish, NextIs, ReceiverEnds
<1>2. Live /\ ~Live' /\ UNCHANGED <<senderPc, sendResult>>
  BY <1>1 DEF Live, senderVars
<1>3. Linked
  BY <1>2, LinkedWhileLive
<1>4. Follows(Seen, ReceiverPlace, toReceiver, SenderPlace)
  BY <1>2, <1>3 DEF TInv, Conversation
<1>5. /\ toReceiver \in Seq(Packet) /\ Tail(toReceiver) \in Seq(Packet)
      /\ ReceiverPlace \in Place /\ SenderPlace \in Place
  BY <1>1, PlaceTypes DEF IInv, TypeOK
<1>6. PICK c \in Place : /\ Leads(Seen, ReceiverPlace, Head(toReceiver), c)
                         /\ Follows(Seen, c, Tail(toReceiver), SenderPlace)
  BY <1>1, <1>4, <1>5, FollowsRead
<1>7. c = Over
  <2>1. ReceiverPlace = InTask(receiveItem)
    BY <1>1 DEF ReceiverPlace
  <2> QED
    BY <1>1, <1>6, <2>1, FromTask, PacketTypes
<1>8. SenderPlace = Over
  <2>1. CASE Tail(toReceiver) = <<>>
    <3>1. Follows(Seen, c, <<>>, SenderPlace)
      BY <1>6, <2>1
    <3> QED
      BY <1>7, <3>1, FollowsNothing
  <2>2. CASE Tail(toReceiver) # <<>>
    <3>1. \E d \in Place : Leads(Seen, Over, Head(Tail(toReceiver)), d)
      BY <1>5, <1>6, <1>7, <2>2, FollowsRead
    <3> QED
      BY <3>1, NothingFollowsOver
  <2> QED
    BY <2>1, <2>2
<1>9. senderPc = "idle"
  BY <1>8 DEF SenderPlace, InHello, InTask, Asked, InFile, Over, At
<1> QED
  BY <1>1, <1>2, <1>9 DEF AInv

\* The receiver does not find itself cut off: a sender that has finished left
\* everything up to FINISH behind.
LEMMA NoReceiverNetworkError ==
  ASSUME IInv, TInv, AInv, ReceiverNetworkError PROVE FALSE
<1>1. /\ ReceiverCut /\ receiverPc \in {"hello", "task", "data", "ack"}
      /\ receiverPc = "ack" \/ toReceiver = <<>>
  BY DEF ReceiverNetworkError
<1>2. Live /\ Linked /\ senderPc = "idle"
  BY <1>1, LinkedWhileLive DEF AInv, Live, ReceiverCut
<1>3. Follows(Seen, ReceiverPlace, toReceiver, Over)
  BY <1>2 DEF TInv, Conversation, SenderPlace
<1>4. toReceiver = <<>>
  <2>1. receiverPc = "ack" => ReceiverPlace = Asked(receiveItem, fileInfo.size)
    BY DEF ReceiverPlace
  <2> QED
    BY <1>1, <1>2, <2>1, HeadLeads, AskedWaits DEF IInv, TInv
<1>5. ReceiverPlace = Over
  BY <1>3, <1>4, PlaceTypes, FollowsNothing DEF IInv
<1> QED
  BY <1>1, <1>5 DEF ReceiverPlace, InHello, InTask, Asked, InFile, Over, At

\* The receiver's steps: it refuses a directory or a file only at an early
\* place, and no mismatch arises.
LEMMA ReceiverStepKeepsAInv ==
  ASSUME NFiles > 0, IInv, IInv', TInv, TInv', BInv', AInv, ReceiverStep PROVE AInv'
<1> USE EarlyPlaces, ItemsInOrder
<1>1. CASE ReceiveHello
  <2>1. /\ receiverPc = "hello" /\ receiverPc' = "task"
        /\ UNCHANGED <<senderVars, toSender, broken, receiveResult>>
    BY <1>1 DEF ReceiveHello
  <2>2. ReceiverPlace = InHello
    BY <2>1 DEF ReceiverPlace
  <2> QED
    BY <2>1, <2>2, ReceiverGoesOn DEF Live
<1>2. CASE ReceiveOneDirectory
  <2>1. /\ receiverPc = "task" /\ receiveItem \in Dir
        /\ UNCHANGED <<senderVars, toSender, broken>>
        /\ ReceiverEnds("filesystem") \/ UNCHANGED <<receiverPc, receiveResult>>
    BY <1>2 DEF ReceiveOneDirectory
  <2>2. Early(ReceiverPlace)
    BY <2>1 DEF ReceiverPlace
  <2> QED
    BY <2>1, <2>2, ReceiverGoesOn, ReceiverFails DEF Live, ReceiverEnds
<1>3. CASE ReceiveFileInfo
  <2>1. /\ receiverPc = "task" /\ receiveItem \in File
        /\ UNCHANGED <<senderVars, toSender, broken>>
        /\ ReceiverEnds("filesystem") \/ (receiverPc' = "ack" /\ UNCHANGED receiveResult)
    BY <1>3 DEF ReceiveFileInfo
  <2>2. Early(ReceiverPlace)
    BY <2>1 DEF ReceiverPlace
  <2> QED
    BY <2>1, <2>2, ReceiverGoesOn, ReceiverFails DEF Live, ReceiverEnds
<1>4. CASE OpenOutput \/ UpdateOffset
  <2>1. /\ receiverPc \in {"open", "record"} /\ receiverPc' = "data"
        /\ UNCHANGED <<receiveItem, receivedSize>>
        /\ UNCHANGED <<senderVars, toSender, broken, receiveResult>>
    BY <1>4 DEF OpenOutput, UpdateOffset, net
  <2>2. ReceiverPlace' = ReceiverPlace
    BY <2>1 DEF ReceiverPlace
  <2> QED
    BY <2>1, <2>2, ReceiverGoesOn DEF Live
<1>5. CASE ReceiveData
  <2>1. /\ receiverPc = "data" /\ UNCHANGED <<senderVars, toSender, broken>>
        /\ receiveResult' # "size" =>
             /\ receiverPc' \in {"record", "data"}
             /\ UNCHANGED <<receiveItem, receiveResult>>
    BY <1>5 DEF ReceiveData, ReceiverEnds
  <2>2. receiveResult' # "size"
    BY DEF BInv, NoMismatch
  <2>3. /\ ReceiverPlace = InFile(receiveItem, receivedSize)
        /\ ReceiverPlace' = InFile(receiveItem, receivedSize')
    BY <2>1, <2>2 DEF ReceiverPlace
  <2> QED
    BY <2>1, <2>2, <2>3, ReceiverGoesOn DEF Live
<1>6. CASE ReceiveFileEnd
  <2>1. /\ receiverPc = "data" /\ receiverPc' = "verify" /\ receiveItem' = receiveItem
        /\ UNCHANGED <<senderVars, toSender, broken, receiveResult>>
    BY <1>6 DEF ReceiveFileEnd
  <2>2. /\ ReceiverPlace = InFile(receiveItem, receivedSize)
        /\ ReceiverPlace' = InTask(receiveItem + 1)
    BY <2>1 DEF ReceiverPlace
  <2>3. receiveItem \in File
    BY <2>1 DEF IInv, ReceiverInFile, TInv, ItemMatches, ReceivingFile
  <2> QED
    BY <2>1, <2>2, <2>3, ReceiverGoesOn DEF Live
<1>7. CASE VerifyFile \/ ClearRecord
  <2>1. /\ receiverPc \in {"verify", "clear"}
        /\ UNCHANGED <<senderVars, toSender, broken>>
        /\ receiveResult' \notin {"size", "checksum"} =>
             \/ /\ receiverPc' = "clear" /\ UNCHANGED <<receiveItem, receiveResult>>
             \/ /\ receiverPc' = "task" /\ receiveItem' = receiveItem + 1
                /\ UNCHANGED receiveResult
    BY <1>7 DEF VerifyFile, ClearRecord, NextFile, ReceiverEnds
  <2>2. receiveResult' \notin {"size", "checksum"}
    BY DEF BInv, NoMismatch
  <2>3. ReceiverPlace' = ReceiverPlace
    BY <2>1, <2>2 DEF ReceiverPlace
  <2> QED
    BY <2>1, <2>2, <2>3, ReceiverGoesOn DEF Live
<1> QED
  BY <1>1, <1>2, <1>3, <1>4, <1>5, <1>6, <1>7, SendResumeAckKeepsAInv,
     ReceiveFinishKeepsAInv, NoReceiverNetworkError
  DEF ReceiverStep

\* Nobody has finished at the start.
LEMMA InitAInv == Init => AInv
BY DEF Init, AInv, Live

\* Every step that is not a fault keeps what is known of the two results.
LEMMA NextKeepsAInv ==
  ASSUME NFiles > 0, faults' = 0, IInv, IInv', TInv, TInv', BInv',
         faults = 0 => AInv, [Next]_vars
  PROVE  AInv'
<1>1. faults = 0 /\ AInv
  <2>1. faults \in Nat
    BY DEF IInv, TypeOK
  <2>2. faults' = faults \/ faults' = faults + 1
    BY NextCounts
  <2> QED
    BY <2>1, <2>2
<1>2. CASE UNCHANGED vars
  <2>1. UNCHANGED <<receiverPc, receiveItem, fileInfo, receivedSize, receiveResult,
                    senderPc, sendItem, sendSize, sentSize, sendResult, toSender, broken>>
    BY <1>2 DEF vars, receiverVars, senderVars, net
  <2>2. ReceiverPlace' = ReceiverPlace /\ SenderPlace' = SenderPlace /\ (Live' <=> Live)
    BY <2>1 DEF ReceiverPlace, SenderPlace, Live
  <2> QED
    BY <1>1, <2>1, <2>2 DEF AInv
<1>3. CASE Connect
  <2>1. /\ senderPc' = "hello" /\ receiverPc' = "hello" /\ broken' = FALSE
        /\ sendResult' = "none" /\ receiveResult' = "none"
    BY <1>3 DEF Connect
  <2>2. Live' /\ SenderPlace' = InHello
    BY <2>1 DEF Live, SenderPlace
  <2> QED
    BY <2>1, <2>2, EarlyPlaces DEF AInv
<1>4. CASE RestartReceiver
  BY <1>1, <1>4 DEF RestartReceiver, AInv
<1>5. CASE Environment
  BY <1>1, <1>5 DEF Environment, Break, CancelSend, SourceUnreadable, KillSender,
                    KillReceiver, StopReceiving, WriteFails, StorageFails,
                    EditSource, RemoveLeftover, Fault
<1> QED
  BY <1>1, <1>2, <1>3, <1>4, <1>5, SenderStepKeepsAInv, ReceiverStepKeepsAInv
  DEF Next

\* Without any fault the two ends agree on whether a task with a file in it went
\* through, although success is returned before the receiver has read FINISH
\* (SendService.cpp 147-151).
THEOREM EndsAgree == Spec => []AgreeWithoutFaults
<1> DEFINE Good == (NFiles > 0 /\ faults = 0) => AInv
           Base == IInv /\ TInv /\ (Known => BInv)
<1>1. Init => Good
  BY InitAInv
<1>2. Base /\ Base' /\ Good /\ [Next]_vars => Good'
  <2> SUFFICES ASSUME Base, Base', Good, [Next]_vars, NFiles > 0, faults' = 0
               PROVE  AInv'
    OBVIOUS
  <2>1. BInv'
    BY DEF Known
  <2> QED
    BY <2>1, NextKeepsAInv
<1>3. Base /\ Good => AgreeWithoutFaults
  BY DEF AgreeWithoutFaults, AtRest, AInv, Live
<1>4. Spec => []Base
  BY SpecBInv
<1> HIDE DEF Good, Base
<1> QED
  BY <1>1, <1>2, <1>3, <1>4, PTL DEF Spec
===============================================================================
