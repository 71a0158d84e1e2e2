------------------------------ MODULE WfdeFile ------------------------------
(***************************************************************************)
(* Files of the server (WfdeFile): a memory mapped file that grows in      *)
(* steps while it is written and is cut to its real length when it is      *)
(* closed. The file on the disk is seen by several transfers, one after    *)
(* the other; each has a WfdeFile of its own, which SendFile or            *)
(* ReceiveFile drives. An ASCII transfer has a WfdeAsciiFile around it,    *)
(* which converts the ends of lines: while an upload waits for data the    *)
(* bytes go to a buffer of its own, and the WfdeFile is touched only when  *)
(* they have arrived.                                                      *)
(*                                                                         *)
(* A client that waits for the final reply of a transfer before it starts  *)
(* the next one on the same file, on whatever connection, still meets the  *)
(* WfdeFile of the first: it lives until the transfer coroutine goes on    *)
(* after its reply (stage "replied"). Transfers that overlap in the eyes   *)
(* of the clients are left out: the server does not synchronise them.      *)
(***************************************************************************)
EXTENDS Integers

CONSTANTS
    Transfers,       \* the transfers of the file
    SegmentSize,     \* segment_size_, the size of a page
    RegionSegments,  \* segments in region_limit_: 8
    GrowRegions,     \* regions in grow_size_: 128
    MaxReceived      \* bound on the bytes one upload receives

ASSUME SizesAssumption ==
    /\ SegmentSize \in Nat \ {0, 1}
    /\ RegionSegments \in Nat \ {0, 1}
    /\ GrowRegions \in Nat \ {0}
    /\ MaxReceived \in Nat

RegionLimit == RegionSegments * SegmentSize
GrowSize == GrowRegions * RegionLimit

VARIABLES
    size,      \* the size of the file on the disk, or Absent
    stage,     \* where each transfer is
    op,        \* operation_
    ascii,     \* is there a WfdeAsciiFile around it?
    pos,       \* pos_
    fileSize,  \* file_size_
    eofPos,    \* end_of_file_pos_
    last,      \* last_buffer_len_
    trunc,     \* do_truncate_
    base,      \* the position the transfer began at (history)
    moved,     \* the bytes received for the file, or read from it (history)
    sound,     \* the bytes from the start of the file that are what the client
               \* of an upload expects there (history)
    cuts       \* the lengths to which the WfdeFile of another transfer has cut
               \* the file during an upload (history)

handleVars == <<stage, op, ascii, pos, fileSize, eofPos, last, trunc, base, moved>>
contentVars == <<sound, cuts>>
vars == <<size, handleVars, contentVars>>

Absent == -1
Operations == {"READ", "WRITE", "WRITE_NEW", "APPEND"}
Stages == {"new", "ready", "buffer", "replied", "failed", "done"}

TypeOK ==
    /\ size \in Nat \cup {Absent}
    /\ stage \in [Transfers -> Stages]
    /\ op \in [Transfers -> Operations]
    /\ ascii \in [Transfers -> BOOLEAN]
    /\ pos \in [Transfers -> Nat]
    /\ fileSize \in [Transfers -> Nat]
    /\ eofPos \in [Transfers -> Nat]
    /\ last \in [Transfers -> Nat]
    /\ trunc \in [Transfers -> BOOLEAN]
    /\ base \in [Transfers -> Nat]
    /\ moved \in [Transfers -> Nat]
    /\ sound \in [Transfers -> Nat]
    /\ cuts \in [Transfers -> SUBSET Nat]

Uploading(t) == stage[t] \in {"ready", "buffer"} /\ op[t] # "READ"

Smaller(a, b) == IF a < b THEN a ELSE b
Larger(a, b) == IF a > b THEN a ELSE b

-----------------------------------------------------------------------------
Init ==
    /\ size = Absent
    /\ stage = [t \in Transfers |-> "new"]
    /\ op = [t \in Transfers |-> "READ"]
    /\ ascii = [t \in Transfers |-> FALSE]
    /\ pos = [t \in Transfers |-> 0]
    /\ fileSize = [t \in Transfers |-> 0]
    /\ eofPos = [t \in Transfers |-> 0]
    /\ last = [t \in Transfers |-> 0]
    /\ trunc = [t \in Transfers |-> FALSE]
    /\ base = [t \in Transfers |-> 0]
    /\ moved = [t \in Transfers |-> 0]
    /\ sound = [t \in Transfers |-> 0]
    /\ cuts = [t \in Transfers |-> {}]

\* The constructor. READ needs a file, WRITE_NEW none; WRITE empties a file
\* that exists, and all but READ make an empty one if there is none. Only
\* APPEND begins at the end.
Open(t, o, a) ==
    LET length == IF size = Absent \/ o = "WRITE" THEN 0 ELSE size
        start == IF o = "APPEND" THEN length ELSE 0
    IN
    /\ stage[t] = "new"
    /\ \A u \in Transfers : stage[u] \notin {"ready", "buffer"}
    /\ o = "READ" => size # Absent
    /\ o = "WRITE_NEW" => size = Absent
    /\ size' = length
    /\ stage' = [stage EXCEPT ![t] = "ready"]
    /\ op' = [op EXCEPT ![t] = o]
    /\ ascii' = [ascii EXCEPT ![t] = a]
    /\ pos' = [pos EXCEPT ![t] = start]
    /\ fileSize' = [fileSize EXCEPT ![t] = length]
    /\ eofPos' = [eofPos EXCEPT ![t] = length]
    /\ base' = [base EXCEPT ![t] = start]
    /\ sound' = [sound EXCEPT ![t] = IF o = "READ" THEN 0 ELSE length]
    /\ UNCHANGED <<last, trunc, moved, cuts>>

-----------------------------------------------------------------------------
(***************************************************************************)
(* MapRegion and GetBufferValues: the part of the file that is mapped      *)
(* around position p of a file of n bytes, and the buffer in it. Zero      *)
(* bytes stand for as many as there are.                                   *)
(***************************************************************************)
RegionStart(p) == (p \div SegmentSize) * SegmentSize

RegionLength(p, n, bytes) ==
    Smaller(IF bytes = 0 THEN RegionLimit
                         ELSE Smaller(bytes + SegmentSize, RegionLimit),
            n - RegionStart(p))

BufferLength(p, n, bytes) ==
    LET segLen == RegionLength(p, n, bytes) - (p - RegionStart(p))
    IN  IF bytes = 0 THEN segLen ELSE Smaller(bytes, segLen)

\* Enlarging the file only at its end.
EnlargedSizeMutant(p, n, bytes) == IF p >= n THEN n + GrowSize ELSE n

\* Doubling the file.
EnlargedSizeMutant2(p, n, bytes) ==
    IF p + bytes + SegmentSize > n THEN n + n + GrowSize ELSE n

\* Write(bytes) enlarges the file when there is no room for them and one more
\* segment.
EnlargedSize(p, n, bytes) ==
    LET minSize == p + bytes + SegmentSize
        align == IF minSize % SegmentSize # 0 THEN SegmentSize ELSE 0
    IN  IF minSize > n
        THEN Larger((minSize \div SegmentSize) * SegmentSize + align,
                    n + GrowSize)
        ELSE n

\* The size of the file on the disk when Write(bytes) has enlarged it.
DiskSize(t, bytes) ==
    LET enlarged == EnlargedSize(pos[t], fileSize[t], bytes)
    IN  IF enlarged # fileSize[t] THEN enlarged ELSE size

(***************************************************************************)
(* ReceiveFile.                                                            *)
(***************************************************************************)

\* The sound bytes of transfer t when n bytes are stored at position at of a
\* file of disk bytes. What is stored behind the end of the file is lost.
Landed(t, at, n, disk) ==
    IF at = base[t] + moved[t] /\ at = sound[t]
    THEN Smaller(at + n, disk)
    ELSE Smaller(Smaller(sound[t], at), disk)

\* Write() hands out the next buffer; it moves the position past it already.
Write(t) ==
    LET enlarged == EnlargedSize(pos[t], fileSize[t], SegmentSize)
        use == BufferLength(pos[t], enlarged, SegmentSize)
    IN
    /\ stage[t] = "ready" /\ op[t] # "READ" /\ ~ascii[t]
    /\ size' = DiskSize(t, SegmentSize)
    /\ fileSize' = [fileSize EXCEPT ![t] = enlarged]
    /\ pos' = [pos EXCEPT ![t] = pos[t] + use]
    /\ last' = [last EXCEPT ![t] = use]
    /\ stage' = [stage EXCEPT ![t] = "buffer"]
    /\ sound' = [sound EXCEPT ![t] = Smaller(sound[t], size')]
    /\ UNCHANGED <<op, ascii, eofPos, trunc, base, moved, cuts>>

\* WfdeAsciiFile::Write hands out its own buffer, of half a segment.
AsciiWrite(t) ==
    /\ stage[t] = "ready" /\ op[t] # "READ" /\ ascii[t]
    /\ stage' = [stage EXCEPT ![t] = "buffer"]
    /\ UNCHANGED <<size, op, ascii, pos, fileSize, eofPos, last, trunc, base,
                   moved, contentVars>>

\* SetBytesWritten without taking back the position.
SetBytesWrittenMutant(t, n) ==
    /\ pos' = pos
    /\ trunc' = [trunc EXCEPT ![t] = trunc[t] \/ n < last[t]]
    /\ eofPos' = [eofPos EXCEPT ![t] = Larger(eofPos[t], pos'[t])]
    /\ UNCHANGED <<fileSize, last>>

\* SetBytesWritten that counts right, but goes on behind the buffer.
SetBytesWrittenDrift(t, n) ==
    /\ pos' = pos
    /\ trunc' = [trunc EXCEPT ![t] = trunc[t] \/ n < last[t]]
    /\ eofPos' = [eofPos EXCEPT ![t] = eofPos[t] + n]
    /\ UNCHANGED <<fileSize, last>>

\* SetBytesWritten that takes back too much.
SetBytesWrittenSlip(t, n) ==
    /\ pos' = [pos EXCEPT ![t] = pos[t] - last[t] - n]
    /\ trunc' = [trunc EXCEPT ![t] = trunc[t] \/ n < last[t]]
    /\ eofPos' = eofPos
    /\ UNCHANGED <<fileSize, last>>

\* SetBytesWritten(n) takes the position back to what was written.
SetBytesWritten(t, n) ==
    /\ pos' = [pos EXCEPT ![t] = pos[t] - (last[t] - n)]
    /\ trunc' = [trunc EXCEPT ![t] = trunc[t] \/ n < last[t]]
    /\ eofPos' = [eofPos EXCEPT
                     ![t] = Larger(eofPos[t], pos[t] - (last[t] - n))]
    /\ UNCHANGED <<fileSize, last>>

\* Room for the text as it was received, which is never longer on UNIX.
AsciiRoomMutant(n) == IF n = 0 THEN SegmentSize ELSE n

\* The bytes WfdeAsciiFile asks the file for: twice those received, and if
\* nothing was received Write takes its 0 for a segment.
AsciiRoom(n) == IF n = 0 THEN SegmentSize ELSE n + n

\* WfdeAsciiFile::SetBytesWritten(n): Write(2n), the conversion of the n bytes
\* to m, and SetBytesWritten(m) of the file.
AsciiSetBytesWritten(t, n, m) ==
    LET enlarged == EnlargedSize(pos[t], fileSize[t], AsciiRoom(n))
        use == BufferLength(pos[t], enlarged, AsciiRoom(n))
    IN
    /\ fileSize' = [fileSize EXCEPT ![t] = enlarged]
    /\ last' = [last EXCEPT ![t] = use]
    /\ pos' = [pos EXCEPT ![t] = pos[t] + use - (use - m)]
    /\ trunc' = [trunc EXCEPT ![t] = trunc[t] \/ m < use]
    /\ eofPos' = [eofPos EXCEPT
                     ![t] = Larger(eofPos[t], pos[t] + use - (use - m))]

Received(t, n) ==
    /\ stage[t] = "buffer" /\ op[t] # "READ" /\ ~ascii[t]
    /\ n \in 1..last[t] /\ moved[t] + n <= MaxReceived
    /\ SetBytesWritten(t, n)
    /\ moved' = [moved EXCEPT ![t] = moved[t] + n]
    /\ stage' = [stage EXCEPT ![t] = "ready"]
    /\ sound' = [sound EXCEPT ![t] = Landed(t, pos[t] - last[t], n, size)]
    /\ UNCHANGED <<size, op, ascii, base, cuts>>

\* A line ends in LF in the file: CRs are dropped.
AsciiReceived(t, n, m) ==
    /\ stage[t] = "buffer" /\ op[t] # "READ" /\ ascii[t]
    /\ n \in 1..(SegmentSize \div 2)
    /\ m \in 0..n /\ moved[t] + m <= MaxReceived
    /\ AsciiSetBytesWritten(t, n, m)
    /\ size' = DiskSize(t, AsciiRoom(n))
    /\ moved' = [moved EXCEPT ![t] = moved[t] + m]
    /\ stage' = [stage EXCEPT ![t] = "ready"]
    /\ sound' = [sound EXCEPT ![t] = Landed(t, pos[t], m, size')]
    /\ UNCHANGED <<op, ascii, base, cuts>>

\* Close(): the size of the file, which is disk before, if the WfdeFile
\* believes it is n. Close does not record that the file is closed, so the
\* destructor comes here a second time.
Close(disk, cut, n, end) == IF cut /\ n > end THEN end ELSE disk

\* There is nothing more to receive: SetBytesWritten(0).
NothingReceived(t) ==
    /\ stage[t] = "buffer" /\ op[t] # "READ"
    /\ IF ascii[t] THEN AsciiSetBytesWritten(t, 0, 0) ELSE SetBytesWritten(t, 0)
    /\ UNCHANGED <<op, ascii, base, moved>>

\* The size on the disk after it.
DiskAtEnd(t) == IF ascii[t] THEN DiskSize(t, SegmentSize) ELSE size

\* The client has sent everything: the file is closed and 226 is sent.
UploadEnds(t) ==
    /\ NothingReceived(t)
    /\ size' = Close(DiskAtEnd(t), trunc'[t], fileSize'[t], eofPos'[t])
    /\ stage' = [stage EXCEPT ![t] = "replied"]
    /\ sound' = [sound EXCEPT ![t] = Smaller(sound[t], size')]
    /\ UNCHANGED cuts

(***************************************************************************)
(* SendFile.                                                               *)
(***************************************************************************)

\* Read() hands out the next buffer, which is sent, converted if it is an
\* ASCII transfer.
Read(t) ==
    LET use == BufferLength(pos[t], fileSize[t], 0) IN
    /\ stage[t] = "ready" /\ op[t] = "READ"
    /\ pos[t] # fileSize[t]
    /\ pos' = [pos EXCEPT ![t] = pos[t] + use]
    /\ last' = [last EXCEPT ![t] = use]
    /\ stage' = [stage EXCEPT ![t] = "buffer"]
    /\ UNCHANGED <<size, op, ascii, fileSize, eofPos, trunc, base, moved,
                   contentVars>>

Sent(t) ==
    /\ stage[t] = "buffer" /\ op[t] = "READ"
    /\ moved' = [moved EXCEPT ![t] = moved[t] + last[t]]
    /\ stage' = [stage EXCEPT ![t] = "ready"]
    /\ UNCHANGED <<size, op, ascii, pos, fileSize, eofPos, last, trunc, base,
                   contentVars>>

DownloadEnds(t) ==
    /\ stage[t] = "ready" /\ op[t] = "READ"
    /\ pos[t] = fileSize[t]
    /\ size' = Close(size, trunc[t], fileSize[t], eofPos[t])
    /\ stage' = [stage EXCEPT ![t] = "replied"]
    /\ UNCHANGED <<op, ascii, pos, fileSize, eofPos, last, trunc, base, moved,
                   contentVars>>

(***************************************************************************)
(* The data connection fails, or is aborted, while the transfer waits for  *)
(* it: 426 is sent. Or the session has expired when it goes on. Nobody     *)
(* calls SetBytesWritten.                                                  *)
(***************************************************************************)
TransferFails(t) ==
    /\ stage[t] = "buffer"
    /\ stage' = [stage EXCEPT ![t] = "failed"]
    /\ UNCHANGED <<size, op, ascii, pos, fileSize, eofPos, last, trunc, base,
                   moved, contentVars>>

\* All of an upload is there, but the TLS connection does not end well.
ShutdownFails(t) ==
    /\ NothingReceived(t)
    /\ size' = DiskAtEnd(t)
    /\ stage' = [stage EXCEPT ![t] = "failed"]
    /\ UNCHANGED contentVars

\* The transfer coroutine goes on after its final reply: CleanupTransfer
\* destroys the WfdeFile, whose destructor closes it, under the hands of an
\* upload that has begun meanwhile.
Destroy(t) ==
    /\ stage[t] \in {"replied", "failed"}
    /\ size' = Close(size, trunc[t], fileSize[t], eofPos[t])
    /\ stage' = [stage EXCEPT ![t] = "done"]
    /\ sound' = [u \in Transfers |->
                    IF Uploading(u) THEN Smaller(sound[u], size') ELSE 0]
    /\ cuts' = [u \in Transfers |->
                    IF ~Uploading(u) THEN {}
                    ELSE cuts[u] \cup (IF size' < size THEN {size'} ELSE {})]
    /\ UNCHANGED <<op, ascii, pos, fileSize, eofPos, last, trunc, base, moved>>

-----------------------------------------------------------------------------
Proceeds(t) ==
    \/ Write(t) \/ AsciiWrite(t) \/ UploadEnds(t)
    \/ Read(t) \/ Sent(t) \/ DownloadEnds(t) \/ Destroy(t)

Next ==
    \E t \in Transfers :
        \/ \E o \in Operations, a \in BOOLEAN : Open(t, o, a)
        \/ \E n \in 1..SegmentSize : Received(t, n)
        \/ \E n, m \in 0..SegmentSize : AsciiReceived(t, n, m)
        \/ TransferFails(t) \/ ShutdownFails(t)
        \/ Proceeds(t)

Spec == Init /\ [][Next]_vars

-----------------------------------------------------------------------------
(***************************************************************************)
(* Properties.                                                             *)
(***************************************************************************)

\* end_of_file_pos_ is the real end of the file: where the upload began plus
\* what was received, although positions move by whole buffers.
EofExact ==
    \A t \in Transfers :
        stage[t] # "new" /\ op[t] # "READ" => eofPos[t] = base[t] + moved[t]

\* A buffer for an upload is a whole segment and lies inside the file (the
\* assertion in Write); one for a download is not empty and does not go past
\* the end, or SendFile would never see the end. An ASCII upload, however much
\* of its own buffer is filled, gets room for twice as much, which the conversion
\* may need.
BufferFits ==
    \A t \in Transfers :
        stage[t] = "buffer" =>
            /\ pos[t] <= fileSize[t]
            /\ op[t] = "READ" => last[t] > 0
            /\ op[t] # "READ" /\ ~ascii[t] => last[t] = SegmentSize
            /\ op[t] # "READ" /\ ascii[t] =>
                   \A n \in 1..(SegmentSize \div 2) :
                       LET room == AsciiRoom(n)
                           enlarged == EnlargedSize(pos[t], fileSize[t], room)
                       IN  BufferLength(pos[t], enlarged, room) >= n + n

\* Write enlarges the file by much at a time, but never runs away: what an
\* upload that fails may leave behind its end is bounded, however long the
\* upload was.
ExcessBounded ==
    \A t \in Transfers :
        fileSize[t] <= eofPos[t] + GrowSize + SegmentSize + SegmentSize

\* An ASCII upload can fail at any time and its file will be cut when it is
\* destroyed: because it always asks for more room than it uses, do_truncate_
\* is set as soon as the file has grown.
AsciiGrowthIsCut ==
    \A t \in Transfers :
        ascii[t] /\ op[t] # "READ" /\ fileSize[t] > eofPos[t] => trunc[t]

\* When the client is told that an upload is complete, the file on the disk is
\* as long as what it had and what was sent, and all of these bytes are in it,
\* unless the destructor of another WfdeFile has cut the file during the
\* upload: then what lies behind the cut may be lost, and no more.
UploadExact ==
    [][\A t \in Transfers :
          UploadEnds(t) =>
              /\ size' = base[t] + moved[t]
              /\ sound'[t] = size' \/ \E c \in cuts[t] : c <= sound'[t]]_vars

\* Close is final: the file of a transfer that has been closed is not changed
\* again when the WfdeFile is destroyed, whoever has written to it since.
ClosedOnce ==
    [][\A t \in Transfers :
          stage[t] = "replied" /\ stage'[t] = "done" => size' = size]_vars
=============================================================================
