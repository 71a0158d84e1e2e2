--------------------------- MODULE WfdeFileProofs ---------------------------
(***************************************************************************)
(* Proofs about WfdeFile, for every segment size, region size and growth,  *)
(* any number of transfers and uploads of any length.                      *)
(*                                                                         *)
(* The invariants are inductive with HandleInv: between two buffers the    *)
(* position of an upload is the end of what has been received, and while   *)
(* a buffer is out it is one whole segment further.                        *)
(***************************************************************************)
EXTENDS WfdeFile, TLAPS

HandleInv(t) ==
    /\ stage[t] = "new" => moved[t] = 0
    /\ stage[t] # "new" => size # Absent
    /\ stage[t] \in {"ready", "buffer"} => pos[t] <= fileSize[t]
    /\ stage[t] # "new" /\ op[t] # "READ" => eofPos[t] = base[t] + moved[t]
    /\ op[t] # "READ" /\ (stage[t] = "ready" \/ (stage[t] = "buffer" /\ ascii[t]))
          => pos[t] = base[t] + moved[t]
    /\ stage[t] = "buffer" /\ op[t] = "READ" => last[t] > 0
    /\ stage[t] = "buffer" /\ op[t] # "READ" /\ ~ascii[t] =>
          /\ last[t] = SegmentSize
          /\ pos[t] = base[t] + moved[t] + last[t]
    /\ fileSize[t] <= eofPos[t] + GrowSize + SegmentSize + SegmentSize

IInv == TypeOK /\ \A t \in Transfers : HandleInv(t)

-----------------------------------------------------------------------------
(***************************************************************************)
(* The arithmetic of regions and buffers.                                  *)
(***************************************************************************)

\* A region has at least two segments, and the file grows by at least one
\* region.
LEMMA Sizes ==
    /\ RegionLimit \in Nat /\ RegionLimit >= SegmentSize + SegmentSize
    /\ GrowSize \in Nat /\ GrowSize >= RegionLimit
<1>1. RegionLimit \in Nat /\ RegionLimit >= SegmentSize + SegmentSize
    BY SizesAssumption DEF RegionLimit
<1>2. GrowSize \in Nat /\ GrowSize >= RegionLimit
    BY <1>1, SizesAssumption DEF GrowSize
<1> QED BY <1>1, <1>2

\* MapRegion: the region around a position begins in the segment of it.
LEMMA RegionHoldsPosition ==
    ASSUME NEW p \in Nat
    PROVE  /\ RegionStart(p) \in Int
           /\ RegionStart(p) <= p /\ p < RegionStart(p) + SegmentSize
BY SizesAssumption DEF RegionStart

\* Write: the enlarged file has room for the bytes and a segment after the
\* position, and not much more.
LEMMA EnlargedFits ==
    ASSUME NEW p \in Nat, NEW n \in Nat, p <= n, NEW b \in 1..SegmentSize
    PROVE  /\ EnlargedSize(p, n, b) \in Nat
           /\ EnlargedSize(p, n, b) >= p + b + SegmentSize
           /\ EnlargedSize(p, n, b) >= n
           /\ \/ EnlargedSize(p, n, b) = n
              \/ EnlargedSize(p, n, b) <= p + GrowSize + SegmentSize + SegmentSize
<1> DEFINE m == p + b + SegmentSize
           a == IF m % SegmentSize # 0 THEN SegmentSize ELSE 0
           r == (m \div SegmentSize) * SegmentSize + a
<1>1. m \in Nat /\ m <= p + SegmentSize + SegmentSize
    BY SizesAssumption
<1>2. r \in Int /\ r <= m + SegmentSize
  <2>1. /\ (m \div SegmentSize) * SegmentSize \in Int
        /\ (m \div SegmentSize) * SegmentSize <= m
    <3> HIDE DEF m
    <3> QED BY <1>1, RegionHoldsPosition DEF RegionStart
  <2>2. a \in 0..SegmentSize
      BY SizesAssumption
  <2> HIDE DEF a, m
  <2> QED BY <1>1, <2>1, <2>2, SizesAssumption
<1>3. EnlargedSize(p, n, b) = IF m > n THEN Larger(r, n + GrowSize) ELSE n
    BY DEF EnlargedSize
<1>4. m >= p + b + SegmentSize
    BY SizesAssumption
<1> HIDE DEF r, m
<1> QED BY <1>1, <1>2, <1>3, <1>4, Sizes, SizesAssumption DEF Larger

\* Write: with that room, the buffer is as long as was asked for.
LEMMA WriteBuffer ==
    ASSUME NEW p \in Nat, NEW n \in Nat, NEW b \in 1..SegmentSize,
           n >= p + b + SegmentSize
    PROVE  BufferLength(p, n, b) = b
<1>1. RegionLength(p, n, b) = b + SegmentSize
    BY Sizes, RegionHoldsPosition, SizesAssumption DEF RegionLength, Smaller
<1> QED BY <1>1, RegionHoldsPosition, SizesAssumption DEF BufferLength, Smaller

\* WfdeAsciiFile asks for at most a segment, and for more than it will use.
LEMMA AsciiRoomSuffices ==
    ASSUME NEW n \in 0..(SegmentSize \div 2), NEW m \in 0..n
    PROVE  AsciiRoom(n) \in 1..SegmentSize /\ m < AsciiRoom(n)
<1>1. SegmentSize \div 2 \in Nat
      /\ (SegmentSize \div 2) + (SegmentSize \div 2) <= SegmentSize
    BY SizesAssumption
<1> DEFINE h == SegmentSize \div 2
<1> HIDE DEF h
<1>2. n \in 0..h /\ h \in Nat /\ h + h <= SegmentSize
    BY <1>1 DEF h
<1> QED BY <1>2, SizesAssumption DEF AsciiRoom

\* What WfdeAsciiFile::SetBytesWritten does to the file of transfer t when
\* it stores m bytes in room for b and the file has e bytes then.
Stored(t, m, b, e) ==
    /\ e >= pos[t] + m /\ e > pos[t] + SegmentSize
    /\ e = fileSize[t] \/ e <= pos[t] + GrowSize + SegmentSize + SegmentSize
    /\ DiskSize(t, b) = IF e # fileSize[t] THEN e ELSE size
    /\ fileSize' = [fileSize EXCEPT ![t] = e]
    /\ b \in Nat /\ last' = [last EXCEPT ![t] = b]
    /\ pos' = [pos EXCEPT ![t] = pos[t] + m]
    /\ trunc' = [trunc EXCEPT ![t] = TRUE]
    /\ eofPos' = [eofPos EXCEPT ![t] = Larger(eofPos[t], pos[t] + m)]

LEMMA AsciiStores ==
    ASSUME TypeOK, NEW t \in Transfers, pos[t] <= fileSize[t],
           NEW n \in 0..(SegmentSize \div 2), NEW m \in 0..n,
           AsciiSetBytesWritten(t, n, m)
    PROVE  \E e \in Nat : Stored(t, m, AsciiRoom(n), e)
<1> DEFINE b == AsciiRoom(n)
           e == EnlargedSize(pos[t], fileSize[t], b)
           use == BufferLength(pos[t], e, b)
<1>1. pos[t] \in Nat /\ fileSize[t] \in Nat
    BY DEF TypeOK
<1>2. b \in 1..SegmentSize /\ m < b
    BY AsciiRoomSuffices
<1>a. /\ fileSize' = [fileSize EXCEPT ![t] = e]
      /\ last' = [last EXCEPT ![t] = use]
      /\ pos' = [pos EXCEPT ![t] = pos[t] + use - (use - m)]
      /\ trunc' = [trunc EXCEPT ![t] = trunc[t] \/ m < use]
      /\ eofPos' = [eofPos EXCEPT
                       ![t] = Larger(eofPos[t], pos[t] + use - (use - m))]
    BY DEF AsciiSetBytesWritten
<1>b. DiskSize(t, b) = IF e # fileSize[t] THEN e ELSE size
    BY DEF DiskSize
<1> HIDE DEF b
<1>3. /\ e \in Nat /\ e >= pos[t] + b + SegmentSize /\ e >= fileSize[t]
      /\ e = fileSize[t] \/ e <= pos[t] + GrowSize + SegmentSize + SegmentSize
    BY <1>1, <1>2, EnlargedFits
<1> HIDE DEF e
<1>4. use = b
    BY <1>1, <1>2, <1>3, WriteBuffer
<1> HIDE DEF use
<1>5. pos[t] + use - (use - m) = pos[t] + m
    BY <1>1, <1>2, <1>4, SizesAssumption
<1>6. (m < use) = TRUE
    BY <1>2, <1>4
<1>7. trunc' = [trunc EXCEPT ![t] = TRUE]
    BY <1>a, <1>6, Zenon
<1>8. e >= pos[t] + m /\ e > pos[t] + SegmentSize /\ b \in Nat
    BY <1>1, <1>2, <1>3, SizesAssumption
<1> QED BY <1>a, <1>b, <1>3, <1>4, <1>5, <1>7, <1>8 DEF b, Stored

\* Read: before the end of the file the buffer is not empty, and it does not
\* go past the end.
LEMMA ReadBuffer ==
    ASSUME NEW p \in Nat, NEW n \in Nat, p < n
    PROVE  BufferLength(p, n, 0) \in 1..(n - p)
BY Sizes, RegionHoldsPosition, SizesAssumption
   DEF BufferLength, RegionLength, Smaller

\* The count of sound bytes is a count.
LEMMA LandedType ==
    ASSUME TypeOK, NEW t \in Transfers, NEW at \in Nat, NEW n \in Nat,
           NEW disk \in Nat
    PROVE  Landed(t, at, n, disk) \in Nat
BY DEF Landed, Smaller, TypeOK

-----------------------------------------------------------------------------
LEMMA InitIInv == Init => IInv
BY Sizes, SizesAssumption
   DEF Init, IInv, TypeOK, HandleInv, Stages, Operations

\* Every step keeps the invariant: it moves one transfer.
LEMMA StepIInv == IInv /\ [Next]_vars => IInv'
<1> SUFFICES ASSUME IInv, [Next]_vars PROVE IInv'
    OBVIOUS
<1> USE SizesAssumption
<1>0. TypeOK /\ \A u \in Transfers : HandleInv(u)
    BY DEF IInv
<1>1. ASSUME NEW t \in Transfers, NEW o \in Operations, NEW a \in BOOLEAN,
             Open(t, o, a)
      PROVE  IInv'
  <2> DEFINE length == IF size = Absent \/ o = "WRITE" THEN 0 ELSE size
             start == IF o = "APPEND" THEN length ELSE 0
  <2>1. length \in Nat /\ start \in Nat /\ start <= length
      BY <1>0 DEF TypeOK, Absent
  <2>2. o # "READ" => start = length
      BY <1>1, <1>0 DEF Open, TypeOK, Absent, Operations
  <2>3. /\ size' = length /\ stage' = [stage EXCEPT ![t] = "ready"]
        /\ op' = [op EXCEPT ![t] = o] /\ pos' = [pos EXCEPT ![t] = start]
        /\ ascii' = [ascii EXCEPT ![t] = a]
        /\ fileSize' = [fileSize EXCEPT ![t] = length]
        /\ eofPos' = [eofPos EXCEPT ![t] = length]
        /\ base' = [base EXCEPT ![t] = start]
        /\ stage[t] = "new"
        /\ sound' = [sound EXCEPT ![t] = IF o = "READ" THEN 0 ELSE length]
        /\ UNCHANGED <<last, trunc, moved, cuts>>
      BY <1>1 DEF Open
  <2> HIDE DEF length, start
  <2> QED
      BY <1>0, <2>1, <2>2, <2>3, Sizes
         DEF IInv, TypeOK, HandleInv, Stages, Absent
<1>2. ASSUME NEW t \in Transfers, Write(t) PROVE IInv'
  <2> DEFINE enlarged == EnlargedSize(pos[t], fileSize[t], SegmentSize)
             use == BufferLength(pos[t], enlarged, SegmentSize)
  <2>1. pos[t] \in Nat /\ fileSize[t] \in Nat /\ pos[t] <= fileSize[t]
      BY <1>0, <1>2 DEF TypeOK, HandleInv, Write
  <2>0. SegmentSize \in 1..SegmentSize
      OBVIOUS
  <2>2. /\ enlarged \in Nat /\ enlarged >= pos[t] + SegmentSize + SegmentSize
        /\ \/ enlarged = fileSize[t]
           \/ enlarged <= pos[t] + GrowSize + SegmentSize + SegmentSize
      BY <2>0, <2>1, EnlargedFits
  <2>4. /\ size' = IF enlarged # fileSize[t] THEN enlarged ELSE size
        /\ fileSize' = [fileSize EXCEPT ![t] = enlarged]
        /\ pos' = [pos EXCEPT ![t] = pos[t] + use]
        /\ last' = [last EXCEPT ![t] = use]
        /\ stage' = [stage EXCEPT ![t] = "buffer"]
        /\ stage[t] = "ready" /\ op[t] # "READ" /\ ~ascii[t]
        /\ sound' = [sound EXCEPT ![t] = Smaller(sound[t], size')]
        /\ UNCHANGED <<op, ascii, eofPos, trunc, base, moved, cuts>>
      BY <1>2 DEF Write, DiskSize
  <2> HIDE DEF enlarged
  <2>5. size' \in Nat /\ sound' \in [Transfers -> Nat]
      BY <1>0, <2>2, <2>4 DEF TypeOK, HandleInv, Smaller
  <2>3. use = SegmentSize
      BY <2>0, <2>1, <2>2, WriteBuffer
  <2> HIDE DEF use
  <2> QED
      BY <1>0, <2>1, <2>2, <2>3, <2>4, <2>5, Sizes
         DEF IInv, TypeOK, HandleInv, Stages, Absent
<1>3. ASSUME NEW t \in Transfers, NEW n \in 1..SegmentSize, Received(t, n)
      PROVE  IInv'
  <2>1. pos[t] - last[t] = base[t] + moved[t]
      BY <1>0, <1>3 DEF Received, TypeOK, HandleInv
  <2>2. sound' \in [Transfers -> Nat]
    <3>1. base[t] + moved[t] \in Nat /\ size \in Nat /\ n \in Nat
        BY <1>0, <1>3 DEF Received, TypeOK, HandleInv
    <3>2. Landed(t, base[t] + moved[t], n, size) \in Nat
        BY <1>0, <3>1, LandedType
    <3> QED BY <1>0, <1>3, <2>1, <3>2 DEF Received, TypeOK
  <2> QED
      BY <1>0, <1>3, <2>2, Sizes
         DEF Received, SetBytesWritten, Larger, IInv, TypeOK, HandleInv, Stages
<1>12. ASSUME NEW t \in Transfers, AsciiWrite(t) PROVE IInv'
    BY <1>0, <1>12
       DEF AsciiWrite, contentVars, IInv, TypeOK, HandleInv, Stages
<1>13. ASSUME NEW t \in Transfers, NEW n \in 0..SegmentSize,
              NEW m \in 0..SegmentSize, AsciiReceived(t, n, m)
       PROVE  IInv'
  <2>1. /\ stage[t] = "buffer" /\ op[t] # "READ" /\ ascii[t]
        /\ n \in 1..(SegmentSize \div 2) /\ m \in 0..n
        /\ AsciiSetBytesWritten(t, n, m)
        /\ size' = DiskSize(t, AsciiRoom(n))
        /\ moved' = [moved EXCEPT ![t] = moved[t] + m]
        /\ stage' = [stage EXCEPT ![t] = "ready"]
        /\ sound' = [sound EXCEPT ![t] = Landed(t, pos[t], m, size')]
        /\ UNCHANGED <<op, ascii, base, cuts>>
      BY <1>13 DEF AsciiReceived
  <2>2. pos[t] <= fileSize[t]
      BY <1>0, <2>1 DEF HandleInv
  <2>3. n \in 0..(SegmentSize \div 2)
      BY <2>1
  <2>4. PICK e \in Nat : Stored(t, m, AsciiRoom(n), e)
      BY <1>0, <2>1, <2>2, <2>3, AsciiStores
  <2>5. size' \in Nat
      BY <1>0, <2>1, <2>4 DEF TypeOK, HandleInv, Stored
  <2>6. sound' \in [Transfers -> Nat]
    <3>1. pos[t] \in Nat /\ m \in Nat /\ sound \in [Transfers -> Nat]
        BY <1>0 DEF TypeOK
    <3>2. Landed(t, pos[t], m, size') \in Nat
        BY <1>0, <2>5, <3>1, LandedType
    <3> QED BY <2>1, <3>1, <3>2
  <2> QED
      BY <1>0, <2>1, <2>4, <2>5, <2>6, Sizes
         DEF IInv, TypeOK, HandleInv, Stages, Larger, Stored, Absent
<1>a. ASSUME NEW t \in Transfers, NothingReceived(t), ascii[t]
      PROVE  /\ op[t] # "READ" /\ stage[t] = "buffer"
             /\ UNCHANGED <<op, ascii, base, moved>>
             /\ \E e \in Nat : Stored(t, 0, SegmentSize, e)
  <2>1. /\ stage[t] = "buffer" /\ op[t] # "READ"
        /\ AsciiSetBytesWritten(t, 0, 0)
        /\ UNCHANGED <<op, ascii, base, moved>>
      BY <1>a DEF NothingReceived
  <2>2. pos[t] <= fileSize[t]
      BY <1>0, <2>1 DEF HandleInv
  <2>3. SegmentSize \div 2 \in Nat
      OBVIOUS
  <2>4. 0 \in 0..(SegmentSize \div 2) /\ 0 \in 0..0
      BY <2>3
  <2>5. AsciiRoom(0) = SegmentSize
      BY DEF AsciiRoom
  <2> QED BY <1>0, <2>1, <2>2, <2>4, <2>5, AsciiStores
<1>b. ASSUME NEW t \in Transfers, NothingReceived(t)
      PROVE  DiskAtEnd(t) \in Nat /\ eofPos'[t] \in Nat
  <2>1. CASE ascii[t]
      BY <1>0, <1>a, <1>b, <2>1
         DEF Stored, DiskAtEnd, TypeOK, HandleInv, Larger
  <2>2. CASE ~ascii[t]
      BY <1>0, <1>b, <2>2
         DEF NothingReceived, SetBytesWritten, DiskAtEnd, HandleInv, TypeOK,
             Larger
  <2> QED BY <2>1, <2>2
<1>c. ASSUME NEW t \in Transfers, NothingReceived(t),
             NEW s \in {"replied", "failed"},
             stage' = [stage EXCEPT ![t] = s], size' \in Nat,
             sound' \in [Transfers -> Nat], UNCHANGED cuts
      PROVE  IInv'
  <2>0. stage' \in [Transfers -> Stages]
        /\ stage'[t] \notin {"new", "ready", "buffer"}
        /\ \A v \in Transfers \ {t} : stage'[v] = stage[v]
      BY <1>0, <1>c DEF TypeOK, Stages
  <2>a. size' # Absent
      BY <1>c DEF Absent
  <2>1. CASE ascii[t]
    <3>0. /\ op[t] # "READ" /\ stage[t] = "buffer"
          /\ UNCHANGED <<op, ascii, base, moved>>
        BY <1>a, <1>c, <2>1
    <3>1. PICK e \in Nat : Stored(t, 0, SegmentSize, e)
        BY <1>a, <1>c, <2>1
    <3>2. TypeOK'
        BY <1>0, <1>c, <2>0, <3>0, <3>1 DEF TypeOK, Larger, Stored
    <3>3. HandleInv(t)'
        BY <1>0, <2>0, <2>a, <2>1, <3>0, <3>1, Sizes
           DEF TypeOK, HandleInv, Larger, Stored
    <3>4. ASSUME NEW v \in Transfers \ {t} PROVE HandleInv(v)'
        BY <1>0, <2>0, <2>a, <3>0, <3>1, <3>4
           DEF TypeOK, HandleInv, Stored
    <3> QED BY <3>2, <3>3, <3>4 DEF IInv
  <2>2. CASE ~ascii[t]
    <3>1. /\ SetBytesWritten(t, 0) /\ UNCHANGED <<op, ascii, base, moved>>
          /\ stage[t] = "buffer" /\ op[t] # "READ"
        BY <1>c, <2>2 DEF NothingReceived
    <3>2. TypeOK'
        BY <1>0, <1>c, <2>0, <2>2, <3>1
           DEF TypeOK, HandleInv, Larger, SetBytesWritten
    <3>3. HandleInv(t)'
        BY <1>0, <2>0, <2>a, <2>2, <3>1, Sizes
           DEF TypeOK, HandleInv, Larger, SetBytesWritten
    <3>4. ASSUME NEW v \in Transfers \ {t} PROVE HandleInv(v)'
        BY <1>0, <2>0, <2>a, <3>1, <3>4
           DEF TypeOK, HandleInv, SetBytesWritten
    <3> QED BY <3>2, <3>3, <3>4 DEF IInv
  <2> QED BY <2>1, <2>2
<1>4. ASSUME NEW t \in Transfers, UploadEnds(t) PROVE IInv'
  <2>1. /\ NothingReceived(t) /\ stage' = [stage EXCEPT ![t] = "replied"]
        /\ size' = Close(DiskAtEnd(t), trunc'[t], fileSize'[t], eofPos'[t])
        /\ sound' = [sound EXCEPT ![t] = Smaller(sound[t], size')]
        /\ UNCHANGED cuts
      BY <1>4 DEF UploadEnds
  <2>2. size' \in Nat
      BY <1>b, <2>1 DEF Close
  <2>3. sound' \in [Transfers -> Nat]
      BY <1>0, <2>1, <2>2 DEF TypeOK, Smaller
  <2> QED BY <1>c, <2>1, <2>2, <2>3
<1>5. ASSUME NEW t \in Transfers, Read(t) PROVE IInv'
  <2> DEFINE use == BufferLength(pos[t], fileSize[t], 0)
  <2>1. /\ pos[t] \in Nat /\ fileSize[t] \in Nat /\ pos[t] < fileSize[t]
        /\ op[t] = "READ"
    <3>1. stage[t] = "ready" /\ op[t] = "READ" /\ pos[t] # fileSize[t]
        BY <1>5 DEF Read
    <3>2. pos[t] \in Nat /\ fileSize[t] \in Nat
        BY <1>0 DEF TypeOK
    <3>3. pos[t] <= fileSize[t]
        BY <1>0, <3>1 DEF HandleInv
    <3> QED BY <3>1, <3>2, <3>3
  <2>2. use \in 1..(fileSize[t] - pos[t])
      BY <2>1, ReadBuffer
  <2>3. /\ pos' = [pos EXCEPT ![t] = pos[t] + use]
        /\ last' = [last EXCEPT ![t] = use]
        /\ stage' = [stage EXCEPT ![t] = "buffer"]
        /\ UNCHANGED <<size, op, ascii, fileSize, eofPos, trunc, base, moved,
                       sound, cuts>>
        /\ stage[t] # "new"
      BY <1>5 DEF Read, contentVars
  <2> HIDE DEF use
  <2> QED BY <1>0, <2>1, <2>2, <2>3 DEF IInv, TypeOK, HandleInv, Stages
<1>6. ASSUME NEW t \in Transfers, Sent(t) PROVE IInv'
    BY <1>0, <1>6 DEF Sent, contentVars, IInv, TypeOK, HandleInv, Stages
<1>7. ASSUME NEW t \in Transfers, DownloadEnds(t) PROVE IInv'
    BY <1>0, <1>7
       DEF DownloadEnds, contentVars, Close, IInv, TypeOK, HandleInv, Stages,
           Absent
<1>8. ASSUME NEW t \in Transfers, TransferFails(t) PROVE IInv'
    BY <1>0, <1>8
       DEF TransferFails, contentVars, IInv, TypeOK, HandleInv, Stages
<1>9. ASSUME NEW t \in Transfers, Destroy(t) PROVE IInv'
  <2>1. size' \in Nat /\ size \in Nat
      BY <1>0, <1>9 DEF Destroy, Close, TypeOK, HandleInv
  <2>2. sound' \in [Transfers -> Nat]
      BY <1>0, <1>9, <2>1 DEF Destroy, TypeOK, Smaller
  <2>3. cuts' \in [Transfers -> SUBSET Nat]
    <3> DEFINE cutBy == IF size' < size THEN {size'} ELSE {}
    <3>1. cutBy \in SUBSET Nat
        BY <2>1
    <3>2. cuts' = [u \in Transfers |-> IF ~Uploading(u) THEN {}
                                       ELSE cuts[u] \cup cutBy]
        BY <1>9 DEF Destroy
    <3> HIDE DEF cutBy
    <3> QED BY <1>0, <3>1, <3>2 DEF TypeOK
  <2>4. /\ stage[t] # "new" /\ stage' = [stage EXCEPT ![t] = "done"]
        /\ UNCHANGED <<op, ascii, pos, fileSize, eofPos, last, trunc, base,
                       moved>>
      BY <1>9 DEF Destroy
  <2> QED
      BY <1>0, <2>1, <2>2, <2>3, <2>4
         DEF IInv, TypeOK, HandleInv, Stages, Absent
<1>10. ASSUME NEW t \in Transfers, ShutdownFails(t) PROVE IInv'
    BY <1>0, <1>b, <1>c, <1>10 DEF ShutdownFails, contentVars, TypeOK
<1>11. CASE UNCHANGED vars
    BY <1>0, <1>11 DEF vars, handleVars, contentVars, IInv, TypeOK, HandleInv
<1> QED
    BY <1>1, <1>2, <1>3, <1>4, <1>5, <1>6, <1>7, <1>8, <1>9, <1>10,
       <1>11, <1>12, <1>13
       DEF Next, Proceeds

\* IInv holds in every reachable state.
THEOREM Inductive == Spec => []IInv
BY InitIInv, StepIInv, PTL DEF Spec

\* The fields of every WfdeFile keep their types: no position or size becomes
\* negative, although SetBytesWritten takes positions back.
THEOREM TypeCorrect == Spec => []TypeOK
<1>1. IInv => TypeOK
    BY DEF IInv
<1> QED BY <1>1, Inductive, PTL

\* end_of_file_pos_ is the end of what was uploaded.
THEOREM EofIsExact == Spec => []EofExact
<1>1. IInv => EofExact
    BY DEF IInv, HandleInv, EofExact
<1> QED BY <1>1, Inductive, PTL

\* WfdeAsciiFile gets as many bytes as it asks for.
LEMMA RoomIsGiven ==
    ASSUME NEW p \in Nat, NEW size_ \in Nat, p <= size_,
           NEW n \in 1..(SegmentSize \div 2)
    PROVE  BufferLength(p, EnlargedSize(p, size_, AsciiRoom(n)), AsciiRoom(n))
             >= n + n
<1> DEFINE room == AsciiRoom(n)
           e == EnlargedSize(p, size_, room)
<1>1. n \in 0..(SegmentSize \div 2) /\ n \in 0..n /\ n \in Nat /\ n # 0
    BY SizesAssumption
<1>2. room \in 1..SegmentSize /\ room = n + n
    BY <1>1, AsciiRoomSuffices DEF AsciiRoom
<1> HIDE DEF room
<1>3. e \in Nat /\ e >= p + room + SegmentSize
    BY <1>2, EnlargedFits
<1> HIDE DEF e
<1>4. BufferLength(p, e, room) = room
    BY <1>2, <1>3, WriteBuffer
<1> QED BY <1>1, <1>2, <1>4 DEF e, room

\* The assertion of Write, and that a download comes to its end: every buffer
\* that Write and Read hand out lies inside the file and is not empty, one for
\* an upload is a whole segment, and one for text has room for its conversion.
THEOREM BuffersFit == Spec => []BufferFits
<1>1. ASSUME IInv, NEW t \in Transfers, stage[t] = "buffer"
      PROVE  /\ pos[t] <= fileSize[t]
             /\ op[t] = "READ" => last[t] > 0
             /\ op[t] # "READ" /\ ~ascii[t] => last[t] = SegmentSize
             /\ pos[t] \in Nat /\ fileSize[t] \in Nat
    BY <1>1 DEF IInv, HandleInv, TypeOK
<1>2. IInv => BufferFits
    BY <1>1, RoomIsGiven DEF BufferFits
<1> QED BY <1>2, Inductive, PTL

\* What a failed upload leaves behind the end of the file is bounded by the
\* step the file grows by.
THEOREM ExcessIsBounded == Spec => []ExcessBounded
<1>1. IInv => ExcessBounded
    BY DEF IInv, HandleInv, ExcessBounded
<1> QED BY <1>1, Inductive, PTL

\* do_truncate_ is set as soon as an ASCII upload has made the file grow.
THEOREM AsciiIsCut == Spec => []AsciiGrowthIsCut
<1> DEFINE P(t) == ascii[t] /\ op[t] # "READ" /\ fileSize[t] > eofPos[t]
                      => trunc[t]
<1>1. Init => AsciiGrowthIsCut
    BY DEF Init, AsciiGrowthIsCut
<1>2. ASSUME IInv, AsciiGrowthIsCut, [Next]_vars PROVE AsciiGrowthIsCut'
  <2> USE SizesAssumption
  <2>0. TypeOK /\ \A u \in Transfers : HandleInv(u) /\ P(u)
      BY <1>2 DEF IInv, AsciiGrowthIsCut
  <2> SUFFICES ASSUME NEW u \in Transfers PROVE P(u)'
      BY DEF AsciiGrowthIsCut
  <2>1. ASSUME NEW t \in Transfers, NEW o \in Operations, NEW a \in BOOLEAN,
               Open(t, o, a)
        PROVE  P(u)'
    <3> DEFINE length == IF size = Absent \/ o = "WRITE" THEN 0 ELSE size
    <3>1. length \in Nat
        BY <2>0, <2>1 DEF TypeOK, Absent
    <3>2. /\ fileSize' = [fileSize EXCEPT ![t] = length]
          /\ eofPos' = [eofPos EXCEPT ![t] = length]
          /\ op' = [op EXCEPT ![t] = o] /\ ascii' = [ascii EXCEPT ![t] = a]
          /\ trunc' = trunc
        BY <2>1 DEF Open
    <3> HIDE DEF length
    <3>3. CASE u = t
        BY <2>0, <3>1, <3>2, <3>3 DEF TypeOK
    <3>4. CASE u # t
        BY <2>0, <3>2, <3>4 DEF TypeOK
    <3> QED BY <3>3, <3>4
  <2>2. ASSUME NEW t \in Transfers, ~ascii[t] \/ op[t] = "READ",
               UNCHANGED <<op, ascii>>,
               \A v \in Transfers \ {t} :
                  /\ fileSize'[v] = fileSize[v] /\ eofPos'[v] = eofPos[v]
                  /\ trunc'[v] = trunc[v]
        PROVE  P(u)'
    <3>1. CASE u = t
        BY <2>2, <3>1
    <3>2. CASE u # t
        BY <2>0, <2>2, <3>2
    <3> QED BY <3>1, <3>2
  <2>3. ASSUME NEW t \in Transfers, NEW m \in Nat, NEW b, NEW e,
               Stored(t, m, b, e), UNCHANGED <<op, ascii>>
        PROVE  P(u)'
    <3>1. CASE u = t
      <4>1. trunc'[u] = TRUE
          BY <2>0, <2>3, <3>1 DEF Stored, TypeOK
      <4> QED BY <4>1
    <3>2. CASE u # t
      <4>1. /\ fileSize'[u] = fileSize[u] /\ eofPos'[u] = eofPos[u]
            /\ trunc'[u] = trunc[u]
          BY <2>0, <2>3, <3>2 DEF Stored, TypeOK
      <4> QED BY <2>0, <2>3, <4>1
    <3> QED BY <3>1, <3>2
  <2>4. ASSUME UNCHANGED <<op, ascii, fileSize, eofPos, trunc>> PROVE P(u)'
      BY <2>0, <2>4
  <2>5. ASSUME NEW t \in Transfers, \E n \in Nat : SetBytesWritten(t, n), ~ascii[t], UNCHANGED <<op, ascii>>
        PROVE  P(u)'
    <3>1. \A v \in Transfers \ {t} :
              /\ fileSize'[v] = fileSize[v] /\ eofPos'[v] = eofPos[v]
              /\ trunc'[v] = trunc[v]
        BY <2>0, <2>5 DEF SetBytesWritten, TypeOK
    <3> QED BY <2>2, <2>5, <3>1
  <2>6. ASSUME NEW t \in Transfers, pos[t] <= fileSize[t],
               NEW n \in 0..(SegmentSize \div 2), NEW m \in 0..n,
               AsciiSetBytesWritten(t, n, m), UNCHANGED <<op, ascii>>
        PROVE  P(u)'
    <3>1. PICK e \in Nat : Stored(t, m, AsciiRoom(n), e)
        BY <2>0, <2>6, AsciiStores
    <3>2. m \in Nat
        OBVIOUS
    <3> QED BY <2>3, <2>6, <3>1, <3>2
  <2>7. ASSUME NEW t \in Transfers, NothingReceived(t) PROVE P(u)'
    <3>1. UNCHANGED <<op, ascii>> /\ stage[t] = "buffer"
        BY <2>7 DEF NothingReceived
    <3>2. CASE ascii[t]
      <4>1. AsciiSetBytesWritten(t, 0, 0) /\ pos[t] <= fileSize[t]
          BY <2>0, <2>7, <3>1, <3>2 DEF NothingReceived, HandleInv
      <4>2. SegmentSize \div 2 \in Nat
          OBVIOUS
      <4>3. 0 \in 0..(SegmentSize \div 2) /\ 0 \in 0..0
          BY <4>2
      <4> QED BY <2>6, <3>1, <4>1, <4>3
    <3>3. CASE ~ascii[t]
        BY <2>5, <2>7, <3>1, <3>3 DEF NothingReceived
    <3> QED BY <3>2, <3>3
  <2>8. ASSUME NEW t \in Transfers, Write(t) PROVE P(u)'
    <3>1. \A v \in Transfers \ {t} :
              /\ fileSize'[v] = fileSize[v] /\ eofPos'[v] = eofPos[v]
              /\ trunc'[v] = trunc[v]
        BY <2>0, <2>8 DEF Write, TypeOK
    <3>2. ~ascii[t] /\ UNCHANGED <<op, ascii>>
        BY <2>8 DEF Write
    <3> QED BY <2>2, <3>1, <3>2
  <2>9. ASSUME NEW t \in Transfers, NEW n \in 1..SegmentSize, Received(t, n)
        PROVE  P(u)'
      BY <2>5, <2>9 DEF Received
  <2>10. ASSUME NEW t \in Transfers, NEW n \in 0..SegmentSize,
                NEW m \in 0..SegmentSize, AsciiReceived(t, n, m)
         PROVE  P(u)'
    <3>1. /\ n \in 0..(SegmentSize \div 2) /\ m \in 0..n
          /\ AsciiSetBytesWritten(t, n, m) /\ UNCHANGED <<op, ascii>>
          /\ stage[t] = "buffer"
        BY <2>10 DEF AsciiReceived
    <3>2. pos[t] <= fileSize[t]
        BY <2>0, <3>1 DEF HandleInv
    <3> QED BY <2>6, <3>1, <3>2
  <2>11. ASSUME NEW t \in Transfers,
                \/ AsciiWrite(t) \/ Read(t) \/ Sent(t) \/ DownloadEnds(t)
                \/ TransferFails(t) \/ Destroy(t)
         PROVE  P(u)'
      BY <2>4, <2>11
         DEF AsciiWrite, Read, Sent, DownloadEnds, TransferFails, Destroy
  <2>12. ASSUME NEW t \in Transfers, UploadEnds(t) \/ ShutdownFails(t)
         PROVE  P(u)'
      BY <2>7, <2>12 DEF UploadEnds, ShutdownFails
  <2>13. CASE UNCHANGED vars
      BY <2>4, <2>13 DEF vars, handleVars
  <2> QED
      BY <1>2, <2>1, <2>8, <2>9, <2>10, <2>11, <2>12, <2>13
         DEF Next, Proceeds
<1> QED BY <1>1, <1>2, Inductive, PTL DEF Spec

(***************************************************************************)
(* The bytes of an upload in progress, of which there is one at a time.    *)
(* The disk file is as long as its WfdeFile believes, and all that was     *)
(* received is in it, or another WfdeFile has cut it meanwhile.            *)
(***************************************************************************)
Active(t) == stage[t] \in {"ready", "buffer"}

OneActive == \A t, u \in Transfers : Active(t) /\ Active(u) => t = u

Content(t) ==
    Uploading(t) =>
        /\ sound[t] <= size /\ sound[t] <= base[t] + moved[t]
        /\ size >= fileSize[t] \/ \E c \in cuts[t] : c <= size
        /\ \/ sound[t] = base[t] + moved[t]
           \/ \E c \in cuts[t] : c <= sound[t]

ContentInv == OneActive /\ \A t \in Transfers : Content(t)

\* A step of the active transfer, or of one that becomes active when there is
\* none, disturbs no other upload.
LEMMA OthersIdle ==
    ASSUME TypeOK, ContentInv, NEW t \in Transfers,
           Active(t) \/ (\A u \in Transfers : ~Active(u)),
           NEW s, stage' = [stage EXCEPT ![t] = s],
           Content(t)'
    PROVE  ContentInv'
<1>1. stage \in [Transfers -> Stages]
    BY DEF TypeOK
<1>2. \A u \in Transfers \ {t} : ~Active(u) /\ stage'[u] = stage[u]
    BY <1>1 DEF ContentInv, OneActive
<1>3. \A u \in Transfers \ {t} : ~Active(u)'
    BY <1>2 DEF Active
<1>4. OneActive'
    BY <1>3 DEF OneActive
<1>5. \A u \in Transfers \ {t} : Content(u)'
    BY <1>3 DEF Content, Uploading, Active
<1> QED BY <1>4, <1>5 DEF ContentInv

\* Bytes that are stored where the sound ones end are sound, but for those
\* behind the end of the file.
LEMMA LandedSound ==
    ASSUME TypeOK, NEW t \in Transfers, Content(t), Uploading(t), NEW n \in Nat, NEW disk \in Nat,
           NEW at, at = base[t] + moved[t],
           disk >= at + n \/ \E c \in cuts[t] : c <= disk,
           sound[t] <= disk
    PROVE  /\ Landed(t, at, n, disk) <= disk
           /\ Landed(t, at, n, disk) <= at + n
           /\ \/ Landed(t, at, n, disk) = at + n
              \/ \E c \in cuts[t] : c <= Landed(t, at, n, disk)
<1>1. at \in Nat /\ sound[t] \in Nat /\ sound[t] <= at
    BY DEF TypeOK, Content
<1>2. CASE at = sound[t]
  <2>1. Landed(t, at, n, disk) = Smaller(at + n, disk)
      BY <1>2 DEF Landed
  <2>2. CASE at + n < disk
      BY <1>1, <2>1, <2>2 DEF Smaller
  <2>3. CASE ~(at + n < disk)
      BY <1>1, <2>1, <2>3 DEF Smaller
  <2> QED BY <2>2, <2>3
<1>3. CASE at # sound[t]
  <2>1. Landed(t, at, n, disk) = sound[t]
      BY <1>1, <1>3 DEF Landed, Smaller
  <2>2. \E c \in cuts[t] : c <= sound[t]
      BY <1>3 DEF Content
  <2> QED BY <1>1, <2>1, <2>2
<1> QED BY <1>2, <1>3

LEMMA InitContent == Init => ContentInv
BY DEF Init, ContentInv, OneActive, Content, Uploading, Active

\* The destructor of another WfdeFile leaves the sound bytes alone, or cuts.
LEMMA DestroyContent ==
    ASSUME IInv, ContentInv, NEW t \in Transfers, Destroy(t)
    PROVE  ContentInv'
<1>0. /\ TypeOK /\ size \in Nat /\ size' \in Nat
      /\ stage' = [stage EXCEPT ![t] = "done"] /\ ~Active(t)
      /\ UNCHANGED <<op, fileSize, base, moved>>
      /\ sound' = [u \in Transfers |->
                      IF Uploading(u) THEN Smaller(sound[u], size') ELSE 0]
      /\ cuts' = [u \in Transfers |->
                    IF ~Uploading(u) THEN {}
                    ELSE cuts[u] \cup (IF size' < size THEN {size'} ELSE {})]
    BY DEF Destroy, Close, IInv, TypeOK, HandleInv, Active
<1>1. ASSUME NEW u \in Transfers
      PROVE  (Active(u)' <=> Active(u)) /\ (Uploading(u)' <=> Uploading(u))
    BY <1>0 DEF TypeOK, Active, Uploading
<1>2. OneActive'
    BY <1>1 DEF ContentInv, OneActive
<1>3. ASSUME NEW u \in Transfers, Uploading(u) PROVE Content(u)'
  <2>1. /\ sound[u] \in Nat /\ fileSize[u] \in Nat
        /\ base[u] + moved[u] \in Nat
        /\ sound[u] <= size /\ sound[u] <= base[u] + moved[u]
        /\ size >= fileSize[u] \/ \E c \in cuts[u] : c <= size
        /\ \/ sound[u] = base[u] + moved[u]
           \/ \E c \in cuts[u] : c <= sound[u]
        /\ cuts[u] \in SUBSET Nat
      BY <1>0, <1>3 DEF TypeOK, ContentInv, Content
  <2>2. /\ sound'[u] = Smaller(sound[u], size')
        /\ cuts[u] \subseteq cuts'[u]
        /\ size' < size => size' \in cuts'[u]
      BY <1>0, <1>3
  <2>3. /\ sound'[u] <= size' /\ sound'[u] <= base[u] + moved[u]
        /\ sound'[u] = sound[u] \/ (sound'[u] = size' /\ size' < size)
      BY <1>0, <2>1, <2>2 DEF Smaller
  <2>4. size' >= fileSize[u] \/ \E c \in cuts'[u] : c <= size'
    <3>1. CASE size' < size
        BY <1>0, <2>2, <3>1
    <3>2. CASE size <= size'
        BY <1>0, <2>1, <2>2, <3>2
    <3> QED BY <1>0, <3>1, <3>2
  <2>5. \/ sound'[u] = base[u] + moved[u]
        \/ \E c \in cuts'[u] : c <= sound'[u]
      BY <1>0, <2>1, <2>2, <2>3
  <2> QED BY <1>0, <2>3, <2>4, <2>5 DEF Content
<1>4. ASSUME NEW u \in Transfers, ~Uploading(u) PROVE Content(u)'
    BY <1>1, <1>4 DEF Content
<1> QED BY <1>2, <1>3, <1>4 DEF ContentInv

\* Every step keeps what is known of the bytes of uploads.
LEMMA StepContent ==
    ASSUME IInv, ContentInv, [Next]_vars PROVE ContentInv'
<1> USE SizesAssumption
<1>0. TypeOK /\ ContentInv /\ \A u \in Transfers : HandleInv(u) /\ Content(u)
    BY DEF IInv, ContentInv
<1>1. ASSUME NEW t \in Transfers, NEW o \in Operations, NEW a \in BOOLEAN,
             Open(t, o, a)
      PROVE  ContentInv'
  <2> DEFINE length == IF size = Absent \/ o = "WRITE" THEN 0 ELSE size
             start == IF o = "APPEND" THEN length ELSE 0
  <2>1. /\ size' = length /\ stage' = [stage EXCEPT ![t] = "ready"]
        /\ op' = [op EXCEPT ![t] = o] /\ base' = [base EXCEPT ![t] = start]
        /\ fileSize' = [fileSize EXCEPT ![t] = length]
        /\ stage[t] = "new" /\ moved' = moved
        /\ sound' = [sound EXCEPT ![t] = IF o = "READ" THEN 0 ELSE length]
        /\ \A u \in Transfers : ~Active(u)
      BY <1>1 DEF Open, Active
  <2>2. length \in Nat /\ (o # "READ" => start = length)
      BY <1>0, <1>1 DEF Open, TypeOK, Absent, Operations
  <2> HIDE DEF length, start
  <2>3. moved[t] = 0
      BY <1>0, <2>1 DEF HandleInv
  <2>4. Content(t)'
      BY <1>0, <2>1, <2>2, <2>3 DEF Content, Uploading, TypeOK
  <2> QED BY <1>0, <2>1, <2>4, OthersIdle
<1>2. ASSUME NEW t \in Transfers, Write(t) PROVE ContentInv'
  <2> DEFINE e == EnlargedSize(pos[t], fileSize[t], SegmentSize)
  <2>1. /\ stage' = [stage EXCEPT ![t] = "buffer"]
        /\ stage[t] = "ready" /\ op[t] # "READ" /\ ~ascii[t]
        /\ size' = IF e # fileSize[t] THEN e ELSE size
        /\ fileSize' = [fileSize EXCEPT ![t] = e]
        /\ sound' = [sound EXCEPT ![t] = Smaller(sound[t], size')]
        /\ UNCHANGED <<op, base, moved, cuts>>
      BY <1>2 DEF Write, DiskSize
  <2>2. /\ pos[t] \in Nat /\ fileSize[t] \in Nat /\ pos[t] <= fileSize[t]
        /\ pos[t] = base[t] + moved[t]
        /\ size \in Nat /\ sound[t] \in Nat /\ cuts[t] \in SUBSET Nat
      BY <1>0, <2>1 DEF TypeOK, HandleInv
  <2>3. SegmentSize \in 1..SegmentSize
      OBVIOUS
  <2>4. e \in Nat /\ e >= fileSize[t]
      BY <2>2, <2>3, EnlargedFits
  <2> HIDE DEF e
  <2>5. /\ sound[t] <= size /\ sound[t] <= pos[t]
        /\ size >= fileSize[t] \/ \E c \in cuts[t] : c <= size
        /\ sound[t] = pos[t] \/ \E c \in cuts[t] : c <= sound[t]
      BY <1>0, <2>1, <2>2 DEF Content, Uploading
  <2>a. /\ sound[t] <= size' /\ size' \in Nat
        /\ size' >= e \/ \E c \in cuts[t] : c <= size'
      BY <2>1, <2>2, <2>4, <2>5
  <2>b. fileSize'[t] = e /\ sound'[t] = Smaller(sound[t], size')
      BY <1>0, <2>1 DEF TypeOK
  <2>6. /\ sound'[t] = sound[t] /\ sound[t] <= size' /\ fileSize'[t] = e
        /\ size' >= e \/ \E c \in cuts[t] : c <= size'
      BY <2>2, <2>a, <2>b DEF Smaller
  <2>7. Content(t)'
      BY <2>1, <2>2, <2>5, <2>6 DEF Content
  <2>8. Active(t)
      BY <2>1 DEF Active
  <2> QED BY <1>0, <2>1, <2>7, <2>8, OthersIdle
<1>3. ASSUME NEW t \in Transfers, NEW n \in 1..SegmentSize, Received(t, n)
      PROVE  ContentInv'
  <2> DEFINE at == base[t] + moved[t]
  <2>1. /\ stage' = [stage EXCEPT ![t] = "ready"] /\ stage[t] = "buffer"
        /\ op[t] # "READ" /\ ~ascii[t] /\ n \in 1..last[t]
        /\ moved' = [moved EXCEPT ![t] = moved[t] + n]
        /\ sound' = [sound EXCEPT ![t] = Landed(t, pos[t] - last[t], n, size)]
        /\ UNCHANGED <<size, op, base, cuts, fileSize>>
      BY <1>3 DEF Received, SetBytesWritten
  <2>2. /\ pos[t] = at + last[t] /\ pos[t] <= fileSize[t] /\ at \in Nat
        /\ last[t] \in Nat /\ fileSize[t] \in Nat /\ pos[t] - last[t] = at
        /\ size \in Nat /\ cuts[t] \in SUBSET Nat /\ n \in Nat
      BY <1>0, <2>1 DEF TypeOK, HandleInv
  <2>3. /\ Uploading(t) /\ sound[t] <= size
        /\ size >= fileSize[t] \/ \E c \in cuts[t] : c <= size
      BY <1>0, <2>1 DEF Content, Uploading
  <2>5. moved'[t] = moved[t] + n /\ sound'[t] = Landed(t, at, n, size)
      BY <1>0, <2>1, <2>2 DEF TypeOK
  <2>a. base[t] + moved'[t] = at + n
      BY <1>0, <2>1, <2>5 DEF TypeOK
  <2>b. at = base[t] + moved[t]
      OBVIOUS
  <2> HIDE DEF at
  <2>4. size >= at + n \/ \E c \in cuts[t] : c <= size
      BY <2>1, <2>2, <2>3
  <2>6. /\ Landed(t, at, n, size) <= size
        /\ Landed(t, at, n, size) <= at + n
        /\ \/ Landed(t, at, n, size) = at + n
           \/ \E c \in cuts[t] : c <= Landed(t, at, n, size)
      BY <1>0, <2>2, <2>3, <2>4, <2>b, LandedSound
  <2>7. Content(t)'
      BY <2>1, <2>3, <2>5, <2>6, <2>a DEF Content
  <2>8. Active(t)
      BY <2>1 DEF Active
  <2> QED BY <1>0, <2>1, <2>7, <2>8, OthersIdle
<1>4. ASSUME NEW t \in Transfers, NEW n \in 0..SegmentSize,
             NEW m \in 0..SegmentSize, AsciiReceived(t, n, m)
      PROVE  ContentInv'
  <2> DEFINE at == base[t] + moved[t]
  <2>1. /\ stage[t] = "buffer" /\ op[t] # "READ" /\ ascii[t]
        /\ n \in 0..(SegmentSize \div 2) /\ m \in 0..n
        /\ AsciiSetBytesWritten(t, n, m)
        /\ size' = DiskSize(t, AsciiRoom(n))
        /\ moved' = [moved EXCEPT ![t] = moved[t] + m]
        /\ stage' = [stage EXCEPT ![t] = "ready"]
        /\ sound' = [sound EXCEPT ![t] = Landed(t, pos[t], m, size')]
        /\ UNCHANGED <<op, base, cuts>>
      BY <1>4 DEF AsciiReceived
  <2>2. /\ pos[t] <= fileSize[t] /\ pos[t] = at /\ at \in Nat
        /\ fileSize[t] \in Nat /\ size \in Nat /\ cuts[t] \in SUBSET Nat
        /\ m \in Nat /\ sound[t] \in Nat
      BY <1>0, <2>1 DEF TypeOK, HandleInv
  <2>3. PICK e \in Nat : Stored(t, m, AsciiRoom(n), e)
      BY <1>0, <2>1, <2>2, AsciiStores
  <2>4. /\ e >= at + m
        /\ size' = IF e # fileSize[t] THEN e ELSE size
        /\ fileSize' = [fileSize EXCEPT ![t] = e]
      BY <2>1, <2>2, <2>3 DEF Stored
  <2>5. /\ Uploading(t) /\ sound[t] <= size /\ sound[t] <= at
        /\ size >= fileSize[t] \/ \E c \in cuts[t] : c <= size
      BY <1>0, <2>1 DEF Content, Uploading
  <2>a. base[t] + moved'[t] = at + m /\ sound'[t] = Landed(t, at, m, size')
      BY <1>0, <2>1, <2>2 DEF TypeOK
  <2>b. at = base[t] + moved[t]
      OBVIOUS
  <2>c. fileSize'[t] = e
      BY <1>0, <2>4 DEF TypeOK
  <2> HIDE DEF at
  <2>6. /\ size' \in Nat /\ sound[t] <= size'
        /\ size' >= e \/ \E c \in cuts[t] : c <= size'
      BY <2>2, <2>4, <2>5
  <2>7. size' >= at + m \/ \E c \in cuts[t] : c <= size'
      BY <2>2, <2>4, <2>6
  <2>8. /\ Landed(t, at, m, size') <= size'
        /\ Landed(t, at, m, size') <= at + m
        /\ \/ Landed(t, at, m, size') = at + m
           \/ \E c \in cuts[t] : c <= Landed(t, at, m, size')
      BY <1>0, <2>2, <2>5, <2>6, <2>7, <2>b, LandedSound
  <2>9. Content(t)'
      BY <2>1, <2>6, <2>8, <2>a, <2>c DEF Content
  <2>10. Active(t)
      BY <2>1 DEF Active
  <2> QED BY <1>0, <2>1, <2>9, <2>10, OthersIdle
<1>5. ASSUME NEW t \in Transfers, AsciiWrite(t) PROVE ContentInv'
  <2>1. /\ stage' = [stage EXCEPT ![t] = "buffer"]
        /\ Active(t) /\ Uploading(t)
        /\ UNCHANGED <<size, op, fileSize, base, moved, sound, cuts>>
      BY <1>5 DEF AsciiWrite, contentVars, Active, Uploading
  <2>2. Content(t)'
      BY <1>0, <2>1 DEF Content
  <2> QED BY <1>0, <2>1, <2>2, OthersIdle
<1>6. ASSUME NEW t \in Transfers, UploadEnds(t) \/ ShutdownFails(t)
      PROVE  ContentInv'
  <2>1. PICK s \in {"replied", "failed"} : stage' = [stage EXCEPT ![t] = s]
      BY <1>6 DEF UploadEnds, ShutdownFails
  <2>2. Active(t)
      BY <1>6 DEF UploadEnds, ShutdownFails, NothingReceived, Active
  <2>3. Content(t)'
      BY <1>0, <2>1 DEF Content, Uploading, TypeOK
  <2> QED BY <1>0, <2>1, <2>2, <2>3, OthersIdle
<1>7. ASSUME NEW t \in Transfers,
             Read(t) \/ Sent(t) \/ DownloadEnds(t) \/ TransferFails(t)
      PROVE  ContentInv'
  <2>1. PICK s \in Stages : stage' = [stage EXCEPT ![t] = s]
      BY <1>7 DEF Read, Sent, DownloadEnds, TransferFails, Stages
  <2>2. Active(t)
      BY <1>7 DEF Read, Sent, DownloadEnds, TransferFails, Active
  <2>3. Content(t)'
    <3>1. op' = op /\ (op[t] = "READ" \/ stage' = [stage EXCEPT ![t] = "failed"])
        BY <1>7 DEF Read, Sent, DownloadEnds, TransferFails
    <3> QED BY <1>0, <3>1 DEF Content, Uploading, TypeOK
  <2> QED BY <1>0, <2>1, <2>2, <2>3, OthersIdle
<1>8. ASSUME NEW t \in Transfers, Destroy(t) PROVE ContentInv'
    BY <1>8, DestroyContent
<1>9. CASE UNCHANGED vars
    BY <1>0, <1>9
       DEF vars, handleVars, contentVars, ContentInv, OneActive, Content,
           Uploading, Active
<1> QED
    BY <1>1, <1>2, <1>3, <1>4, <1>5, <1>6, <1>7, <1>8, <1>9
       DEF Next, Proceeds

\* Close cuts a file that was uploaded completely to exactly what was sent:
\* the growth that Write added last is always there to be cut. Write and
\* SetBytesWritten put every byte behind the one before, and only the
\* destructor of another WfdeFile can take bytes away.
THEOREM UploadIsExact == Spec => UploadExact
<1>1. ASSUME IInv, NEW t \in Transfers, UploadEnds(t)
      PROVE  size' = base[t] + moved[t]
  <2>0. /\ NothingReceived(t) /\ TypeOK /\ HandleInv(t)
        /\ stage[t] = "buffer" /\ op[t] # "READ"
        /\ size' = Close(DiskAtEnd(t), trunc'[t], fileSize'[t], eofPos'[t])
      BY <1>1 DEF IInv, UploadEnds, NothingReceived
  <2>1. /\ eofPos'[t] = base[t] + moved[t] /\ trunc'[t] = TRUE
        /\ fileSize'[t] > base[t] + moved[t]
    <3>1. CASE ascii[t]
      <4>1. pos[t] <= fileSize[t] /\ AsciiSetBytesWritten(t, 0, 0)
          BY <2>0, <3>1 DEF HandleInv, NothingReceived
      <4>2. SegmentSize \div 2 \in Nat
          BY SizesAssumption
      <4>3. 0 \in 0..(SegmentSize \div 2) /\ 0 \in 0..0
          BY <4>2
      <4>4. PICK e \in Nat : Stored(t, 0, AsciiRoom(0), e)
          BY <2>0, <4>1, <4>3, AsciiStores
      <4>5. pos[t] = base[t] + moved[t] /\ eofPos[t] = base[t] + moved[t]
          BY <2>0, <3>1 DEF HandleInv
      <4> QED
          BY <2>0, <4>4, <4>5, SizesAssumption DEF TypeOK, Stored, Larger
    <3>2. CASE ~ascii[t]
      <4>1. /\ pos[t] - (last[t] - 0) = base[t] + moved[t]
            /\ eofPos[t] = base[t] + moved[t]
            /\ fileSize[t] > base[t] + moved[t] /\ (0 < last[t]) = TRUE
          BY <2>0, <3>2, SizesAssumption DEF TypeOK, HandleInv
      <4>2. SetBytesWritten(t, 0)
          BY <2>0, <3>2 DEF NothingReceived
      <4>3. trunc'[t] = TRUE
        <5>1. trunc \in [Transfers -> BOOLEAN]
            BY <2>0 DEF TypeOK
        <5>2. trunc' = [trunc EXCEPT ![t] = trunc[t] \/ 0 < last[t]]
            BY <4>2 DEF SetBytesWritten
        <5> QED BY <4>1, <5>1, <5>2, Zenon
      <4>4. eofPos'[t] = base[t] + moved[t] /\ fileSize' = fileSize
          BY <2>0, <4>1, <4>2 DEF TypeOK, SetBytesWritten, Larger
      <4> QED BY <4>1, <4>3, <4>4
    <3> QED BY <3>1, <3>2
  <2> QED BY <2>0, <2>1 DEF Close
<1>2. ASSUME IInv, ContentInv, NEW t \in Transfers, UploadEnds(t)
      PROVE  sound'[t] = size' \/ \E c \in cuts[t] : c <= sound'[t]
  <2>1. /\ sound'[t] = Smaller(sound[t], size')
        /\ Uploading(t) /\ sound[t] \in Nat /\ base[t] + moved[t] \in Nat
      BY <1>2
         DEF IInv, TypeOK, UploadEnds, NothingReceived, Uploading
  <2>2. /\ sound[t] <= base[t] + moved[t]
        /\ \/ sound[t] = base[t] + moved[t]
           \/ \E c \in cuts[t] : c <= sound[t]
      BY <1>2, <2>1 DEF ContentInv, Content
  <2>3. size' = base[t] + moved[t]
      BY <1>1, <1>2
  <2>4. sound'[t] = sound[t]
      BY <2>1, <2>2, <2>3 DEF Smaller
  <2> QED BY <2>2, <2>3, <2>4
<1>3. IInv /\ ContentInv /\ [Next]_vars =>
          [\A t \in Transfers :
              UploadEnds(t) =>
                  /\ size' = base[t] + moved[t]
                  /\ sound'[t] = size' \/ \E c \in cuts[t] : c <= sound'[t]]_vars
    BY <1>1, <1>2
<1>4. IInv /\ ContentInv /\ [Next]_vars => ContentInv'
    BY StepContent
<1> QED BY <1>3, <1>4, InitContent, Inductive, PTL DEF Spec, UploadExact
=============================================================================
