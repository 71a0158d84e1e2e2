-------------------------- MODULE FtpDialogueProofs -------------------------
(***************************************************************************)
(* The safety properties of FtpDialogue hold for every directory, every    *)
(* set of sub-mounts, every buffer size and all offsets and facts a client *)
(* may give.                                                               *)
(*                                                                         *)
(* The first part is about DirLister alone: every step of a listing keeps  *)
(* ListerInv, whatever others do to the directory. The second part says    *)
(* which stages of the lister go with which stages of the transfer, and    *)
(* where a setting comes from.                                             *)
(***************************************************************************)
EXTENDS FtpDialogue, TLAPS

\* How the iterator's members go together.
IteratorInv ==
    /\ isEof => (haveVpath <=> entry # NoName) /\ unread \subseteq changed
    /\ ~isEof => ~haveVpath /\ entry # NoName
    /\ More => entry \in Names
    /\ stage = "mounts" => ~isEof
    /\ stage # "mounts" => unchecked = {}
    /\ stage # "none" /\ ~More => vpaths = {}
    /\ atEnd => ~More

(***************************************************************************)
(* Where a name is that nobody has changed and that was read right: still  *)
(* to come (readdir() will return it, it has to be looked at as a          *)
(* sub-mount, or it is in vpaths), the iterator's own, or done. It is in   *)
(* one place at a time.                                                    *)
(***************************************************************************)
Located(n) ==
    /\ listed[n] \in {0, 1}
    /\ n \in unread => n \in disk /\ n # entry /\ listed[n] = 0
    /\ n \in vpaths => /\ n \notin disk /\ n # entry /\ n \notin unchecked
                       /\ listed[n] = 0
    /\ n \in unchecked => listed[n] = 0
    /\ n = entry => /\ listed[n] = 0 /\ n \in disk \cup Mounts
                    /\ n \in unchecked => n \in disk
    /\ listed[n] = 1 => Visible(n) /\ n \in disk \cup Mounts
    /\ stage # "none" /\ Visible(n) /\ listed[n] = 0 =>
           /\ n \in disk => n \in unread \/ n = entry
           /\ n \in Mounts \ disk => n \in unchecked \/ n \in vpaths \/ n = entry

NamesInv == \A n \in Names \ (changed \cup garbled) : Located(n)

\* A hidden name that was read right is listed only by a lister that shows
\* hidden files.
HiddenInv == \A n \in HiddenNames \ garbled :
                 listed[n] > 0 => show /\ stage # "none"

\* The formatter and bytes_used_ agree while a batch is made.
BufferInv ==
    /\ BatchSound
    /\ stage \in {"none", "mounts"} => cur = 0 /\ ~atEnd
    /\ stage \in {"ready", "batch"} /\ ~atEnd => cur = 0
    /\ stage = "filling" => ~atEnd

ListerInv == ListerTypeOK /\ IteratorInv /\ NamesInv /\ HiddenInv /\ BufferInv

-----------------------------------------------------------------------------
LEMMA ListerInitInv == ListerInit => ListerInv /\ stage = "none"
  <1> SUFFICES ASSUME ListerInit
               PROVE  ListerInv /\ stage = "none"
    OBVIOUS
  <1> USE NamesAssumption, SizesAssumption DEF ListerInit
  <1>1. ListerTypeOK
    <2>1. cur \in 0..BufferSize /\ used \in 0..BufferSize
      BY SizesAssumption
    <2>2. listed \in [Names -> Nat]
      OBVIOUS
    <2>3. Dot \in disk /\ disk \subseteq Names /\ changed \subseteq Names \ {Dot}
      OBVIOUS
    <2> QED
      BY <2>1, <2>2, <2>3 DEF ListerTypeOK, ListerStages
  <1>2. IteratorInv
    BY DEF IteratorInv, More
  <1>3. NamesInv /\ HiddenInv
    BY DEF NamesInv, HiddenInv, Located, Visible
  <1>4. BufferInv
    BY DEF BufferInv, BatchSound
  <1> QED
    BY <1>1, <1>2, <1>3, <1>4 DEF ListerInv

\* The lister is gone: its members are as they were at the start.
LEMMA CloseInv == ListerInv /\ CloseLister => ListerInv' /\ stage' = "none"
  <1> SUFFICES ASSUME ListerInv, CloseLister
               PROVE  ListerInv' /\ stage' = "none"
    OBVIOUS
  <1> USE NamesAssumption, SizesAssumption DEF CloseLister
  <1>1. ListerTypeOK'
    <2>1. cur' \in 0..BufferSize /\ used' \in 0..BufferSize
      BY SizesAssumption
    <2>2. listed' \in [Names -> Nat]
      OBVIOUS
    <2>3. Dot \in disk' /\ disk' \subseteq Names
      BY DEF ListerInv, ListerTypeOK
    <2> QED
      BY <2>1, <2>2, <2>3 DEF ListerTypeOK, ListerStages
  <1>2. IteratorInv'
    BY DEF IteratorInv, More
  <1>3. NamesInv' /\ HiddenInv'
    BY DEF NamesInv, HiddenInv, Located, Visible
  <1>4. BufferInv'
    BY DEF BufferInv, BatchSound
  <1> QED
    BY <1>1, <1>2, <1>3, <1>4 DEF ListerInv

LEMMA OpenInv ==
    ASSUME ListerInv, NEW s \in BOOLEAN, OpenDir(s)
    PROVE  ListerInv' /\ stage' = "mounts" /\ show' = s
  <1> USE NamesAssumption, SizesAssumption
  <1>0. PICK e \in disk : entry' = e /\ unread' = disk \ {e}
    BY DEF OpenDir
  <1>1. ListerTypeOK'
    <2>1. cur' \in 0..BufferSize /\ used' \in 0..BufferSize
      BY SizesAssumption DEF OpenDir
    <2>2. listed' \in [Names -> Nat]
      BY DEF OpenDir
    <2>3. Dot \in disk' /\ disk' \subseteq Names
      BY DEF OpenDir, ListerInv, ListerTypeOK
    <2> QED
      BY <1>0, <2>1, <2>2, <2>3 DEF OpenDir, ListerTypeOK, ListerStages
  <1>2. IteratorInv'
    BY <1>0 DEF OpenDir, ListerInv, ListerTypeOK, IteratorInv, More
  <1>3. NamesInv' /\ HiddenInv'
    BY <1>0 DEF OpenDir, ListerInv, ListerTypeOK, NamesInv, HiddenInv,
                Located, Visible
  <1>4. BufferInv'
    BY DEF OpenDir, BufferInv, BatchSound
  <1> QED
    BY <1>1, <1>2, <1>3, <1>4 DEF ListerInv, OpenDir

LEMMA AddVpathInv == ListerInv /\ AddVpath => ListerInv' /\ stage' = "mounts"
  <1> SUFFICES ASSUME ListerInv, AddVpath
               PROVE  ListerInv' /\ stage' = "mounts"
    OBVIOUS
  <1> USE NamesAssumption, SizesAssumption
  <1>0. PICK m \in unchecked :
          /\ unchecked' = unchecked \ {m}
          /\ vpaths' = IF m \in disk THEN vpaths ELSE vpaths \cup {m}
    BY DEF AddVpath
  <1>a. /\ UNCHANGED <<disk, changed, cur, used, atEnd, listed, unread,
                       entry, isEof, haveVpath, garbled, stage, show>>
        /\ stage = "mounts"
    BY DEF AddVpath, dirVars, bufferVars
  <1>1. ListerTypeOK'
    BY <1>0, <1>a DEF ListerInv, ListerTypeOK
  <1>2. IteratorInv'
    BY <1>0, <1>a DEF ListerInv, IteratorInv, More
  <1>3. NamesInv'
    <2> SUFFICES ASSUME NEW n \in Names \ (changed \cup garbled)
                 PROVE  Located(n)'
      BY <1>a DEF NamesInv
    <2>1. Located(n)
      BY DEF ListerInv, NamesInv
    <2> QED
      BY <1>0, <1>a, <2>1 DEF ListerInv, ListerTypeOK, Located, Visible
  <1>4. HiddenInv' /\ BufferInv'
    BY <1>a DEF ListerInv, HiddenInv, BufferInv, BatchSound
  <1> QED
    BY <1>1, <1>2, <1>3, <1>4, <1>a DEF ListerInv

LEMMA ConstructedInv ==
    ListerInv /\ Constructed => ListerInv' /\ stage' = "ready" /\ show' = show
  <1> SUFFICES ASSUME ListerInv, Constructed
               PROVE  ListerInv' /\ stage' = "ready" /\ show' = show
    OBVIOUS
  <1>a. /\ UNCHANGED <<disk, changed, unread, entry, isEof, haveVpath, vpaths,
                       garbled, cur, used, atEnd, listed, unchecked, show>>
        /\ stage = "mounts" /\ unchecked = {} /\ stage' = "ready"
    BY DEF Constructed, dirVars, iterVars, bufferVars
  <1>1. ListerTypeOK' /\ IteratorInv'
    BY <1>a DEF ListerInv, ListerTypeOK, ListerStages, IteratorInv, More
  <1>2. NamesInv' /\ HiddenInv'
    BY <1>a DEF ListerInv, NamesInv, HiddenInv, Located, Visible
  <1>3. BufferInv'
    BY <1>a DEF ListerInv, BufferInv, BatchSound
  <1> QED
    BY <1>1, <1>2, <1>3, <1>a DEF ListerInv

-----------------------------------------------------------------------------
(***************************************************************************)
(* The iterator moves on from an entry that is not visible, was read       *)
(* wrong, or has just been listed.                                         *)
(***************************************************************************)
LEMMA AdvanceInv ==
    ASSUME ListerInv, stage = "filling", More, Advance,
           UNCHANGED <<disk, changed, stage, unchecked, show, atEnd>>,
           listed' \in [Names -> Nat],
           \A n \in Names : n # entry => listed'[n] = listed[n],
           \/ /\ listed'[entry] = listed[entry]
              /\ ~Visible(entry) \/ entry \in garbled
           \/ /\ listed'[entry] = listed[entry] + 1
              /\ Visible(entry) \/ entry \in garbled
    PROVE  IteratorInv' /\ NamesInv' /\ HiddenInv'
  <1> USE NamesAssumption
  <1>0. entry \in Names /\ entry # NoName /\ unchecked = {} /\ ~atEnd
    BY DEF ListerInv, IteratorInv, BufferInv
  <1>1. CASE /\ ~isEof
             /\ \E n \in unread : entry' = n /\ unread' = unread \ {n}
             /\ UNCHANGED <<isEof, haveVpath, vpaths, garbled>>
    <2>0. PICK e \in unread : entry' = e /\ unread' = unread \ {e}
      BY <1>1
    <2>1. IteratorInv'
      BY <1>0, <1>1, <2>0 DEF ListerInv, ListerTypeOK, IteratorInv, More
    <2>2. NamesInv'
      <3> SUFFICES ASSUME NEW n \in Names \ (changed \cup garbled)
                   PROVE  Located(n)'
        BY <1>1 DEF NamesInv
      <3>1. Located(n)
        BY DEF ListerInv, NamesInv
      <3>2. CASE n = entry
        BY <1>0, <1>1, <2>0, <3>1, <3>2
           DEF ListerInv, ListerTypeOK, Located, Visible
      <3>3. CASE n # entry
        BY <1>0, <1>1, <2>0, <3>1, <3>3
           DEF ListerInv, ListerTypeOK, Located, Visible
      <3> QED
        BY <3>2, <3>3
    <2>3. HiddenInv'
      BY <1>0, <1>1 DEF ListerInv, HiddenInv, Visible
    <2> QED
      BY <2>1, <2>2, <2>3
  <1>2. CASE /\ isEof \/ unread = {}
             /\ isEof' = TRUE /\ TakeVpath
             /\ UNCHANGED unread
    <2>0. unread \subseteq changed
      BY <1>2 DEF ListerInv, IteratorInv
    <2>1. CASE /\ vpaths = {}
               /\ entry' = NoName /\ haveVpath' = FALSE
               /\ UNCHANGED <<vpaths, garbled>>
      <3>1. IteratorInv'
        BY <1>0, <1>2, <2>0, <2>1 DEF IteratorInv, More
      <3>2. NamesInv'
        <4> SUFFICES ASSUME NEW n \in Names \ (changed \cup garbled)
                     PROVE  Located(n)'
          BY <2>1 DEF NamesInv
        <4>1. Located(n)
          BY DEF ListerInv, NamesInv
        <4>2. CASE n = entry
          BY <1>0, <1>2, <2>0, <2>1, <4>1, <4>2
             DEF ListerInv, ListerTypeOK, Located, Visible
        <4>3. CASE n # entry
          BY <1>0, <1>2, <2>0, <2>1, <4>1, <4>3
             DEF ListerInv, ListerTypeOK, Located, Visible
        <4> QED
          BY <4>2, <4>3
      <3>3. HiddenInv'
        BY <1>0, <2>1 DEF ListerInv, HiddenInv, Visible
      <3> QED
        BY <3>1, <3>2, <3>3
    <2>2. ASSUME NEW m \in vpaths,
                 entry' = m /\ haveVpath' = TRUE /\ vpaths' = vpaths \ {m},
                 garbled' \in {garbled, garbled \cup {m}}
          PROVE  IteratorInv' /\ NamesInv' /\ HiddenInv'
      <3>0. m \in Names /\ garbled \subseteq garbled'
        BY <2>2 DEF ListerInv, ListerTypeOK
      <3>1. IteratorInv'
        BY <1>0, <1>2, <2>0, <2>2, <3>0 DEF IteratorInv, More
      <3>2. NamesInv'
        <4> SUFFICES ASSUME NEW n \in Names \ (changed \cup garbled')
                     PROVE  Located(n)'
          BY DEF NamesInv
        <4>1. Located(n) /\ n \notin garbled
          BY <3>0 DEF ListerInv, NamesInv
        <4>2. CASE n = entry
          BY <1>0, <1>2, <2>0, <2>2, <4>1, <4>2
             DEF ListerInv, ListerTypeOK, Located, Visible
        <4>3. CASE n # entry
          BY <1>0, <1>2, <2>0, <2>2, <4>1, <4>3
             DEF ListerInv, ListerTypeOK, Located, Visible
        <4> QED
          BY <4>2, <4>3
      <3>3. HiddenInv'
        BY <1>0, <3>0 DEF ListerInv, HiddenInv, Visible
      <3> QED
        BY <3>1, <3>2, <3>3
    <2> QED
      BY <1>2, <2>1, <2>2 DEF TakeVpath
  <1> QED
    BY <1>1, <1>2 DEF Advance

\* The types after Advance.
LEMMA AdvanceTypes ==
    ASSUME ListerTypeOK, Advance
    PROVE  /\ unread' \subseteq Names /\ entry' \in Names \cup {NoName}
           /\ isEof' \in BOOLEAN /\ haveVpath' \in BOOLEAN
           /\ vpaths' \subseteq Mounts /\ garbled' \subseteq Mounts
  BY NamesAssumption DEF ListerTypeOK, Advance, TakeVpath

LEMMA SkipInv ==
    ListerInv /\ SkipEntry
        => ListerInv' /\ stage' = "filling" /\ show' = show
  <1> SUFFICES ASSUME ListerInv, SkipEntry
               PROVE  ListerInv' /\ stage' = "filling" /\ show' = show
    OBVIOUS
  <1>a. /\ UNCHANGED <<disk, changed, cur, used, atEnd, listed, stage,
                       unchecked, show>>
        /\ stage = "filling" /\ More /\ LeftOut /\ Advance
    BY DEF SkipEntry, dirVars, bufferVars
  <1>1. ListerTypeOK'
    BY <1>a, AdvanceTypes DEF ListerInv, ListerTypeOK
  <1>2. ~Visible(entry) \/ entry \in garbled
    BY <1>a DEF LeftOut, Visible
  <1>3. IteratorInv' /\ NamesInv' /\ HiddenInv'
    BY <1>a, <1>1, <1>2, AdvanceInv DEF ListerTypeOK
  <1>4. BufferInv'
    BY <1>a DEF ListerInv, BufferInv, BatchSound
  <1> QED
    BY <1>1, <1>3, <1>4, <1>a DEF ListerInv

LEMMA PrintInv ==
    ListerInv /\ PrintEntry
        => ListerInv' /\ stage' = "filling" /\ show' = show
  <1> SUFFICES ASSUME ListerInv, PrintEntry
               PROVE  ListerInv' /\ stage' = "filling" /\ show' = show
    OBVIOUS
  <1>a. /\ UNCHANGED <<disk, changed, atEnd, stage, unchecked, show>>
        /\ stage = "filling" /\ More /\ Shown /\ Fits /\ Advance
        /\ listed' = [listed EXCEPT ![entry] = @ + 1]
    BY DEF PrintEntry, dirVars
  <1>b. PICK bytes \in 1..ApproxSize[entry] :
          cur' = cur + bytes /\ used' = used + bytes
    BY DEF PrintEntry, PrintIt
  <1>c. /\ entry \in Names /\ cur \in Nat /\ used \in Nat /\ cur = used
        /\ BufferSize \in Nat /\ ApproxSize[entry] \in Nat
        /\ listed \in [Names -> Nat] /\ ~atEnd
    <2>1. entry \in Names /\ cur = used /\ ~atEnd
      BY <1>a DEF ListerInv, IteratorInv, BufferInv, BatchSound
    <2>2. cur \in Nat /\ BufferSize \in Nat /\ listed \in [Names -> Nat]
      BY SizesAssumption DEF ListerInv, ListerTypeOK
    <2>3. ApproxSize[entry] \in Nat
      BY <2>1, SizesAssumption
    <2> QED
      BY <2>1, <2>2, <2>3
  <1>d. PICK c \in Nat : /\ cur' = c /\ used' = c /\ c <= BufferSize
    <2>1. cur + bytes \in Nat /\ cur + bytes <= BufferSize
      BY <1>a, <1>b, <1>c DEF Fits
    <2> QED
      BY <2>1, <1>b, <1>c
  <1>1. ListerTypeOK'
    BY <1>a, <1>c, <1>d, AdvanceTypes DEF ListerInv, ListerTypeOK
  <1>2. /\ listed' \in [Names -> Nat] /\ listed'[entry] = listed[entry] + 1
        /\ \A n \in Names : n # entry => listed'[n] = listed[n]
        /\ Visible(entry) \/ entry \in garbled
    BY <1>a, <1>c DEF Shown, Visible
  <1>3. IteratorInv' /\ NamesInv' /\ HiddenInv'
    BY <1>a, <1>2, AdvanceInv
  <1>4. BufferInv'
    BY <1>a, <1>c, <1>d DEF BufferInv, BatchSound
  <1> QED
    BY <1>1, <1>3, <1>4, <1>a DEF ListerInv

\* Steps that leave the iterator and the names alone.
LEMMA StageInv ==
    ASSUME ListerInv,
           \/ BeginList \/ BufferFull \/ EndOfList \/ BatchDone
    PROVE  /\ ListerInv' /\ stage' \in {"ready", "filling", "batch"}
           /\ show' = show
  <1> USE SizesAssumption
  <1>a. /\ UNCHANGED <<disk, changed, unread, entry, isEof, haveVpath, vpaths,
                       garbled, listed, unchecked, show>>
        /\ stage \in {"ready", "filling", "batch"}
        /\ stage' \in {"ready", "filling", "batch"}
    BY DEF BeginList, BufferFull, EndOfList, BatchDone, dirVars, iterVars,
           bufferVars
  <1>b. /\ cur \in 0..BufferSize /\ used \in 0..BufferSize /\ BufferSize \in Nat
        /\ atEnd \in BOOLEAN /\ cur <= BufferSize /\ used <= BufferSize
    BY DEF ListerInv, ListerTypeOK, BufferInv, BatchSound
  <1>1. cur' \in {cur, 0} /\ used' \in {used, 0} /\ atEnd' \in BOOLEAN
    BY <1>b DEF BeginList, BufferFull, EndOfList, BatchDone, bufferVars
  <1>2. ListerTypeOK'
    BY <1>a, <1>b, <1>1 DEF ListerInv, ListerTypeOK, ListerStages
  <1>3. atEnd' => ~More
    BY <1>a DEF ListerInv, IteratorInv, BeginList, BufferFull, EndOfList,
                BatchDone, bufferVars
  <1>4. IteratorInv'
    BY <1>a, <1>3 DEF ListerInv, IteratorInv, More
  <1>5. NamesInv' /\ HiddenInv'
    BY <1>a DEF ListerInv, NamesInv, HiddenInv, Located, Visible
  <1>6. BufferInv'
    <2>1. CASE BeginList
      BY <1>b, <2>1 DEF BeginList, ListerInv, BufferInv, BatchSound
    <2>2. CASE BufferFull
      <3>1. entry \in Names /\ cur = used
        BY <2>2 DEF BufferFull, ListerInv, IteratorInv, BufferInv, BatchSound
      <3>2. used > 0
        BY <1>b, <2>2, <3>1 DEF BufferFull, Fits
      <3> QED
        BY <1>b, <2>2, <3>2 DEF BufferFull, BufferInv, BatchSound
    <2>3. CASE EndOfList
      BY <1>b, <2>3 DEF EndOfList, BufferInv, BatchSound
    <2>4. CASE BatchDone
      BY <1>b, <2>4 DEF BatchDone, bufferVars, ListerInv, BufferInv, BatchSound
    <2> QED
      BY <2>1, <2>2, <2>3, <2>4
  <1> QED
    BY <1>2, <1>4, <1>5, <1>6, <1>a DEF ListerInv

\* Everything a batch consists of.
LEMMA SendBatchInv ==
    ListerInv /\ SendBatch
        => /\ ListerInv' /\ stage' \in {"ready", "filling", "batch"}
           /\ show' = show
  BY SkipInv, PrintInv, StageInv DEF SendBatch

\* Others change the directory.
LEMMA ChangeInv ==
    ListerInv /\ ChangeDir => ListerInv' /\ UNCHANGED <<stage, show>>
  <1> SUFFICES ASSUME ListerInv, ChangeDir
               PROVE  ListerInv' /\ UNCHANGED <<stage, show>>
    OBVIOUS
  <1> USE NamesAssumption
  <1>0. PICK c \in Names \ (changed \cup {Dot}) :
          /\ changed' = changed \cup {c}
          /\ \/ /\ c \notin disk /\ disk' = disk \cup {c}
                /\ unread' \in {unread, unread \cup {c}}
             \/ /\ c \in disk /\ disk' = disk \ {c}
                /\ unread' \in {unread, unread \ {c}}
    BY DEF ChangeDir
  <1>a. UNCHANGED <<entry, isEof, haveVpath, vpaths, garbled, cur, used, atEnd,
                    listed, stage, unchecked, show>>
    BY DEF ChangeDir, bufferVars
  <1>1. ListerTypeOK'
    BY <1>0, <1>a DEF ListerInv, ListerTypeOK
  <1>2. IteratorInv'
    BY <1>0, <1>a DEF ListerInv, IteratorInv, More
  <1>3. NamesInv'
    <2> SUFFICES ASSUME NEW n \in Names \ (changed' \cup garbled')
                 PROVE  Located(n)'
      BY DEF NamesInv
    <2>1. n \in Names \ (changed \cup garbled) /\ n # c
      BY <1>0, <1>a
    <2>2. Located(n)
      BY <2>1 DEF ListerInv, NamesInv
    <2>3. (n \in disk' <=> n \in disk) /\ (n \in unread' <=> n \in unread)
      BY <1>0, <2>1
    <2> QED
      BY <1>a, <2>2, <2>3 DEF Located, Visible
  <1>4. HiddenInv' /\ BufferInv'
    BY <1>a DEF ListerInv, HiddenInv, BufferInv, BatchSound
  <1> QED
    BY <1>1, <1>2, <1>3, <1>4, <1>a DEF ListerInv

\* A step of somebody else.
LEMMA StutterInv ==
    ListerInv /\ UNCHANGED listerVars => ListerInv' /\ UNCHANGED <<stage, show>>
  BY DEF listerVars, dirVars, iterVars, bufferVars, ListerInv, ListerTypeOK,
         IteratorInv, NamesInv, HiddenInv, BufferInv, BatchSound, Located,
         Visible, More

-----------------------------------------------------------------------------
\* The invariant has what a listing promises.
LEMMA ListerInvExact == ListerInv => ListingExact
  <1> SUFFICES ASSUME ListerInv, NEW n \in Names \ (changed \cup garbled)
               PROVE  /\ listed[n] <= 1
                      /\ listed[n] = 1 => Visible(n) /\ n \in disk \cup Mounts
                      /\ atEnd /\ Visible(n) /\ n \in disk \cup Mounts
                             => listed[n] = 1
    BY DEF ListingExact
  <1>1. Located(n)
    BY DEF ListerInv, NamesInv
  <1>2. atEnd => /\ stage # "none" /\ unread \subseteq changed
                 /\ vpaths = {} /\ unchecked = {} /\ entry = NoName
    BY DEF ListerInv, IteratorInv, BufferInv, More
  <1> QED
    BY <1>1, <1>2, NamesAssumption DEF Located

LEMMA ListerInvSound == ListerInv => BatchSound
  BY DEF ListerInv, BufferInv

-----------------------------------------------------------------------------
(***************************************************************************)
(* The lister in the dialogue.                                             *)
(***************************************************************************)
ListCommands == {"LIST", "NLST", "MLSD"}

\* The lister exists while a transfer uses it, and at no other time.
StagesInv ==
    /\ transfer = "none" => stage = "none" /\ file = NoFile
    /\ transfer = "constructing" => /\ stage = "mounts"
                                    /\ file.cmd \in ListCommands
    /\ transfer = "connecting" => stage \in {"none", "ready"}
    /\ transfer = "data" => stage \in {"none", "ready", "filling", "batch"}

\* A lister shows hidden files only to those who asked.
ShowInv == show /\ stage # "none" => "-a" \in given

\* The facts of the lines of a listing are those enabled now.
FactsInv ==
    /\ factsSent \subseteq {Reported}
    /\ factsSent # {} => transfer = "data"

DialogueInv ==
    /\ DialogueTypeOK /\ StagesInv /\ ShowInv /\ FactsInv
    /\ SettingsFresh /\ RestFits /\ TypeHonoured

Inv == ListerInv /\ DialogueInv

\* Commands that are refused while a file is transferred.
LEMMA NotInTransfer ==
    ASSUME NEW c \in {"REST", "PORT", "PASV", "OPTS", "LIST", "NLST", "MLSD",
                      "RETR"} \cup StoreCommands,
           Accepted(c)
    PROVE  ~InTransfer
  BY DEF Accepted, Refused, MustNotBeInTransfer, TransferCommands,
         SendCommands, StoreCommands

LEMMA FreeNone == ASSUME Free, ~InTransfer PROVE transfer = "none"
  BY DEF Free, InTransfer

\* The facts are some of the five, whatever the bits.
LEMMA ReportedType == Reported \subseteq FactNames
  BY DEF Reported, FactNames

-----------------------------------------------------------------------------
LEMMA InitInv == Init => Inv
  <1> SUFFICES ASSUME Init
               PROVE  Inv
    OBVIOUS
  <1>1. ListerInv /\ stage = "none"
    BY ListerInitInv DEF Init
  <1>2. DialogueTypeOK
    <2>1. file \in FileRecords
      BY DEF Init, Types, NoFile, FileRecords
    <2>2. factsSent \in SUBSET SUBSET FactNames /\ rest \in Offsets \cup {0}
      BY DEF Init
    <2>3. factBits \in 0..31
      BY DEF Init
    <2> QED
      BY <2>1, <2>2, <2>3 DEF Init, DialogueTypeOK, Types
  <1>3. StagesInv /\ ShowInv /\ FactsInv
    BY <1>1 DEF Init, StagesInv, ShowInv, FactsInv
  <1>4. SettingsFresh /\ RestFits /\ TypeHonoured
    BY DEF Init, SettingsFresh, RestFits, TypeHonoured, InTransfer
  <1> QED
    BY <1>1, <1>2, <1>3, <1>4 DEF Inv, DialogueInv

-----------------------------------------------------------------------------
(***************************************************************************)
(* One lemma per action.                                                   *)
(***************************************************************************)
LEMMA SetTypeInv == Inv /\ SetType => Inv'
  <1> SUFFICES ASSUME Inv, SetType
               PROVE  Inv'
    OBVIOUS
  <1>a. UNCHANGED <<override, rest, initiation, hidden, factBits, transfer,
                    file, given, offset, factsSent, listerVars>>
        /\ ttype' \in Types
    BY DEF SetType
  <1>1. ListerInv' /\ UNCHANGED <<stage, show>>
    BY <1>a, StutterInv DEF Inv
  <1>2. DialogueTypeOK'
    BY <1>a DEF Inv, DialogueInv, DialogueTypeOK
  <1>3. StagesInv' /\ ShowInv'
    BY <1>1, <1>a DEF Inv, DialogueInv, StagesInv, ShowInv
  <1>4. FactsInv'
    BY <1>a DEF Inv, DialogueInv, FactsInv, Reported, IsEnabled, Bit
  <1>5. (SettingsFresh /\ RestFits /\ TypeHonoured)'
    BY <1>a DEF Inv, DialogueInv, SettingsFresh, RestFits, TypeHonoured,
                InTransfer
  <1> QED
    BY <1>1, <1>2, <1>3, <1>4, <1>5 DEF Inv, DialogueInv

LEMMA RestInv == Inv /\ Rest => Inv'
  <1> SUFFICES ASSUME Inv, Rest
               PROVE  Inv'
    OBVIOUS
  <1>a. /\ UNCHANGED <<ttype, override, initiation, hidden, factBits, transfer,
                       file, factsSent, listerVars>>
        /\ \/ \E n \in Offsets : /\ rest' = n /\ offset' = n
                                 /\ given' = given \ {"no REST"}
           \/ /\ rest' = 0 /\ offset' = offset
              /\ given' = given \cup {"no REST"}
    BY DEF Rest
  <1>b. transfer = "none"
    BY NotInTransfer, FreeNone DEF Rest, Accepted
  <1>1. ListerInv' /\ UNCHANGED <<stage, show>>
    BY <1>a, StutterInv DEF Inv
  <1>2. DialogueTypeOK'
    BY <1>a DEF Inv, DialogueInv, DialogueTypeOK
  <1>3. StagesInv' /\ ShowInv'
    BY <1>1, <1>a DEF Inv, DialogueInv, StagesInv, ShowInv
  <1>4. FactsInv'
    BY <1>a DEF Inv, DialogueInv, FactsInv, Reported, IsEnabled, Bit
  <1>5. (SettingsFresh /\ RestFits /\ TypeHonoured)'
    BY <1>a, <1>b DEF Inv, DialogueInv, SettingsFresh, RestFits, TypeHonoured,
                InTransfer
  <1> QED
    BY <1>1, <1>2, <1>3, <1>4, <1>5 DEF Inv, DialogueInv

LEMMA PortInv == Inv /\ PortOrPasv => Inv'
  <1> SUFFICES ASSUME Inv, PortOrPasv
               PROVE  Inv'
    OBVIOUS
  <1>a. /\ UNCHANGED <<ttype, override, rest, hidden, factBits, transfer,
                       file, offset, factsSent, listerVars>>
        /\ initiation' = TRUE /\ given' = given \cup {"PORT"}
    BY DEF PortOrPasv
  <1>1. ListerInv' /\ UNCHANGED <<stage, show>>
    BY <1>a, StutterInv DEF Inv
  <1>2. DialogueTypeOK'
    BY <1>a DEF Inv, DialogueInv, DialogueTypeOK
  <1>3. StagesInv' /\ ShowInv'
    BY <1>1, <1>a DEF Inv, DialogueInv, StagesInv, ShowInv
  <1>4. FactsInv'
    BY <1>a DEF Inv, DialogueInv, FactsInv, Reported, IsEnabled, Bit
  <1>5. (SettingsFresh /\ RestFits /\ TypeHonoured)'
    BY <1>a DEF Inv, DialogueInv, SettingsFresh, RestFits, TypeHonoured,
                InTransfer
  <1> QED
    BY <1>1, <1>2, <1>3, <1>4, <1>5 DEF Inv, DialogueInv

\* The facts do not change under a listing: OPTS waits until there is none.
LEMMA OptsInv == Inv /\ OptsMlst => Inv'
  <1> SUFFICES ASSUME Inv, OptsMlst
               PROVE  Inv'
    OBVIOUS
  <1>a. UNCHANGED <<ttype, override, rest, initiation, hidden, transfer, file,
                    given, offset, factsSent, listerVars>>
    BY DEF OptsMlst
  <1>b. transfer = "none"
    BY NotInTransfer, FreeNone DEF OptsMlst, Accepted
  <1>c. factBits' \in 0..31
    <2> DEFINE bit(i, sel) == IF Facts[i] \in sel THEN Weight[i] ELSE 0
    <2>0. PICK sel \in Selections :
            factBits' = bit(1, sel) + bit(2, sel) + bit(3, sel) + bit(4, sel)
                            + bit(5, sel)
      BY DEF OptsMlst
    <2>1. /\ bit(1, sel) \in {0, 1} /\ bit(2, sel) \in {0, 2}
          /\ bit(3, sel) \in {0, 4} /\ bit(4, sel) \in {0, 8}
          /\ bit(5, sel) \in {0, 16}
      BY DEF Weight
    <2> HIDE DEF bit
    <2>2. bit(1, sel) + bit(2, sel) + bit(3, sel) + bit(4, sel) + bit(5, sel)
            \in 0..31
      BY <2>1
    <2> QED
      BY <2>0, <2>2
  <1>1. ListerInv' /\ UNCHANGED <<stage, show>>
    BY <1>a, StutterInv DEF Inv
  <1>2. DialogueTypeOK'
    BY <1>a, <1>c DEF Inv, DialogueInv, DialogueTypeOK
  <1>3. StagesInv' /\ ShowInv'
    BY <1>1, <1>a DEF Inv, DialogueInv, StagesInv, ShowInv
  <1>4. FactsInv'
    BY <1>a, <1>b DEF Inv, DialogueInv, FactsInv
  <1>5. (SettingsFresh /\ RestFits /\ TypeHonoured)'
    BY <1>a DEF Inv, DialogueInv, SettingsFresh, RestFits, TypeHonoured,
                InTransfer
  <1> QED
    BY <1>1, <1>2, <1>3, <1>4, <1>5 DEF Inv, DialogueInv

LEMMA StatListInv == Inv /\ StatList => Inv'
  <1> SUFFICES ASSUME Inv, StatList
               PROVE  Inv'
    OBVIOUS
  <1>a. /\ UNCHANGED <<ttype, override, rest, initiation, factBits, transfer,
                       file, offset, factsSent, listerVars>>
        /\ hidden' = TRUE /\ given' = given \cup {"-a"}
    BY DEF StatList
  <1>1. ListerInv' /\ UNCHANGED <<stage, show>>
    BY <1>a, StutterInv DEF Inv
  <1>2. DialogueTypeOK'
    BY <1>a DEF Inv, DialogueInv, DialogueTypeOK
  <1>3. StagesInv' /\ ShowInv'
    BY <1>1, <1>a DEF Inv, DialogueInv, StagesInv, ShowInv
  <1>4. FactsInv'
    BY <1>a DEF Inv, DialogueInv, FactsInv, Reported, IsEnabled, Bit
  <1>5. (SettingsFresh /\ RestFits /\ TypeHonoured)'
    BY <1>a DEF Inv, DialogueInv, SettingsFresh, RestFits, TypeHonoured,
                InTransfer
  <1> QED
    BY <1>1, <1>2, <1>3, <1>4, <1>5 DEF Inv, DialogueInv

\* The type decides on the conversion, and RestAllowed on the offset.
LEMMA FileCommandInv == Inv /\ FileCommand => Inv'
  <1> SUFFICES ASSUME Inv, FileCommand
               PROVE  Inv'
    OBVIOUS
  <1>0. PICK c \in {"RETR"} \cup StoreCommands :
          Accepted(c) /\ RestAllowed(c) /\ StartTransfer(c, GetType)
    BY DEF FileCommand
  <1>a. UNCHANGED <<settings, given, offset, factsSent, listerVars>>
    BY DEF FileCommand
  <1>b. transfer = "none"
    BY <1>0, NotInTransfer, FreeNone DEF Accepted
  <1>c. ~override
    BY <1>b DEF Inv, DialogueInv, SettingsFresh, InTransfer
  <1>d. /\ transfer' = "connecting" /\ file'.cmd = c /\ file'.type = ttype
        /\ file'.ascii = (ttype # "BIN") /\ file' \in FileRecords
    BY <1>0, <1>c DEF StartTransfer, GetType, FileRecords, TransferCommands,
                      SendCommands, StoreCommands, Inv, DialogueInv,
                      DialogueTypeOK
  <1>1. ListerInv' /\ UNCHANGED <<stage, show>>
    BY <1>a, StutterInv DEF Inv
  <1>2. DialogueTypeOK'
    BY <1>a, <1>d DEF Inv, DialogueInv, DialogueTypeOK, settings
  <1>3. StagesInv' /\ ShowInv'
    BY <1>1, <1>a, <1>b, <1>d DEF Inv, DialogueInv, StagesInv, ShowInv
  <1>4. FactsInv'
    BY <1>a, <1>b, <1>d DEF Inv, DialogueInv, FactsInv
  <1>5. SettingsFresh'
    BY <1>a, <1>c, <1>d DEF Inv, DialogueInv, SettingsFresh, settings,
                            StoreCommands
  <1>6. RestFits'
    BY <1>0, <1>a, <1>c, <1>d DEF RestFits, RestAllowed, GetType, settings
  <1>7. TypeHonoured'
    BY <1>d DEF TypeHonoured, FileRecords, Types, StoreCommands
  <1> QED
    BY <1>1, <1>2, <1>3, <1>4, <1>5, <1>6, <1>7 DEF Inv, DialogueInv

LEMMA ListCommandInv == Inv /\ ListCommand => Inv'
  <1> SUFFICES ASSUME Inv, ListCommand
               PROVE  Inv'
    OBVIOUS
  <1>0. PICK c \in ListCommands, a \in BOOLEAN, canSee \in BOOLEAN :
          /\ hidden' = (hidden \/ a)
          /\ given' = IF a THEN given \cup {"-a"} ELSE given
          /\ \/ /\ OpenDir(hidden' /\ canSee)
                /\ transfer' = "constructing"
                /\ file' = [NoFile EXCEPT !.cmd = c]
             \/ UNCHANGED <<listerVars, transfer, file>>
    BY DEF ListCommand, ListCommands
  <1>a. /\ UNCHANGED <<ttype, override, rest, initiation, factBits, offset,
                       factsSent>>
        /\ transfer = "none" /\ stage = "none" /\ file = NoFile
    BY DEF ListCommand, Inv, DialogueInv, StagesInv
  <1>b. hidden' \in BOOLEAN /\ given' \subseteq {"-a", "PORT", "no REST"}
    BY <1>0 DEF Inv, DialogueInv, DialogueTypeOK
  <1>c. hidden' <=> "-a" \in given'
    BY <1>0 DEF Inv, DialogueInv, SettingsFresh
  <1>d. ~override /\ given' \ {"-a"} = given \ {"-a"}
    BY <1>0, <1>a DEF Inv, DialogueInv, SettingsFresh, InTransfer
  <1>e. factsSent = {}
    BY <1>a DEF Inv, DialogueInv, FactsInv
  <1>f. transfer' \in {"none", "constructing"}
    BY <1>0, <1>a
  <1>3. ListerInv' /\ StagesInv' /\ ShowInv' /\ file' \in FileRecords
    <2>1. CASE /\ OpenDir(hidden' /\ canSee)
               /\ transfer' = "constructing"
               /\ file' = [NoFile EXCEPT !.cmd = c]
      <3>0. PICK s \in BOOLEAN : OpenDir(s) /\ (s => hidden')
        BY <2>1, <1>b
      <3>1. ListerInv' /\ stage' = "mounts" /\ show' = s
        BY <3>0, OpenInv DEF Inv
      <3>2. file' \in FileRecords /\ file'.cmd \in ListCommands
        BY <2>1 DEF NoFile, FileRecords, TransferCommands, SendCommands,
                    ListCommands, Types
      <3>3. StagesInv'
        BY <2>1, <3>1, <3>2 DEF StagesInv
      <3>4. ShowInv'
        BY <1>c, <3>0, <3>1 DEF ShowInv
      <3> QED
        BY <3>1, <3>2, <3>3, <3>4
    <2>2. CASE UNCHANGED <<listerVars, transfer, file>>
      <3>1. ListerInv' /\ UNCHANGED <<stage, show>>
        BY <2>2, StutterInv DEF Inv
      <3>2. transfer' = "none" /\ stage' = "none" /\ file' = NoFile
        BY <2>2, <1>a, <3>1
      <3>3. StagesInv' /\ ShowInv'
        BY <3>2 DEF StagesInv, ShowInv
      <3>4. file' \in FileRecords
        BY <2>2 DEF Inv, DialogueInv, DialogueTypeOK
      <3> QED
        BY <3>1, <3>3, <3>4
    <2> QED
      BY <1>0, <2>1, <2>2
  <1>4. DialogueTypeOK'
    BY <1>3, <1>a, <1>b, <1>f DEF Inv, DialogueInv, DialogueTypeOK
  <1>5. FactsInv'
    BY <1>a, <1>e DEF FactsInv
  <1>6. SettingsFresh'
    <2>1. ~InTransfer'
      BY <1>f DEF InTransfer
    <2>2. ("PORT" \in given' <=> "PORT" \in given)
          /\ ("no REST" \in given' <=> "no REST" \in given)
      BY <1>d
    <2> QED
      BY <2>1, <2>2, <1>a, <1>c, <1>d DEF Inv, DialogueInv, SettingsFresh
  <1>7. RestFits' /\ TypeHonoured'
    BY <1>f DEF RestFits, TypeHonoured, InTransfer
  <1> QED
    BY <1>3, <1>4, <1>5, <1>6, <1>7 DEF Inv, DialogueInv

LEMMA ConstructInv == Inv /\ Construct => Inv'
  <1> SUFFICES ASSUME Inv, Construct
               PROVE  Inv'
    OBVIOUS
  <1>a. UNCHANGED <<dialogueVars, factsSent>>
    BY DEF Construct
  <1>1. ListerInv' /\ stage' = "mounts" /\ show' = show /\ stage = "mounts"
    BY AddVpathInv DEF Construct, Inv, AddVpath
  <1>2. StagesInv' /\ ShowInv'
    BY <1>1, <1>a DEF Construct, Inv, DialogueInv, StagesInv, ShowInv,
                      dialogueVars
  <1>3. (DialogueTypeOK /\ SettingsFresh /\ RestFits /\ TypeHonoured)'
    BY <1>a DEF Inv, DialogueInv, DialogueTypeOK, SettingsFresh, RestFits,
                TypeHonoured, InTransfer, dialogueVars, settings
  <1>4. FactsInv'
    BY <1>a DEF Inv, DialogueInv, FactsInv, Reported, IsEnabled, Bit,
                dialogueVars, settings
  <1> QED
    BY <1>1, <1>2, <1>3, <1>4 DEF Inv, DialogueInv

\* The exception for MLSD is made here, and only here.
LEMMA StartListingInv == Inv /\ StartListing => Inv'
  <1> SUFFICES ASSUME Inv, StartListing
               PROVE  Inv'
    OBVIOUS
  <1>a. /\ UNCHANGED <<ttype, rest, initiation, hidden, factBits, given,
                       offset, factsSent>>
        /\ transfer = "constructing" /\ transfer' = "connecting"
        /\ override' = (override \/ file.cmd = "MLSD")
    BY DEF StartListing, StartTransfer
  <1>b. ~override /\ file.cmd \in ListCommands /\ ttype \in Types
        /\ factsSent = {}
    BY <1>a DEF Inv, DialogueInv, SettingsFresh, StagesInv, FactsInv,
                InTransfer, DialogueTypeOK
  <1>c. /\ file'.cmd = file.cmd /\ file'.type = ttype
        /\ file'.ascii = ((IF file.cmd = "MLSD" THEN "BIN" ELSE ttype) # "BIN")
        /\ file' \in FileRecords
    BY <1>a, <1>b DEF StartListing, StartTransfer, FileRecords,
                      TransferCommands, SendCommands, ListCommands
  <1>1. ListerInv' /\ stage' = "ready" /\ show' = show /\ stage = "mounts"
    BY ConstructedInv DEF StartListing, Inv, Constructed
  <1>2. StagesInv' /\ ShowInv'
    BY <1>1, <1>a DEF Inv, DialogueInv, StagesInv, ShowInv
  <1>3. DialogueTypeOK'
    BY <1>a, <1>b, <1>c DEF Inv, DialogueInv, DialogueTypeOK
  <1>4. FactsInv'
    BY <1>a, <1>b DEF FactsInv
  <1>5. SettingsFresh'
    BY <1>a, <1>b, <1>c DEF Inv, DialogueInv, SettingsFresh, InTransfer
  <1>6. RestFits'
    BY <1>b, <1>c DEF RestFits, ListCommands, StoreCommands
  <1>7. TypeHonoured'
    BY <1>b, <1>c DEF TypeHonoured, Types
  <1> QED
    BY <1>1, <1>2, <1>3, <1>4, <1>5, <1>6, <1>7 DEF Inv, DialogueInv

LEMMA ConnectedInv == Inv /\ Connected => Inv'
  <1> SUFFICES ASSUME Inv, Connected
               PROVE  Inv'
    OBVIOUS
  <1>a. /\ UNCHANGED <<settings, file, given, offset, factsSent, listerVars>>
        /\ transfer = "connecting" /\ transfer' = "data"
    BY DEF Connected
  <1>1. ListerInv' /\ UNCHANGED <<stage, show>>
    BY <1>a, StutterInv DEF Inv
  <1>2. StagesInv' /\ ShowInv'
    BY <1>1, <1>a DEF Inv, DialogueInv, StagesInv, ShowInv
  <1>3. (DialogueTypeOK /\ SettingsFresh /\ RestFits /\ TypeHonoured)'
    BY <1>a DEF Inv, DialogueInv, DialogueTypeOK, SettingsFresh, RestFits,
                TypeHonoured, InTransfer, settings
  <1>4. FactsInv'
    BY <1>a DEF Inv, DialogueInv, FactsInv, Reported, IsEnabled, Bit, settings
  <1> QED
    BY <1>1, <1>2, <1>3, <1>4 DEF Inv, DialogueInv

LEMMA SendListingInv == Inv /\ SendListing => Inv'
  <1> SUFFICES ASSUME Inv, SendListing
               PROVE  Inv'
    OBVIOUS
  <1>a. UNCHANGED dialogueVars /\ transfer = "data"
    BY DEF SendListing
  <1>1. /\ ListerInv' /\ show' = show
        /\ stage' \in {"ready", "filling", "batch"}
    BY SendBatchInv DEF SendListing, Inv
  <1>b. stage # "none"
    BY DEF SendListing, SendBatch, BeginList, SkipEntry, PrintEntry,
           BufferFull, EndOfList, BatchDone
  <1>2. StagesInv' /\ ShowInv'
    BY <1>1, <1>a, <1>b DEF Inv, DialogueInv, StagesInv, ShowInv, dialogueVars
  <1>3. factsSent' \subseteq {Reported} /\ Reported' = Reported
    BY <1>a DEF SendListing, Inv, DialogueInv, FactsInv, Reported, IsEnabled,
                Bit, dialogueVars, settings
  <1>4. FactsInv'
    BY <1>a, <1>3 DEF FactsInv, dialogueVars
  <1>5. DialogueTypeOK'
    BY <1>a, <1>3, ReportedType DEF Inv, DialogueInv, DialogueTypeOK,
                                    dialogueVars, settings
  <1>6. (SettingsFresh /\ RestFits /\ TypeHonoured)'
    BY <1>a DEF Inv, DialogueInv, SettingsFresh, RestFits, TypeHonoured,
                InTransfer, dialogueVars, settings
  <1> QED
    BY <1>1, <1>2, <1>4, <1>5, <1>6 DEF Inv, DialogueInv

\* Everything that was set for the transfer goes with it.
LEMMA EndTransferInv == Inv /\ EndTransfer => Inv'
  <1> SUFFICES ASSUME Inv, EndTransfer
               PROVE  Inv'
    OBVIOUS
  <1>a. /\ transfer' = "none" /\ initiation' = FALSE /\ rest' = 0
        /\ override' = FALSE /\ hidden' = FALSE /\ file' = NoFile
        /\ given' = {} /\ offset' = 0 /\ factsSent' = {}
        /\ UNCHANGED <<ttype, factBits>>
    BY DEF EndTransfer, ResetTransfer
  <1>1. ListerInv' /\ stage' = "none"
    BY CloseInv DEF EndTransfer, Inv
  <1>2. StagesInv' /\ ShowInv' /\ FactsInv'
    BY <1>1, <1>a DEF StagesInv, ShowInv, FactsInv
  <1>b. NoFile \in FileRecords
    BY DEF NoFile, FileRecords, Types
  <1>3. DialogueTypeOK'
    BY <1>a, <1>b DEF Inv, DialogueInv, DialogueTypeOK
  <1>4. (SettingsFresh /\ RestFits /\ TypeHonoured)'
    BY <1>a DEF SettingsFresh, RestFits, TypeHonoured, InTransfer
  <1> QED
    BY <1>1, <1>2, <1>3, <1>4 DEF Inv, DialogueInv

LEMMA ElsewhereInv == Inv /\ Elsewhere => Inv'
  <1> SUFFICES ASSUME Inv, Elsewhere
               PROVE  Inv'
    OBVIOUS
  <1>a. UNCHANGED <<dialogueVars, factsSent>>
    BY DEF Elsewhere
  <1>1. ListerInv' /\ UNCHANGED <<stage, show>>
    BY ChangeInv DEF Elsewhere, Inv
  <1>2. StagesInv' /\ ShowInv'
    BY <1>1, <1>a DEF Inv, DialogueInv, StagesInv, ShowInv, dialogueVars
  <1>3. (DialogueTypeOK /\ SettingsFresh /\ RestFits /\ TypeHonoured)'
    BY <1>a DEF Inv, DialogueInv, DialogueTypeOK, SettingsFresh, RestFits,
                TypeHonoured, InTransfer, dialogueVars, settings
  <1>4. FactsInv'
    BY <1>a DEF Inv, DialogueInv, FactsInv, Reported, IsEnabled, Bit,
                dialogueVars, settings
  <1> QED
    BY <1>1, <1>2, <1>3, <1>4 DEF Inv, DialogueInv

LEMMA IdleInv == Inv /\ UNCHANGED vars => Inv'
  <1> SUFFICES ASSUME Inv, UNCHANGED vars
               PROVE  Inv'
    OBVIOUS
  <1>a. UNCHANGED <<dialogueVars, factsSent, listerVars>>
    BY DEF vars
  <1>1. ListerInv' /\ UNCHANGED <<stage, show>>
    BY <1>a, StutterInv DEF Inv
  <1>2. StagesInv' /\ ShowInv'
    BY <1>1, <1>a DEF Inv, DialogueInv, StagesInv, ShowInv, dialogueVars
  <1>3. (DialogueTypeOK /\ SettingsFresh /\ RestFits /\ TypeHonoured)'
    BY <1>a DEF Inv, DialogueInv, DialogueTypeOK, SettingsFresh, RestFits,
                TypeHonoured, InTransfer, dialogueVars, settings
  <1>4. FactsInv'
    BY <1>a DEF Inv, DialogueInv, FactsInv, Reported, IsEnabled, Bit,
                dialogueVars, settings
  <1> QED
    BY <1>1, <1>2, <1>3, <1>4 DEF Inv, DialogueInv

-----------------------------------------------------------------------------
\* The invariant holds in every reachable state.
THEOREM DialogueInvariant == Spec => []Inv
  <1>1. Inv /\ [Next]_vars => Inv'
    BY SetTypeInv, RestInv, PortInv, OptsInv, StatListInv, FileCommandInv,
       ListCommandInv, ConstructInv, StartListingInv, ConnectedInv,
       SendListingInv, EndTransferInv, ElsewhereInv, IdleInv DEF Next
  <1> QED
    BY InitInv, <1>1, PTL DEF Spec

\* The variables keep their types (all actions of the dialogue).
THEOREM SpecTypeOK == Spec => []TypeOK
  <1>1. Inv => TypeOK
    BY DEF Inv, ListerInv, DialogueInv, TypeOK
  <1> QED
    BY DialogueInvariant, <1>1, PTL

\* A listing has every entry once, whatever its batches (DirLister::List).
THEOREM SpecListingExact == Spec => []ListingExact
  <1>1. Inv => ListingExact
    BY ListerInvExact DEF Inv
  <1> QED
    BY DialogueInvariant, <1>1, PTL

\* No batch but the last is empty, none is too long (FormatterBase::Print).
THEOREM SpecBatchSound == Spec => []BatchSound
  <1>1. Inv => BatchSound
    BY ListerInvSound DEF Inv
  <1> QED
    BY DialogueInvariant, <1>1, PTL

\* A setting lasts until its transfer has ended, and no longer; an offset is
\* lost before only to a REST that was refused (ResetTransfer, FtpCmdRest).
THEOREM SpecSettingsFresh == Spec => []SettingsFresh
  <1>1. Inv => SettingsFresh
    BY DEF Inv, DialogueInv
  <1> QED
    BY DialogueInvariant, <1>1, PTL

\* Hidden files are listed only if the client asked (ParseListArgs).
THEOREM SpecHiddenNeedsAsk == Spec => []HiddenNeedsAsk
  <1>1. Inv => HiddenNeedsAsk
    <2> SUFFICES ASSUME Inv, NEW n \in HiddenNames \ garbled, listed[n] > 0
                 PROVE  "-a" \in given
      BY DEF HiddenNeedsAsk
    <2>1. show /\ stage # "none"
      BY DEF Inv, ListerInv, HiddenInv
    <2> QED
      BY <2>1 DEF Inv, DialogueInv, ShowInv
  <1> QED
    BY DialogueInvariant, <1>1, PTL

\* An offset goes only with a transfer it suits (RETR, STOR, STOU, APPE).
THEOREM SpecRestFits == Spec => []RestFits
  <1>1. Inv => RestFits
    BY DEF Inv, DialogueInv
  <1> QED
    BY DialogueInvariant, <1>1, PTL

\* The conversion is the one the client asked for (StartTransfer, GetType).
THEOREM SpecTypeHonoured == Spec => []TypeHonoured
  <1>1. Inv => TypeHonoured
    BY DEF Inv, DialogueInv
  <1> QED
    BY DialogueInvariant, <1>1, PTL

\* All lines of an MLSD listing show the same facts (FtpCmdOpts).
THEOREM SpecFactsUniform == Spec => []FactsUniform
  <1>1. Inv => FactsUniform
    BY DEF Inv, DialogueInv, FactsInv, FactsUniform
  <1> QED
    BY DialogueInvariant, <1>1, PTL
=============================================================================
