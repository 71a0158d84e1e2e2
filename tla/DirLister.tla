----------------------------- MODULE DirLister -----------------------------
(***************************************************************************)
(* A directory listing: the file a LIST, NLST or MLSD transfer sends       *)
(* (WfdeFtpList), with its lister (DirLister), directory iterator          *)
(* (FileListIterator, the one for UNIX) and formatter (Formatter).         *)
(*                                                                         *)
(* A listing is the entries of a directory, followed by the sub-mounts of  *)
(* the session below it that do not exist as physical directories. It is   *)
(* made in batches of one buffer. Other threads and other programs change  *)
(* the directory meanwhile, so that each look at it is a step of its own.  *)
(***************************************************************************)
EXTENDS Naturals

CONSTANTS
    Names,       \* the names an entry of the directory can have
    Dot,         \* the entry every directory has: "."
    HiddenNames, \* the names that start with a dot, "." and ".." excepted
    Mounts,      \* the sub-mounts of the directory
    ApproxSize,  \* CalculateSize of the formatter, for each name
    BufferSize,  \* the size of the buffer
    NoName       \* no entry

ASSUME NamesAssumption ==
    /\ HiddenNames \subseteq Names /\ Mounts \subseteq Names
    /\ Dot \in Names \ (HiddenNames \cup Mounts)
    /\ NoName \notin Names

(***************************************************************************)
(* A name has at most 255 bytes, the formats need at most 128 more, and    *)
(* the buffer has 16 KB.                                                   *)
(***************************************************************************)
ASSUME SizesAssumption ==
    /\ BufferSize \in Nat
    /\ ApproxSize \in [Names -> Nat \ {0}]
    /\ \A n \in Names : ApproxSize[n] < BufferSize

VARIABLES
    disk,      \* the entries of the physical directory
    changed,   \* those created or removed since it was opened (history)
    unread,    \* the entries readdir() will still return
    stage,     \* where the listing is
    unchecked, \* the sub-mounts the constructor has still to look at
    show,      \* show_hidden_
    entry,     \* name_, the entry the iterator is at
    isEof,     \* is_eof_ of the iterator: readdir() has come to the end
    haveVpath, \* have_vpath_
    vpaths,    \* vpaths_
    garbled,   \* the sub-mounts whose name was read wrong (history)
    cur,       \* cur_ - buffer_ of the formatter
    used,      \* bytes_used_
    atEnd,     \* is_eof_ of the file
    listed     \* how often each name has been printed (history)

dirVars == <<disk, changed>>
iterVars == <<unread, entry, isEof, haveVpath, vpaths, garbled>>
bufferVars == <<cur, used, atEnd, listed>>
listerVars == <<dirVars, iterVars, bufferVars, stage, unchecked, show>>

ListerStages == {"none", "mounts", "ready", "filling", "batch"}

ListerTypeOK ==
    /\ Dot \in disk /\ disk \subseteq Names /\ changed \subseteq Names \ {Dot}
    /\ unread \subseteq Names
    /\ stage \in ListerStages /\ unchecked \subseteq Mounts
    /\ show \in BOOLEAN /\ entry \in Names \cup {NoName}
    /\ isEof \in BOOLEAN /\ haveVpath \in BOOLEAN
    /\ vpaths \subseteq Mounts /\ garbled \subseteq Mounts
    /\ cur \in 0..BufferSize /\ used \in 0..BufferSize /\ atEnd \in BOOLEAN
    /\ listed \in [Names -> Nat]

\* There is no listing; only the directory is there.
ListerInit ==
    /\ disk \in {d \in SUBSET Names : Dot \in d} /\ changed = {} /\ unread = {}
    /\ stage = "none" /\ unchecked = {} /\ show = FALSE
    /\ entry = NoName /\ isEof = TRUE /\ haveVpath = FALSE
    /\ vpaths = {} /\ garbled = {}
    /\ cur = 0 /\ used = 0 /\ atEnd = FALSE /\ listed = [n \in Names |-> 0]

-----------------------------------------------------------------------------
(***************************************************************************)
(* The iterator.                                                           *)
(***************************************************************************)

(***************************************************************************)
(* The last sub-mount is taken from the vector. name_ refers to the string *)
(* that is popped with it: the name read later is the right one, or        *)
(* whatever the memory holds by then.                                      *)
(***************************************************************************)
TakeVpath ==
    \/ /\ vpaths = {}
       /\ entry' = NoName /\ haveVpath' = FALSE
       /\ UNCHANGED <<vpaths, garbled>>
    \/ \E m \in vpaths :
         /\ entry' = m /\ haveVpath' = TRUE /\ vpaths' = vpaths \ {m}
         /\ garbled' \in {garbled, garbled \cup {m}}

\* Advance: readdir() until its end, then the sub-mounts.
Advance ==
    \/ /\ ~isEof
       /\ \E n \in unread : entry' = n /\ unread' = unread \ {n}
       /\ UNCHANGED <<isEof, haveVpath, vpaths, garbled>>
    \/ /\ isEof \/ unread = {}
       /\ isEof' = TRUE /\ TakeVpath
       /\ UNCHANGED unread

\* operator != with the end iterator
More == ~isEof \/ haveVpath

\* The entry is left out: its name begins with a dot, or seems to.
LeftOut == ~show /\ entry \in HiddenNames \cup garbled

\* The entry is printed. Which it is if its name is read wrong, too.
Shown == show \/ entry \notin HiddenNames \/ entry \in garbled

-----------------------------------------------------------------------------
(***************************************************************************)
(* The lister.                                                             *)
(***************************************************************************)

\* The directory is opened and the iterator set on its first entry (there is
\* always "."); the sub-mounts are not there yet.
OpenDir(hidden) ==
    /\ stage = "none" /\ stage' = "mounts"
    /\ show' = hidden /\ unchecked' = Mounts
    /\ isEof' = FALSE /\ \E n \in disk : entry' = n /\ unread' = disk \ {n}
    /\ haveVpath' = FALSE /\ vpaths' = {} /\ garbled' = {} /\ changed' = {}
    /\ cur' = 0 /\ used' = 0 /\ atEnd' = FALSE
    /\ listed' = [n \in Names |-> 0]
    /\ UNCHANGED disk

AddVpathMutant ==
    /\ stage = "mounts"
    /\ \E m \in unchecked :
         unchecked' = unchecked \ {m} /\ vpaths' = vpaths \cup {m}
    /\ UNCHANGED <<dirVars, bufferVars, unread, entry, isEof, haveVpath,
                   garbled, stage, show>>

\* The constructor adds a sub-mount that does not exist on the disk.
AddVpath ==
    /\ stage = "mounts"
    /\ \E m \in unchecked :
         /\ unchecked' = unchecked \ {m}
         /\ vpaths' = IF m \in disk THEN vpaths ELSE vpaths \cup {m}
    /\ UNCHANGED <<dirVars, bufferVars, unread, entry, isEof, haveVpath,
                   garbled, stage, show>>

Constructed ==
    /\ stage = "mounts" /\ unchecked = {} /\ stage' = "ready"
    /\ UNCHANGED <<dirVars, iterVars, bufferVars, unchecked, show>>

\* Read() of the file calls List().
BeginList ==
    /\ stage = "ready" /\ ~atEnd
    /\ stage' = "filling" /\ used' = 0
    /\ UNCHANGED <<dirVars, iterVars, cur, atEnd, listed, unchecked, show>>

\* One entry that is not listed.
SkipEntry ==
    /\ stage = "filling" /\ More /\ LeftOut
    /\ Advance
    /\ UNCHANGED <<dirVars, bufferVars, stage, unchecked, show>>

FitsMutant == cur + ApproxSize[entry] <= BufferSize + 1

Fits == cur + ApproxSize[entry] < BufferSize

\* How many bytes the format prints: no more than CalculateSize said.
PrintIt(n) == 1..ApproxSize[n]

PrintEntry ==
    /\ stage = "filling" /\ More /\ Shown /\ Fits
    /\ \E bytes \in PrintIt(entry) :
         cur' = cur + bytes /\ used' = used + bytes
    /\ listed' = [listed EXCEPT ![entry] = @ + 1]
    /\ Advance
    /\ UNCHANGED <<dirVars, atEnd, stage, unchecked, show>>

BufferFullMutant ==
    /\ stage = "filling" /\ More /\ Shown /\ ~Fits
    /\ stage' = "batch" /\ atEnd' = FALSE
    /\ UNCHANGED <<dirVars, iterVars, used, listed, unchecked, show, cur>>

\* No room: the formatter starts over, and List returns for this batch.
BufferFull ==
    /\ stage = "filling" /\ More /\ Shown /\ ~Fits
    /\ cur' = 0 /\ stage' = "batch" /\ atEnd' = FALSE
    /\ UNCHANGED <<dirVars, iterVars, used, listed, unchecked, show>>

EndOfList ==
    /\ stage = "filling" /\ ~More
    /\ stage' = "batch" /\ atEnd' = TRUE
    /\ UNCHANGED <<dirVars, iterVars, cur, used, listed, unchecked, show>>

\* SendFile is done with the batch: it has been written, or it was empty.
BatchDone ==
    /\ stage = "batch" /\ stage' = "ready"
    /\ UNCHANGED <<dirVars, iterVars, bufferVars, unchecked, show>>

\* What a Read and the write that follows it consist of.
SendBatch == BeginList \/ SkipEntry \/ PrintEntry \/ BufferFull \/ EndOfList
                 \/ BatchDone

(***************************************************************************)
(* Somebody else creates or removes an entry. readdir() may or may not     *)
(* return an entry that was created or removed after opendir(). Bound: a   *)
(* name changes at most once in a listing.                                 *)
(***************************************************************************)
ChangeDir ==
    /\ stage # "none"
    /\ \E n \in Names \ (changed \cup {Dot}) :
         /\ changed' = changed \cup {n}
         /\ \/ /\ n \notin disk /\ disk' = disk \cup {n}
               /\ unread' \in {unread, unread \cup {n}}
            \/ /\ n \in disk /\ disk' = disk \ {n}
               /\ unread' \in {unread, unread \ {n}}
    /\ UNCHANGED <<entry, isEof, haveVpath, vpaths, garbled, bufferVars,
                   stage, unchecked, show>>

\* The lister is destroyed.
CloseLister ==
    /\ stage' = "none" /\ unchecked' = {} /\ show' = FALSE
    /\ changed' = {} /\ unread' = {} /\ entry' = NoName /\ isEof' = TRUE
    /\ haveVpath' = FALSE /\ vpaths' = {} /\ garbled' = {}
    /\ cur' = 0 /\ used' = 0 /\ atEnd' = FALSE
    /\ listed' = [n \in Names |-> 0]
    /\ UNCHANGED disk

-----------------------------------------------------------------------------
(***************************************************************************)
(* What a listing promises, for the names nobody created or removed while  *)
(* it was made: none is listed twice, whatever the batches; when it is     *)
(* complete, it has the entries of the directory and the sub-mounts, the   *)
(* hidden ones only if they are to be shown, and nothing else. A sub-mount *)
(* whose name was read wrong is excepted.                                  *)
(***************************************************************************)
Visible(n) == show \/ n \notin HiddenNames

ListingExact ==
    \A n \in Names \ (changed \cup garbled) :
        /\ listed[n] <= 1
        /\ listed[n] = 1 => Visible(n) /\ n \in disk \cup Mounts
        /\ atEnd /\ Visible(n) /\ n \in disk \cup Mounts => listed[n] = 1

(***************************************************************************)
(* The buffer List returns begins with the first entry of its batch, and   *)
(* stays within its size; if more is to come it is not empty: SendFile     *)
(* reads again after an empty buffer, without ever waiting, and a batch    *)
(* that stays empty would keep the thread for good.                        *)
(***************************************************************************)
BatchSound ==
    /\ stage = "filling" => cur = used
    /\ cur <= BufferSize /\ used <= BufferSize
    /\ stage = "batch" /\ ~atEnd => used > 0
=============================================================================
