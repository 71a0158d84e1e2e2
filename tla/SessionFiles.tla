---------------------------- MODULE SessionFiles ----------------------------
(***************************************************************************)
(* The commands on files and directories of one session: the current       *)
(* directory and the pending rename, the permissions they are checked      *)
(* against (WfdeSession), and the part of the disk they change.            *)
(*                                                                         *)
(* The session handles one command at a time and executes none of these    *)
(* while a file is transferred. The disk belongs to the operating system   *)
(* and is modelled by the operations that are used: files and directories  *)
(* come and go under the roots that the entries of the permissions name.   *)
(* Each root is taken for a directory of its own, although the directories *)
(* that a configuration names may be inside one another.                   *)
(***************************************************************************)
EXTENDS Paths, FtpCommands, FiniteSets

CONSTANTS
    Entries,   \* the entries of the permissions, as they were added
    Inputs,    \* the paths that the client sends with its commands
    Lookups,   \* the paths for which the properties look at the resolution
    Files,     \* what is on the disk at first, as a function from paths
    MaxNodes   \* a bound on the files and directories on the disk

Roots == {Entries[i].root : i \in DOMAIN Entries}

\* AddPath refuses an entry whose virtual path, or root, is already there.
CanBeAdded(entry, others) ==
    \A other \in others :
        other.vpath # entry.vpath /\ other.root # entry.root

\* Virtual paths are configured in the form in which CreateSubpath extends
\* them: / or, for each part, a slash and the part.
ASSUME EntriesAssumption ==
    /\ Entries \in Seq([vpath : Seq(ToSet(Chars)), root : Roots,
                        perms : SUBSET PermissionBits])
    /\ \A i \in DOMAIN Entries :
          /\ CanBeAdded(Entries[i], {Entries[j] : j \in 1..(i - 1)})
          /\ Entries[i].vpath = ToVpath(DoSplit(Entries[i].vpath))

ASSUME PathsAssumption ==
    \A path \in Inputs \cup Lookups : path \in Seq(ToSet(Chars))

\* What can be on a disk: below the roots, everything is in a directory.
IsTree(d) ==
    /\ d \in [DOMAIN d -> {"file", "dir"}]
    /\ \A p \in DOMAIN d :
          /\ p \in Seq(Roots \cup Seq(ToSet(Chars))) /\ p # <<>> /\ p[1] \in Roots
          /\ Len(p) = 1 \/ (Front(p) \in DOMAIN d /\ d[Front(p)] = "dir")

ASSUME FilesAssumption == IsTree(Files)

VARIABLES
    cwd,     \* cwd_
    disk,    \* every path on the disk, and whether it is a file
    rnfr,    \* rnfr_: the virtual path of the last RNFR that was accepted
    prev     \* prev_cmd_name_, "other" for what no command here needs

vars == <<cwd, disk, rnfr, prev>>

TypeOK ==
    /\ cwd \in Seq(ToSet(Chars)) /\ rnfr \in Seq(ToSet(Chars))
    /\ IsTree(disk)
    /\ prev \in {"RNFR", "RNTO", "other"}

Init ==
    /\ cwd = Root
    /\ disk = Files
    /\ rnfr = <<>>
    /\ prev = "other"

Resolve(path) == GetPath(Entries, path, cwd)

-----------------------------------------------------------------------------
(***************************************************************************)
(* The disk. The directories that hold the roots are always there. A part  *)
(* . of a path stands for the directory it is in: it can be looked up, but *)
(* nothing can be made, removed or renamed by that name.                   *)
(***************************************************************************)
Place(ppath) ==
    LET place[k \in 0..(Len(ppath) - 1)] ==
            IF k = 0 THEN <<ppath[1]>>
            ELSE IF ppath[k + 1] = Dot THEN place[k - 1]
            ELSE Append(place[k - 1], ppath[k + 1])
    IN  place[Len(ppath) - 1]

IsDir(ppath) == Place(ppath) \in DOMAIN disk /\ disk[Place(ppath)] = "dir"
IsFile(ppath) ==
    /\ Place(ppath) \in DOMAIN disk /\ disk[Place(ppath)] = "file"
    /\ Last(ppath) # Dot
Exists(ppath) == IsDir(ppath) \/ IsFile(ppath)
Below(place) == {q \in DOMAIN disk : IsPrefix(place, q)}
CanHold(ppath) ==
    LET dir == Front(Place(ppath))
    IN  /\ Last(ppath) # Dot
        /\ dir # <<>> => dir \in DOMAIN disk /\ disk[dir] = "dir"

Add(ppath, kind) ==
    /\ Cardinality(DOMAIN disk) < MaxNodes
    /\ disk' = [p \in DOMAIN disk \cup {Place(ppath)} |->
                   IF p = Place(ppath) THEN kind ELSE disk[p]]

\* remove: a file, or a directory that is empty.
RemovePath(ppath) ==
    /\ Last(ppath) # Dot
    /\ Below(Place(ppath)) = {Place(ppath)}
    /\ disk' = [p \in DOMAIN disk \ {Place(ppath)} |-> disk[p]]

\* rename: with all that is below; not into itself.
MovePath(from, to) ==
    /\ Last(from) # Dot /\ CanHold(to) /\ ~IsPrefix(Place(from), Place(to))
    /\ LET all == Below(Place(from))
           Moved(p) == Place(to) \o SubSeq(p, Len(Place(from)) + 1, Len(p))
           kept == DOMAIN disk \ all
       IN  disk' = [p \in kept \cup {Moved(q) : q \in all} |->
                       IF p \in kept THEN disk[p]
                       ELSE disk[CHOOSE q \in all : Moved(q) = p]]

-----------------------------------------------------------------------------
(***************************************************************************)
(* The operations of WfdeSession, for a path that has been resolved.       *)
(***************************************************************************)

\* SetCwd that keeps the path as the client has written it.
SetCwdMutant(path, dir) ==
    /\ "CAN_ENTER" \in dir.perms
    /\ IsDir(dir.ppath)
    /\ cwd' = path
    /\ UNCHANGED disk

SetCwd(path, dir) ==
    /\ "CAN_ENTER" \in dir.perms
    /\ IsDir(dir.ppath)
    /\ cwd' = dir.vpath
    /\ UNCHANGED disk

CreateDirectory(dir) ==
    /\ "CAN_CREATE_DIR" \in dir.perms
    /\ ~IsDir(dir.ppath)
    /\ CanHold(dir.ppath) /\ ~Exists(dir.ppath) /\ Add(dir.ppath, "dir")
    /\ UNCHANGED cwd

DeleteDirectory(dir) ==
    /\ "CAN_DELETE_DIR" \in dir.perms
    /\ IsDir(dir.ppath)
    /\ RemovePath(dir.ppath)
    /\ UNCHANGED cwd

DeleteFile(file) ==
    /\ "CAN_DELETE_FILE" \in file.perms
    /\ IsFile(file.ppath)
    /\ RemovePath(file.ppath)
    /\ UNCHANGED cwd

\* OpenFile that does not look whether the directory is there.
OpenFileMutant(file, operation) ==
    /\ "CAN_WRITE" \in file.perms
    /\ operation = "WRITE_NEW" => "CAN_CREATE_FILE" \in file.perms
    /\ ~Exists(file.ppath) /\ Add(file.ppath, "file")
    /\ UNCHANGED cwd

\* OpenFile, and the constructor of WfdeFile, for a file that is not there:
\* all three ways to write make it.
OpenFile(file, operation) ==
    /\ "CAN_WRITE" \in file.perms
    /\ operation = "WRITE_NEW" => "CAN_CREATE_FILE" \in file.perms
    /\ ~Exists(file.ppath) /\ CanHold(file.ppath) /\ Add(file.ppath, "file")
    /\ UNCHANGED cwd

\* Rename that looks for the permission to create on the side it moves from.
RenameMutant(from, to) ==
    /\ "CAN_RENAME" \in from.perms
    /\ Exists(from.ppath)
    /\ ~Exists(to.ppath)
    /\ IF IsDir(from.ppath) THEN "CAN_CREATE_DIR" \in from.perms
                            ELSE "CAN_CREATE_FILE" \in from.perms
    /\ MovePath(from.ppath, to.ppath)
    /\ UNCHANGED cwd

\* IsSameParentDir compares ranges of different lengths and is never true:
\* the permission to create is always needed.
Rename(from, to) ==
    /\ "CAN_RENAME" \in from.perms
    /\ Exists(from.ppath)
    /\ ~Exists(to.ppath)
    /\ IF IsDir(from.ppath) THEN "CAN_CREATE_DIR" \in to.perms
                            ELSE "CAN_CREATE_FILE" \in to.perms
    /\ MovePath(from.ppath, to.ppath)
    /\ UNCHANGED cwd

-----------------------------------------------------------------------------
(***************************************************************************)
(* The commands. One that fails in any way is answered and changes only    *)
(* what is the previous command.                                           *)
(***************************************************************************)
Executed(c) ==
    /\ prev' = IF c \in {"RNFR", "RNTO"} THEN c ELSE "other"
    /\ UNCHANGED rnfr

\* CWD without a path goes to the top.
Cwd(path) ==
    /\ LET target == IF path = <<>> THEN Root ELSE path
       IN  \E dir \in Resolve(target) : SetCwd(target, dir)
    /\ Executed("CWD")

Cdup ==
    /\ \E dir \in Resolve(DotDot) : SetCwd(DotDot, dir)
    /\ Executed("CDUP")

Mkd(path) ==
    /\ \E dir \in Resolve(path) : CreateDirectory(dir)
    /\ Executed("MKD")

Rmd(path) ==
    /\ \E dir \in Resolve(path) : DeleteDirectory(dir)
    /\ Executed("RMD")

Dele(path) ==
    /\ \E file \in Resolve(path) : DeleteFile(file)
    /\ Executed("DELE")

Operation(c) == CASE c = "STOR" -> "WRITE"
                  [] c = "STOU" -> "WRITE_NEW"
                  [] c = "APPE" -> "APPEND"

Store(c, path) ==
    /\ \E file \in Resolve(path) : OpenFile(file, Operation(c))
    /\ Executed(c)

\* RNFR of a path that may be renamed, if it exists.
Rnfr(path) ==
    /\ \E from \in Resolve(path) :
          /\ "CAN_RENAME" \in from.perms
          /\ Exists(from.ppath)
          /\ rnfr' = from.vpath
    /\ prev' = "RNFR"
    /\ UNCHANGED <<cwd, disk>>

\* RNFR that is answered by an error: it is the previous command as well.
RnfrFails(path) ==
    /\ \A from \in Resolve(path) :
          "CAN_RENAME" \notin from.perms \/ ~Exists(from.ppath)
    /\ prev' = "RNFR"
    /\ UNCHANGED <<cwd, disk, rnfr>>

Rnto(path) ==
    /\ prev = NeedPrevCmd("RNTO")
    /\ \E from \in Resolve(rnfr) : \E to \in Resolve(path) : Rename(from, to)
    /\ Executed("RNTO")

\* A command that changes nothing here, or one that fails.
Other(c) ==
    /\ NeedPrevCmd(c) # "none" => prev = NeedPrevCmd(c)
    /\ c # "RNFR"
    /\ UNCHANGED <<cwd, disk>>
    /\ Executed(c)

Next ==
    \/ \E path \in Inputs :
          \/ Mkd(path) \/ Rmd(path) \/ Dele(path)
          \/ Rnfr(path) \/ RnfrFails(path) \/ Rnto(path)
          \/ \E c \in StoreCommands : Store(c, path)
    \/ \E path \in Inputs \cup {<<>>} : Cwd(path)
    \/ Cdup
    \/ \E c \in {"NOOP", "RNTO"} : Other(c)

Spec == Init /\ [][Next]_vars

-----------------------------------------------------------------------------
(***************************************************************************)
(* Properties. Those about the operators of Paths are invariants: they are *)
(* checked for every current directory that the session comes to.          *)
(***************************************************************************)
\* Whatever the client sends, the path it gets on the disk is below the root
\* of an entry: none of its parts is empty or .., or has a slash in it. (The
\* lookup may cut a name so that . is left, which stays where it is.)
Confined ==
    \A path \in Lookups : \A p \in Resolve(path) :
        /\ p.ppath[1] \in Roots
        /\ \A i \in 2..Len(p.ppath) :
              p.ppath[i] \notin {<<>>, DotDot}
              /\ "/" \notin ToSet(p.ppath[i])

\* The walk over the characters resolves ordinary paths as by their parts, in
\* every current directory, and refuses those that lead above the top.
NormalizeAgrees ==
    \A path \in Lookups : Ordinary(path) =>
        LET st == NormalizeAndSplit(path, cwd)
            reference == ByParts(path, cwd)
        IN  /\ st.ok <=> reference.ok
            /\ st.ok => st.parts = reference.parts

\* An entry is for a path whose first parts are its own. The lookup by
\* characters also takes a path whose part goes on where the entry ends: /ba for
\* one below the entry /b.
Covers(e, parts) == IsPrefix(DoSplit(e.vpath), parts)

ContinuedBy(e, parts) ==
    LET d == DoSplit(e.vpath)
        n == Len(d)
    IN  /\ n \in 1..Len(parts)
        /\ Front(d) = SubSeq(parts, 1, n - 1)
        /\ IsStrictPrefix(Last(d), parts[n])

Closest(parts) ==
    LET matching == {e \in ToSet(Entries) :
                        Covers(e, parts) \/ ContinuedBy(e, parts)}
    IN  {e \in matching : \A f \in matching : Len(f.vpath) <= Len(e.vpath)}

\* The lookup, by characters and in the order of the index, finds the longest of
\* the entries that cover the path or are continued by it, and nothing if that
\* one is for itself only. The code says "the longest mathing recursive parent
\* path" (WfdePermissions.cpp:66). That is what it finds where no entry is
\* continued, and but for an entry for itself only, which hides those above it;
\* but /ba is answered by an entry /b, which is not its parent (:82).
PermissionsAgree ==
    \A path \in Lookups :
        LET st == NormalizeAndSplit(path, cwd)
            full == ToVpath(st.parts)
        IN  st.ok =>
               BestMatch(Entries, full) =
                   {e \in Closest(st.parts) :
                       e.vpath = full \/ "IS_RECURSIVE" \in e.perms}

\* The current directory resolves to itself, so that a client that goes back to
\* what PWD has told it gets there, in every directory the session comes to but
\* these: a name in it is . or ends with a dot before a slash (after CWD a. and
\* CWD b the session is in /a./b, which resolves to /a/b), a name of it is taken
\* for one that continues an entry, or no entry answers for it (after CWD /bba
\* with entries /b and, for itself only, /b/b the session is in /b/ba).
CwdStable ==
    LET names == DoSplit(cwd)
        stable == /\ \E dir \in Resolve(cwd) : dir.vpath = cwd
                  /\ Resolve(cwd) = Resolve(<<>>)
    IN  stable <=>
            /\ \A i \in DOMAIN names :
                  names[i] # Dot /\ (Last(names[i]) = "." => i = Len(names))
            /\ \E e \in Closest(names) :
                  Covers(e, names) /\ (e.vpath = cwd \/ "IS_RECURSIVE" \in e.perms)

\* Under the root of an entry without a permission to change anything, nothing
\* comes or goes, by any sequence of commands. It is about what the session is
\* asked to do under that root: where another entry names the same directory, or
\* one around it, what is done there under the other root is that entry's.
ReadOnlyKept ==
    [][\A i \in DOMAIN Entries :
          Entries[i].perms \subseteq {"CAN_ENTER", "CAN_LIST", "CAN_READ",
                                      "IS_RECURSIVE"} =>
              LET Under(d) == {p \in DOMAIN d : p[1] = Entries[i].root}
              IN  Under(disk) = Under(disk')]_vars
=============================================================================
