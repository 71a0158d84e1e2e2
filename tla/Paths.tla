------------------------------- MODULE Paths -------------------------------
(***************************************************************************)
(* Virtual paths (Path, WfdePath) and the lookup of permissions by virtual *)
(* path (WfdePermissions). A virtual path is a sequence of characters; a   *)
(* part of a path is one without slashes. A physical path is a root on the *)
(* disk followed by parts.                                                 *)
(***************************************************************************)
EXTENDS Naturals, Sequences, SequencesExt

\* The characters that the code tells apart, with two for all the others, in
\* the order in which strings are compared.
Chars == <<".", "/", "\\", "a", "b">>

Root == <<"/">>

\* One more character of a path: a slash ends a part, another one begins a
\* part after a slash and continues it otherwise.
AddChar(parts, before, c) ==
    IF c = "/" THEN parts
    ELSE IF before = "/" THEN Append(parts, <<c>>)
    ELSE Append(Front(parts), Append(Last(parts), c))

(***************************************************************************)
(* DoSplit: the longest runs of characters that are not slashes, found in  *)
(* a scan: split[k] has those in the first k characters.                   *)
(***************************************************************************)
DoSplit(s) ==
    LET split[k \in 0..Len(s)] ==
            IF k = 0 THEN <<>>
            ELSE AddChar(split[k - 1], IF k = 1 THEN "/" ELSE s[k - 1], s[k])
    IN  split[Len(s)]

ToVpath(parts) ==
    LET join[k \in 0..Len(parts)] ==
            IF k = 0 THEN <<>> ELSE join[k - 1] \o Root \o parts[k]
    IN  IF parts = <<>> THEN Root ELSE join[Len(parts)]

(***************************************************************************)
(* NormalizeAndSplit walks over the path; a step handles what begins at    *)
(* cur: a slash, ., .. or a name. A name also ends before a dot that is    *)
(* followed by a slash or by another dot. The result is a sequence of      *)
(* parts, or ok is FALSE and the path is refused by an exception.          *)
(***************************************************************************)
CharAt(s, i) == IF i \in DOMAIN s THEN s[i] ELSE "end"

\* What a name that begins at cur cannot have at p.
Stops(s, cur, p) ==
    \/ CharAt(s, p) \in {"/", "end"}
    \/ p # cur /\ s[p] = "." /\ CharAt(s, p + 1) \in {".", "/"}

NameEnd(s, cur) ==
    CHOOSE e \in cur..Len(s) :
        Stops(s, cur, e + 1) /\ \A p \in cur..e : ~Stops(s, cur, p)

\* The walk in which .. at the top is ignored.
ParentMutant(st, next) ==
    [st EXCEPT !.cur = next, !.parts = IF @ = <<>> THEN @ ELSE Front(@)]

Parent(st, next) ==
    IF st.parts = <<>> THEN [st EXCEPT !.ok = FALSE]
    ELSE [st EXCEPT !.cur = next, !.parts = Front(@)]

NameStep(s, st) ==
    LET e == NameEnd(s, st.cur)
    IN  IF \E p \in st.cur..e : s[p] = "\\" THEN [st EXCEPT !.ok = FALSE]
        ELSE [st EXCEPT !.cur = e + 1,
                        !.parts = Append(@, SubSeq(s, st.cur, e))]

\* The walk that looks for ../ only, and so takes .. at the end for a name.
StepMutant(s, st) ==
    LET here == CharAt(s, st.cur)
        second == CharAt(s, st.cur + 1)
        third == CharAt(s, st.cur + 2)
    IN  IF ~st.ok \/ here = "end" THEN st
        ELSE CASE here = "/" -> [st EXCEPT !.cur = @ + 1]
          [] here = "." /\ second \in {"/", "end"} -> [st EXCEPT !.cur = @ + 2]
          [] here = "." /\ second = "." /\ third = "/" -> Parent(st, st.cur + 3)
          [] OTHER -> NameStep(s, st)

Step(s, st) ==
    LET here == CharAt(s, st.cur)
        second == CharAt(s, st.cur + 1)
        third == CharAt(s, st.cur + 2)
    IN  IF ~st.ok \/ here = "end" THEN st
        ELSE CASE here = "/" -> [st EXCEPT !.cur = @ + 1]
          [] here = "." /\ second \in {"/", "end"} -> [st EXCEPT !.cur = @ + 2]
          [] here = "." /\ second = "." /\ third \in {"/", "end"} ->
                Parent(st, st.cur + 3)
          [] here = "." /\ second = "." /\ third \notin {"/", "end"} ->
                [st EXCEPT !.ok = FALSE]
          [] OTHER -> NameStep(s, st)

NormalizeAndSplit(vpath, cwd) ==
    LET start == [ok |-> TRUE, cur |-> 1,
                  parts |-> IF CharAt(vpath, 1) = "/" THEN <<>>
                            ELSE DoSplit(cwd)]
        walk[k \in 0..Len(vpath)] ==
            IF k = 0 THEN start ELSE Step(vpath, walk[k - 1])
    IN  walk[Len(vpath)]

-----------------------------------------------------------------------------
(***************************************************************************)
(* The reference for a path: its parts, one by one, . and .. resolved.     *)
(***************************************************************************)
Dot == <<".">>
DotDot == <<".", ".">>

AddPart(acc, part) ==
    CASE ~acc.ok \/ part = Dot -> acc
      [] acc.ok /\ part = DotDot /\ acc.parts = <<>> -> [acc EXCEPT !.ok = FALSE]
      [] acc.ok /\ part = DotDot /\ acc.parts # <<>> ->
            [acc EXCEPT !.parts = Front(@)]
      [] OTHER -> [acc EXCEPT !.parts = Append(@, part)]

ResolveParts(start, parts) ==
    LET resolved[k \in 0..Len(parts)] ==
            IF k = 0 THEN start ELSE AddPart(resolved[k - 1], parts[k])
    IN  resolved[Len(parts)]

ByParts(path, cwd) ==
    ResolveParts([ok |-> TRUE,
                  parts |-> IF CharAt(path, 1) = "/" THEN <<>> ELSE DoSplit(cwd)],
                 DoSplit(path))

\* A name that is meant by it: no backslash or two dots in it, no dot at its
\* end.
PlainName(name) ==
    /\ \A i \in 1..Len(name) : name[i] # "\\"
    /\ \A i \in 1..(Len(name) - 1) : name[i] # "." \/ name[i + 1] # "."
    /\ Last(name) # "."

Ordinary(path) ==
    \A name \in ToSet(DoSplit(path)) : name \in {Dot, DotDot} \/ PlainName(name)

-----------------------------------------------------------------------------
(***************************************************************************)
(* The lookup. An entry of the permissions has a virtual path, the root on *)
(* the disk that it stands for, and the permissions in force there and,    *)
(* if it is recursive, below.                                              *)
(***************************************************************************)
PermissionBits ==
    {"CAN_READ", "CAN_WRITE", "CAN_EXECUTE", "CAN_ENTER", "CAN_LIST",
     "CAN_CREATE_DIR", "CAN_CREATE_FILE", "CAN_DELETE_FILE", "CAN_DELETE_DIR",
     "CAN_SEE_HIDDEN_FILES", "CAN_SEE_HIDDEN_DIRS", "CAN_CREATE_HIDDEN_FILES",
     "CAN_CREATE_HIDDEN_DIRS", "CAN_SET_TIMESTAMP", "CAN_SET_PERMISSIONS",
     "CAN_RENAME", "IS_RECURSIVE", "IS_SHARED_UPLOAD_DIR"}

Rank(c) == CHOOSE i \in DOMAIN Chars : Chars[i] = c

\* The order of std::string.
Before(s, t) ==
    \/ IsStrictPrefix(s, t)
    \/ \E i \in DOMAIN s \cap DOMAIN t :
          /\ Rank(s[i]) < Rank(t[i])
          /\ \A k \in 1..(i - 1) : s[k] = t[k]

\* The order of the index by virtual path.
ByVpath(e, f) == Before(e.vpath, f.vpath)

\* The entries that a path begins with, character by character.
Matches(entries, vpath) ==
    {e \in ToSet(entries) : e.vpath # <<>> /\ IsPrefix(e.vpath, vpath)}

Applies(e, vpath) == "IS_RECURSIVE" \in e.perms \/ e.vpath = vpath

(***************************************************************************)
(* GetPath: the entry of the virtual path itself; otherwise the last one   *)
(* in the index that it begins with, provided that this one is recursive.  *)
(* {} if there is none (the code throws).                                  *)
(***************************************************************************)

\* The lookup that remembers an earlier match where the last one is not
\* recursive.
BestMatchMutant(entries, vpath) ==
    LET matches == {e \in Matches(entries, vpath) : Applies(e, vpath)}
    IN  {e \in matches : \A f \in matches : f = e \/ ByVpath(f, e)}

BestMatch(entries, vpath) ==
    LET matches == Matches(entries, vpath)
        last == {e \in matches : \A f \in matches : f = e \/ ByVpath(f, e)}
    IN  {e \in last : Applies(e, vpath)}

\* CreateSubpath: the parts that the entry does not cover are added to both
\* of its paths.
CreateSubpath(entry, remaining) ==
    LET parts == DoSplit(remaining)
    IN  [vpath |-> ToVpath(DoSplit(entry.vpath) \o parts),
         ppath |-> <<entry.root>> \o parts,
         perms |-> entry.perms]

(***************************************************************************)
(* GetPath of the session: the path, or {} where an exception is thrown.   *)
(***************************************************************************)
GetPath(entries, vpath, cwd) ==
    LET st == NormalizeAndSplit(vpath, cwd)
        full == ToVpath(st.parts)
    IN  IF ~st.ok THEN {}
        ELSE {CreateSubpath(e, SubSeq(full, Len(e.vpath) + 1, Len(full))) :
                 e \in BestMatch(entries, full)}
=============================================================================
