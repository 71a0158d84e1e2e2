--------------------------- MODULE MCSessionFiles ---------------------------
(***************************************************************************)
(* An instance of SessionFiles for TLC: a read-only root, a home directory *)
(* below it, and in that an entry for itself only with one below.          *)
(***************************************************************************)
EXTENDS SessionFiles

CONSTANTS itself, top, deep, home   \* the roots on the disk

ReadOnly == {"CAN_ENTER", "CAN_LIST", "CAN_READ"}
Home == ReadOnly \cup {"CAN_WRITE", "CAN_CREATE_FILE", "CAN_DELETE_FILE",
                       "CAN_RENAME", "CAN_CREATE_DIR", "CAN_DELETE_DIR",
                       "IS_RECURSIVE"}

B == <<"b">>

\* Written in an order that is not that of the virtual paths.
FourEntries == <<
    [vpath |-> ToVpath(<<B, B>>), root |-> itself, perms |-> ReadOnly],
    [vpath |-> Root, root |-> top, perms |-> ReadOnly \cup {"IS_RECURSIVE"}],
    [vpath |-> ToVpath(<<B, B, B>>), root |-> deep,
     perms |-> {"CAN_LIST", "CAN_WRITE", "IS_RECURSIVE"}],
    [vpath |-> ToVpath(<<B>>), root |-> home, perms |-> Home] >>

\* Paths to the entries, to what can be below them, and up from there; a name
\* that ends with a dot, and names that continue those of entries.
Sent == {Root, <<".", ".">>, <<"a">>, <<"a", ".">>,
         ToVpath(<<B>>), ToVpath(<<B, B>>), ToVpath(<<<<"b", ".">>>>),
         ToVpath(<<<<"b", "b", "a">>>>),
         ToVpath(<<B, <<".", ".">>, B, B, B, <<"a">>>>)}

\* Every path of up to three dots, slashes and letters, and some longer ones.
ShortPaths ==
    BoundedSeq({".", "/", "a"}, 3) \cup Sent \cup
        {<<"\\">>, <<"a", "\\">>, B, <<"b", "/", "a">>, <<".", ".", "/", "b">>,
         <<"b", ".">>, <<"b", "a", "/", "b">>, ToVpath(<<<<"b", "b">>, B>>),
         ToVpath(<<B, B, B>>), ToVpath(<<B, B, <<"a">>>>)}

\* The roots, and a directory in the read-only one.
SomeFiles == [p \in {<<top>>, <<home>>, <<itself>>, <<deep>>,
                     <<top, <<"a">>>>} |-> "dir"]
=============================================================================
