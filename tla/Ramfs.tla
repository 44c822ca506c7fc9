------------------------------- MODULE Ramfs -------------------------------
(***************************************************************************)
(* The file tree of fs/ramfs.c, the shell commands that work on it         *)
(* (kernel/shell.c) with their permission check, and the tree's way        *)
(* through the snapshot (write_tree and the node loop of persist_mount).   *)
(*                                                                         *)
(* A tree is a function from the nodes in use to their contents.  A path   *)
(* is absolute or relative and has components, "." and ".." among them;    *)
(* names and paths longer than the buffers are not modelled, deep trees    *)
(* are: fs_abspath keeps the last MaxDepth components.  A save happens     *)
(* whole or not at all (see Persist).  The shell asks for the path of the  *)
(* current directory at every prompt: once that directory has been freed   *)
(* nothing is defined any more and the model stops.                        *)
(***************************************************************************)
EXTENDS Integers, Sequences, FiniteSets, SequencesExt, FiniteSetsExt

CONSTANTS
    MaxNodes,    \* nodes the heap has room for
    MaxDepth,    \* parts[32] of fs_abspath
    MaxPath,     \* bound: components of a path that is typed
    Names,       \* names that are typed, besides "." and ".."
    Data,        \* what a file may contain, as far as it is told apart
    Users,       \* "root" and others
    Home,        \* user -> components of the home directory
    Skeleton,    \* the directories at the start, parents first
    WritesFail,  \* whether the heap may be too full for a file's contents
    SavesFail,   \* whether a save may fail (bound: not two in a row)
    NULL

Empty == ""                      \* contents of a new file

ASSUME RamfsAssumption ==
    /\ MaxNodes \in Nat /\ MaxNodes > Len(Skeleton)
    /\ MaxDepth \in Nat \ {0} /\ MaxPath \in Nat
    /\ {".", ".."} \intersect Names = {}
    /\ Empty \in Data
    /\ "root" \in Users
    /\ Home \in [Users -> Seq(STRING)]
    /\ Skeleton \in Seq(Seq(Names))
    /\ WritesFail \in BOOLEAN /\ SavesFail \in BOOLEAN
    /\ NULL \notin Nat

Root == 0                        \* root_node
Ids == 0 .. MaxNodes - 1
Component == Names \union {".", ".."}
Path == {p \in [abs : BOOLEAN, comps : SeqOf(Component, MaxPath)] :
            p.abs \/ p.comps # <<>>}
File == [name : Component, type : {"file"}, parent : Ids, kids : {<<>>}, data : Data]
Dir == [name : Component \union {"/"}, type : {"dir"}, parent : Ids \union {NULL},
        kids : Seq(Ids), data : {Empty}]

VARIABLES
    fs,          \* the tree
    current_dir,
    user,        \* who is logged in
    dirty,       \* persist.c: changes not saved yet
    disk         \* the snapshot's nodes: <<path, type, data>> in order

vars == <<fs, current_dir, user, dirty, disk>>
-----------------------------------------------------------------------------
(* Looking up.                                                             *)

find_child(t, dir, name) ==
    LET found == {k \in Range(t[dir].kids) : t[k].name = name}
    IN  IF t[dir].type = "dir" /\ found # {} THEN Min(found) ELSE NULL

\* ".." of the root is the root; nothing is found below a file.
WalkStep(t, node, c) ==
    CASE node = NULL -> NULL
      [] node # NULL /\ c = "." -> node
      [] node # NULL /\ c = ".." -> IF node = Root THEN Root ELSE t[node].parent
      [] OTHER -> find_child(t, node, c)

WalkFrom(t, start, comps) ==
    LET at[i \in 0 .. Len(comps)] == IF i = 0 THEN start ELSE WalkStep(t, at[i - 1], comps[i])
    IN  at[Len(comps)]

Start(path) == IF path.abs THEN Root ELSE current_dir
fs_resolve(path) == WalkFrom(fs, Start(path), path.comps)

\* The node the last component goes into (stop_before_last).
ParentOf(t, start, comps) == WalkFrom(t, start, Front(comps))

\* Where a node really is.
TruePath(t, node) ==
    LET up[n \in DOMAIN t] == IF n = Root THEN <<>> ELSE Append(up[t[n].parent], t[n].name)
    IN  up[node]

fs_abspath(t, node) ==
    LET p == TruePath(t, node)
    IN  SubSeq(p, Max({1, Len(p) - MaxDepth + 1}), Len(p))
-----------------------------------------------------------------------------
(* Changing the tree.                                                      *)

\* Any node may get children (TypeOK).
CanCreate_AnyParent(t, start, comps) ==
    /\ comps # <<>>
    /\ LET parent == ParentOf(t, start, comps)
       IN  parent # NULL /\ find_child(t, parent, Last(comps)) = NULL
    /\ DOMAIN t # Ids

\* A name may be taken twice (TreeOK).
CanCreate_Taken(t, start, comps) ==
    /\ comps # <<>>
    /\ LET parent == ParentOf(t, start, comps)
       IN  parent # NULL /\ t[parent].type = "dir"
    /\ DOMAIN t # Ids

\* fs_create succeeds: the parent is a directory without a child of that
\* name and the heap has room.
CanCreate(t, start, comps) ==
    /\ comps # <<>>
    /\ LET parent == ParentOf(t, start, comps)
       IN  /\ parent # NULL
           /\ t[parent].type = "dir"
           /\ find_child(t, parent, Last(comps)) = NULL
    /\ DOMAIN t # Ids

\* node_new: the children stay in the order they were created in.
Create(t, start, comps, type) ==
    LET parent == ParentOf(t, start, comps)
        new == Min(Ids \ DOMAIN t)
    IN  [n \in DOMAIN t \union {new} |->
           IF n = new
           THEN [name |-> Last(comps), type |-> type, parent |-> parent,
                 kids |-> <<>>, data |-> Empty]
           ELSE IF n = parent THEN [t[n] EXCEPT !.kids = Append(@, new)]
           ELSE t[n]]

\* A node and all below it, parents first.
Subtree(t, node) ==
    LET under[n \in DOMAIN t] == FoldLeft(LAMBDA acc, k : acc \o under[k], <<n>>, t[n].kids)
    IN  under[node]

\* fs_remove's unlinking and free_subtree.
Unlink(t, node) ==
    [n \in DOMAIN t \ Range(Subtree(t, node)) |->
        IF n = t[node].parent
        THEN [t[n] EXCEPT !.kids = RemoveFirst(@, node)]
        ELSE t[n]]
-----------------------------------------------------------------------------
(* The snapshot.                                                           *)

\* Children before their directory (RoundTrip).
Snapshot_Reversed(t) ==
    LET nodes == Reverse(Tail(Subtree(t, Root)))
    IN  [i \in DOMAIN nodes |-> <<fs_abspath(t, nodes[i]), t[nodes[i]].type, t[nodes[i]].data>>]

\* write_tree: depth first, the root itself implied.
Snapshot(t) ==
    LET nodes == Tail(Subtree(t, Root))
    IN  [i \in DOMAIN nodes |-> <<fs_abspath(t, nodes[i]), t[nodes[i]].type, t[nodes[i]].data>>]

Bare == [n \in {Root} |->
            [name |-> "/", type |-> "dir", parent |-> NULL, kids |-> <<>>, data |-> Empty]]

\* One round of persist_mount's loop: create the node, or take the one that
\* is there, and give it its contents.
RestoreNode(t, e) ==
    LET made == IF CanCreate(t, Root, e[1]) THEN Create(t, Root, e[1], e[2]) ELSE t
        node == WalkFrom(made, Root, e[1])
    IN  IF node # NULL /\ made[node].type = "file" /\ e[3] # Empty
        THEN [made EXCEPT ![node].data = e[3]]
        ELSE made

\* fs_reset and the loop.
Restore(nodes) == FoldLeft(RestoreNode, Bare, nodes)
-----------------------------------------------------------------------------
(* Permissions.                                                            *)

users_may_write(abspath) ==
    \/ user = "root"
    \/ IsPrefix(Home[user], abspath)
    \/ IsPrefix(<<"tmp">>, abspath)

\* The path is checked as it was typed, without following it (Confined).
may_write_Typed(path) ==
    users_may_write((IF path.abs THEN <<>> ELSE fs_abspath(fs, current_dir)) \o path.comps)

\* target_abspath and users_may_write: the node if there is one, else the
\* directory it would go into.
may_write(path) ==
    LET node == fs_resolve(path)
        parent == ParentOf(fs, Start(path), path.comps)
    IN  IF node # NULL
        THEN users_may_write(fs_abspath(fs, node))
        ELSE /\ parent # NULL
             /\ fs[parent].type = "dir"
             /\ users_may_write(Append(fs_abspath(fs, parent), Last(path.comps)))
-----------------------------------------------------------------------------
(* Commands.  shell_run flushes behind each of them, also behind those     *)
(* that changed nothing; a save that fails leaves the tree dirty.          *)

Finish(t, dirtied) ==
    /\ fs' = t
    /\ \/ /\ dirtied
          /\ disk' = Snapshot(t)
          /\ dirty' = FALSE
       \/ /\ ~dirtied \/ (SavesFail /\ ~dirty)
          /\ dirty' = dirtied
          /\ UNCHANGED disk

Prompt == current_dir \in DOMAIN fs

\* A command that leaves the tree alone: cat, ls, or one refused.
Other ==
    /\ Prompt
    /\ Finish(fs, dirty)
    /\ UNCHANGED <<current_dir, user>>

\* cd without an argument, and what users_switch does for su.
Directory(path) == LET node == fs_resolve(path)
                   IN  IF node # NULL /\ fs[node].type = "dir" THEN node ELSE NULL

Cd ==
    /\ Prompt
    /\ \/ current_dir' \in {Directory(path) : path \in Path} \ {NULL}
       \/ LET home == WalkFrom(fs, Root, Home[user])
          IN  current_dir' = IF home = NULL THEN Root
                             ELSE IF fs[home].type = "dir" THEN home ELSE current_dir
    /\ Finish(fs, dirty)
    /\ UNCHANGED user

Su ==
    /\ Prompt
    /\ \E u \in Users :
        /\ user' = u
        /\ LET home == Directory([abs |-> TRUE, comps |-> Home[u]])
           IN  current_dir' = IF home = NULL THEN current_dir ELSE home
    /\ Finish(fs, dirty)

\* Paths the user may write and fs_create can make a node for.
Creatable == {path \in Path : CanCreate(fs, Start(path), path.comps) /\ may_write(path)}

Mkdir ==
    /\ Prompt
    /\ \E t \in {Create(fs, Start(path), path.comps, "dir") : path \in Creatable} :
            Finish(t, TRUE)
    /\ UNCHANGED <<current_dir, user>>

Touch ==
    /\ Prompt
    /\ \E t \in {Create(fs, Start(path), path.comps, "file") :
                     path \in {p \in Creatable : fs_resolve(p) = NULL}} :
            Finish(t, TRUE)
    /\ UNCHANGED <<current_dir, user>>

\* echo text > file or >> file, the file made first when it is not there:
\* either way it then has some contents that are not empty.  The write fails
\* when there is no memory for them.
Written(t, file, data) ==
    \/ Finish([t EXCEPT ![file].data = data], TRUE)
    \/ WritesFail /\ Finish(t, dirty)

Echo ==
    /\ Prompt
    /\ \E data \in Data \ {Empty} :
        \/ \E file \in {fs_resolve(path) : path \in {p \in Path : may_write(p)}} \ {NULL} :
            /\ fs[file].type = "file"
            /\ Written(fs, file, data)
        \/ \E t \in {Create(fs, Start(path), path.comps, "file") :
                         path \in {p \in Creatable : fs_resolve(p) = NULL}} :
            Written(t, Min(Ids \ DOMAIN fs), data)
    /\ UNCHANGED <<current_dir, user>>

\* What rm may be asked to free: the root and the current directory are
\* refused, a directory above the current one is not.
Removable ==
    {fs_resolve(path) : path \in {p \in Path : may_write(p)}} \ {NULL, Root, current_dir}

Rm ==
    /\ Prompt
    /\ \E node \in Removable : Finish(Unlink(fs, node), TRUE)
    /\ UNCHANGED <<current_dir, user>>

\* Power cut or reset, the mount at boot and a login: users_switch, then
\* shell_run goes home.
Restart ==
    /\ fs' = Restore(disk)
    /\ \E u \in Users :
        /\ user' = u
        /\ LET home == WalkFrom(fs', Root, Home[u])
           IN  current_dir' = IF home = NULL \/ fs'[home].type # "dir" THEN Root ELSE home
    /\ dirty' = FALSE
    /\ UNCHANGED disk

\* root at the prompt, after a save.
Init ==
    /\ fs = Restore([i \in DOMAIN Skeleton |-> <<Skeleton[i], "dir", Empty>>])
    /\ current_dir = Root
    /\ user = "root"
    /\ dirty = FALSE
    /\ disk = Snapshot(fs)

Next == Other \/ Cd \/ Su \/ Mkdir \/ Touch \/ Echo \/ Rm \/ Restart

Spec == Init /\ [][Next]_vars
-----------------------------------------------------------------------------
(* Properties.                                                             *)

TypeOK ==
    /\ Root \in DOMAIN fs /\ DOMAIN fs \subseteq Ids
    /\ \A n \in DOMAIN fs : fs[n] \in File \union Dir
    /\ current_dir \in Ids
    /\ user \in Users
    /\ dirty \in BOOLEAN
    /\ Len(disk) < MaxNodes

\* The nodes in use are exactly those of one tree: every list of children
\* and parent pointer agree, siblings have different names.
TreeOK ==
    /\ \A n \in DOMAIN fs : ToSet(fs[n].kids) \subseteq DOMAIN fs
    /\ ToSet(Subtree(fs, Root)) = DOMAIN fs
    /\ Len(Subtree(fs, Root)) = Cardinality(DOMAIN fs)
    /\ \A n \in DOMAIN fs :
        LET kids == fs[n].kids
        IN  /\ \A i \in DOMAIN kids : fs[kids[i]].parent = n
            /\ \A i, j \in DOMAIN kids : fs[kids[i]].name = fs[kids[j]].name => i = j

Contents(t, nodes) == {<<TruePath(t, n), t[n].type, t[n].data>> : n \in nodes}

\* No node is deeper than fs_abspath reaches (ramfs.c:284-289).
WithinReach == \A n \in DOMAIN fs : Len(TruePath(fs, n)) <= MaxDepth

\* However they write the path, users other than root change nothing outside
\* their home directory and /tmp (shell.c:93-95, users.c:285-301), as long as
\* the paths that are checked are whole.
Outside(t) ==
    Contents(t, {n \in DOMAIN t : ~ \/ IsPrefix(Home[user], TruePath(t, n))
                                    \/ IsPrefix(<<"tmp">>, TruePath(t, n))})
ConfinedStep ==
    \/ user = "root"
    \/ fs' = fs
    \/ Outside(fs') = Outside(fs)
    \/ Restart
Confined == [][WithinReach => ConfinedStep]_vars

\* A restart right after a save would find the tree that was saved, in the
\* same order ("parents before children, so a restore can create each path
\* knowing its parent already exists", persist.c:137-138), as long as all nodes
\* are within reach.
RoundTrip ==
    LET back == Restore(Snapshot(fs))
    IN  WithinReach =>
            /\ Contents(back, DOMAIN back) = Contents(fs, DOMAIN fs)
            /\ Snapshot(back) = Snapshot(fs)

\* The current directory exists ("refuse to remove the cwd", ramfs.c:225).
CwdAlive == current_dir \in DOMAIN fs
=============================================================================
