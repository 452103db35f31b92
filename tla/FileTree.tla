------------------------------- MODULE FileTree -------------------------------
(***************************************************************************)
(* What the in-memory file system promises: a tree of named directories    *)
(* and files and a current directory in it.  A path is a record of whether *)
(* it starts at the root, its segments (an empty one stands for a doubled  *)
(* or trailing slash) and whether its text has FS_PATH_MAX characters or   *)
(* more: such a path leads to what is there but creates nothing.  The      *)
(* promise ends when the current directory itself is removed.              *)
(***************************************************************************)
EXTENDS Integers, FiniteSets, Sequences, SequencesExt

CONSTANTS
  FS_NODE_MAX, FS_DATA_MAX,
  LongNames,        \* segments of FS_NAME_MAX characters or more
  FsPaths, Texts,   \* the arguments callers pass
  Layout            \* what fs_init creates: <<path, text>> pairs; <<>> is a directory

VARIABLES
  tree,             \* from the segments below the root to what is there
  cwd,
  lost              \* the current directory has been removed

tree_vars == <<tree, cwd, lost>>

Directory == [directory |-> TRUE, data |-> <<>>]
File(data) == [directory |-> FALSE, data |-> data]
Nowhere == <<"nowhere">>

Follow(at, segment) ==
  IF at = Nowhere \/ segment \in LongNames THEN Nowhere
  ELSE IF segment \in {"", "."} THEN at
  ELSE IF segment = ".." THEN IF at = <<>> THEN <<>> ELSE Front(at)
  ELSE IF Append(at, segment) \in DOMAIN tree THEN Append(at, segment) ELSE Nowhere

Resolve(path) == FoldLeft(Follow, IF path.absolute THEN <<>> ELSE cwd, path.segments)
IsDirectory(at) == at # Nowhere /\ tree[at].directory
IsFile(at) == at # Nowhere /\ ~tree[at].directory

(* Where a path would put a new node.                                      *)
Place(path) ==
  LET name == Last(path.segments)
      parent == Resolve([path EXCEPT !.segments = Front(path.segments)])
  IN  IF \/ path.segments = <<>> \/ path.long
         \/ name \in LongNames \cup {"", ".", ".."}
         \/ ~IsDirectory(parent)
      THEN Nowhere ELSE Append(parent, name)

CanCreate(path) ==
  /\ Place(path) # Nowhere /\ Place(path) \notin DOMAIN tree
  /\ Cardinality(DOMAIN tree) < FS_NODE_MAX
CanRemove(path) ==
  LET at == Resolve(path) IN
  at \notin {Nowhere, <<>>} /\ \A p \in DOMAIN tree : ~IsStrictPrefix(at, p)

Written(old, text, append) ==
  LET whole == IF append THEN old \o text ELSE text
  IN  SubSeq(whole, 1, IF Len(whole) < FS_DATA_MAX THEN Len(whole) ELSE FS_DATA_MAX - 1)

With(at, node) == [p \in DOMAIN tree \cup {at} |-> IF p = at THEN node ELSE tree[p]]

Create(path, node) ==
  /\ CanCreate(path)
  /\ tree' = With(Place(path), node)
  /\ UNCHANGED <<cwd, lost>>

Write(path, text, append) ==
  LET at == Resolve(path) IN
  /\ IsFile(at)
  /\ tree' = With(at, File(Written(tree[at].data, text, append)))
  /\ UNCHANGED <<cwd, lost>>

Delete(path) ==
  LET at == Resolve(path) IN
  /\ CanRemove(path)
  /\ tree' = [p \in DOMAIN tree \ {at} |-> tree[p]]
  /\ lost' = (at = cwd) /\ UNCHANGED cwd

ChangeDirectory(path) ==
  /\ IsDirectory(Resolve(path))
  /\ cwd' = Resolve(path)
  /\ UNCHANGED <<tree, lost>>

Placed == {Layout[i][1] : i \in 1 .. Len(Layout)}
TreeInit ==
  /\ tree = [p \in {<<>>} \cup Placed |->
               IF \E i \in 1 .. Len(Layout) : Layout[i][1] = p /\ Layout[i][2] # <<>>
               THEN File((CHOOSE l \in {Layout[i] : i \in 1 .. Len(Layout)} : l[1] = p)[2])
               ELSE Directory]
  /\ cwd = <<>> /\ lost = FALSE

TreeNext ==
  \/ lost /\ lost'
  \/ /\ ~lost
     /\ \E path \in FsPaths :
          \/ Create(path, Directory) \/ Create(path, File(<<>>))
          \/ \E text \in Texts, append \in BOOLEAN : Write(path, text, append)
          \/ Delete(path) \/ ChangeDirectory(path)

TreeSpec == TreeInit /\ [][TreeNext]_tree_vars

=============================================================================
