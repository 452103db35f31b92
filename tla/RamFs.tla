--------------------------------- MODULE RamFs ---------------------------------
(***************************************************************************)
(* The in-memory file system (src/src/fs/ramfs.c), reached through the     *)
(* forwarding functions of src/src/fs/vfs.c.  nodes is the table of the    *)
(* code: a freed slot keeps its other fields until it is used again, and   *)
(* current_directory may name one.                                         *)
(***************************************************************************)
EXTENDS Integers, Sequences, SequencesExt

CONSTANTS FS_NODE_MAX, FS_DATA_MAX, LongNames, FsPaths, Texts, Layout

VARIABLES nodes, current_directory, directory_lost

fs_vars == <<nodes, current_directory, directory_lost>>

Slots == 0 .. FS_NODE_MAX - 1
Lowest(S) == CHOOSE n \in S : \A m \in S : n <= m
Empty == [used |-> FALSE, is_directory |-> FALSE, parent |-> 0, name |-> "", data |-> <<>>]

find_child(parent, name) ==
  LET found == {n \in Slots \ {0} : nodes[n].used /\ nodes[n].parent = parent
                                     /\ nodes[n].name = name}
  IN  IF found = {} THEN -1 ELSE Lowest(found)

Segment(node, segment) ==
  IF node < 0 \/ segment \in LongNames THEN -1
  ELSE IF segment \in {"", "."} THEN node
  ELSE IF segment = ".." THEN nodes[node].parent
  ELSE IF ~nodes[node].is_directory THEN -1 ELSE find_child(node, segment)

resolve(path) ==
  FoldLeft(Segment, IF path.absolute THEN 0 ELSE current_directory, path.segments)

(* A name alone goes to the current directory, which is not looked at.     *)
resolve_parent(path) ==
  LET name == Last(path.segments)
      parent == resolve([path EXCEPT !.segments = Front(path.segments)])
  IN  IF path.segments = <<>> \/ path.long THEN -1
      ELSE IF name \in LongNames \cup {"", ".", ".."} THEN -1
      ELSE IF ~path.absolute /\ Len(path.segments) = 1 THEN current_directory
      ELSE IF parent < 0 THEN -1
      ELSE IF nodes[parent].is_directory THEN parent ELSE -1

Free == {n \in Slots \ {0} : ~nodes[n].used}

(* Mutation of Creatable: the name may be taken already.                   *)
Creatable_duplicate(path) == resolve_parent(path) >= 0 /\ Free # {}

Creatable(path) ==
  /\ resolve_parent(path) >= 0
  /\ find_child(resolve_parent(path), Last(path.segments)) < 0
  /\ Free # {}

create_node(path, is_directory) ==
  /\ Creatable(path)
  /\ nodes' = [nodes EXCEPT ![Lowest(Free)] =
       [used |-> TRUE, is_directory |-> is_directory, parent |-> resolve_parent(path),
        name |-> Last(path.segments), data |-> <<>>]]
  /\ UNCHANGED <<current_directory, directory_lost>>

fs_chdir(path) ==
  /\ resolve(path) >= 0 /\ nodes[resolve(path)].is_directory
  /\ current_directory' = resolve(path)
  /\ UNCHANGED <<nodes, directory_lost>>

fs_mkdir(path) == create_node(path, TRUE)

fs_touch(path) == resolve(path) < 0 /\ create_node(path, FALSE)

IsFileNode(n) == n >= 0 /\ ~nodes[n].is_directory

(* What fits is written, and the caller told when that is not all.         *)
Stored(old, text, append) ==
  LET whole == IF append THEN old \o text ELSE text
  IN  SubSeq(whole, 1, IF Len(whole) < FS_DATA_MAX THEN Len(whole) ELSE FS_DATA_MAX - 1)

fs_write(path, text, append) ==
  LET n == resolve(path) IN
  /\ IsFileNode(n)
  /\ nodes' = [nodes EXCEPT ![n].data = Stored(nodes[n].data, text, append)]
  /\ UNCHANGED <<current_directory, directory_lost>>

fs_read(path) == IF IsFileNode(resolve(path)) THEN nodes[resolve(path)].data ELSE <<-1>>

(* Mutation of Removable: a directory goes with what is in it.             *)
Removable_unchecked(path) == resolve(path) > 0

Removable(path) ==
  LET n == resolve(path) IN
  /\ n > 0
  /\ nodes[n].is_directory => \A m \in Slots \ {0} : nodes[m].used => nodes[m].parent # n

(* The current directory may be the one that is removed.                   *)
fs_remove(path) ==
  /\ Removable(path)
  /\ nodes' = [nodes EXCEPT ![resolve(path)].used = FALSE]
  /\ directory_lost' = (directory_lost \/ resolve(path) = current_directory)
  /\ UNCHANGED current_directory

(* The slots from the current directory up to the root, then their names.  *)
Chain(node) ==
  LET chain[n \in Slots, depth \in 0 .. FS_NODE_MAX] ==
        IF n = 0 \/ depth = FS_NODE_MAX THEN <<>>
        ELSE Append(chain[nodes[n].parent, depth + 1], nodes[n].name)
  IN  chain[node, 0]

fs_pwd == Chain(current_directory)

fs_list(path) ==
  LET n == IF path.segments = <<>> /\ ~path.absolute THEN current_directory ELSE resolve(path)
      Listed(m) == [name |-> nodes[m].name, is_directory |-> nodes[m].is_directory,
                    size |-> Len(nodes[m].data)]
  IN  IF n < 0 THEN {}
      ELSE IF ~nodes[n].is_directory THEN {Listed(n)}
      ELSE {Listed(m) : m \in {k \in Slots \ {0} : nodes[k].used /\ nodes[k].parent = n}}

(* fs_init: the table cleared, the root, and what the kernel puts there.   *)
Placed(i) ==
  LET path == Layout[i][1]
      parents == {0} \cup {j \in 1 .. i - 1 : Layout[j][1] = Front(path)}
  IN  [used |-> TRUE, is_directory |-> Layout[i][2] = <<>>,
       parent |-> CHOOSE j \in parents : \A k \in parents : k <= j,
       name |-> Last(path), data |-> Layout[i][2]]
fs_init ==
  /\ nodes = [n \in Slots |-> IF n = 0 THEN [Empty EXCEPT !.used = TRUE, !.is_directory = TRUE]
                              ELSE IF n <= Len(Layout) THEN Placed(n) ELSE Empty]
  /\ current_directory = 0 /\ directory_lost = FALSE

FsInit == fs_init

FsNext ==
  \E path \in FsPaths :
    \/ fs_chdir(path) \/ fs_mkdir(path) \/ fs_touch(path) \/ fs_remove(path)
    \/ \E text \in Texts, append \in BOOLEAN : fs_write(path, text, append)
------------------------------------------------------------------------------
(* The table seen as a tree.                                               *)
UsedSlots == {n \in Slots : nodes[n].used}
AsTree == [p \in {Chain(n) : n \in UsedSlots} |->
             LET n == Lowest({m \in UsedSlots : Chain(m) = p})
             IN  [directory |-> nodes[n].is_directory, data |-> nodes[n].data]]

Promise == INSTANCE FileTree WITH tree <- AsTree, cwd <- fs_pwd,
                                  lost <- directory_lost

(* Until the current directory is removed, every call answers what the tree *)
(* says: a path leads to the node of that name, a name that is free can be *)
(* created as long as a slot is left, only empty directories can be        *)
(* removed, and reading and listing return what was written.               *)
AnswersAgree ==
  directory_lost \/ \A path \in FsPaths :
    LET at == Promise!Resolve(path)
        n == resolve(path)
    IN  /\ n < 0 <=> at = Promise!Nowhere
        /\ n >= 0 => Chain(n) = at
        /\ Creatable(path) <=> Promise!CanCreate(path)
        /\ Removable(path) <=> Promise!CanRemove(path)
        /\ Promise!IsFile(at) => fs_read(path) = AsTree[at].data
        /\ Promise!IsDirectory(at) =>
             {e.name : e \in fs_list(path)} =
               {Last(p) : p \in {q \in DOMAIN AsTree : q # <<>> /\ Front(q) = at}}

=============================================================================
