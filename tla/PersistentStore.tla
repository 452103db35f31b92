--------------------------- MODULE PersistentStore ---------------------------
(***************************************************************************)
(* What MVHFS promises its callers: a map from names to contents in which  *)
(* every operation takes effect all at once, and which no power loss       *)
(* changes.  Whether the caller is told of the effect is not part of the   *)
(* promise: a crash may fall between the effect and the answer.            *)
(***************************************************************************)

CONSTANTS
  Names,      \* the file names in use
  Contents,   \* what a file may hold, the empty contents included
  Empty,      \* the contents of a file that was created and never written
  NoFile      \* marks a name that has no file

VARIABLES
  files,      \* the contents of every name
  formatted   \* a format has completed and no other has begun since

store == <<files, formatted>>

NoFiles == [n \in Names |-> NoFile]

(* A disk that was never formatted, or was formatted and not used since.   *)
Init ==
  /\ files = NoFiles
  /\ formatted \in BOOLEAN

(* Formatting gives up every file at its first write and is complete, with *)
(* an empty store, at its last.                                            *)
BeginFormat ==
  /\ formatted' = FALSE
  /\ files' = NoFiles

EndFormat ==
  /\ ~formatted
  /\ formatted' = TRUE
  /\ files' = NoFiles

(* Only the name n changes, to contents that satisfy allowed.              *)
Change(n, allowed) ==
  /\ files'[n] \in allowed
  /\ files' = [files EXCEPT ![n] = files'[n]]

Create(n) == files[n] = NoFile /\ Change(n, {Empty})
Write(n)  == files[n] # NoFile /\ Change(n, Contents)
Remove(n) == files[n] # NoFile /\ Change(n, {NoFile})

Next ==
  \/ BeginFormat
  \/ EndFormat
  \/ /\ formatted /\ formatted' = formatted
     /\ \E n \in Names : Create(n) \/ Write(n) \/ Remove(n)

Spec == Init /\ [][Next]_store

=============================================================================
