--------------------------- MODULE WorkspacePaths ---------------------------
(***************************************************************************)
(* How a file tool reaches a file d/f of a workspace (tools/paths.py): the *)
(* directory is opened first and the file inside the open directory, while *)
(* a container that runs in the workspace may replace either name by a     *)
(* symbolic link to anywhere.                                              *)
(***************************************************************************)
CONSTANT Files    \* the names f

VARIABLES dir,    \* what the name d is now: "dir" or "link"
          leaf,   \* leaf[f]: what f is in the directory: "none", "file" or "link"
          fd      \* what the walk holds open: "inside" or "outside" the workspace,
                  \* or why it holds nothing: "closed", "refused", "missing"

pathVars == <<dir, leaf, fd>>

PathInit ==
    /\ dir = "dir"
    /\ leaf = [f \in Files |-> "none"]
    /\ fd = "closed"

OpenDirFollowing(entry) == IF entry = "dir" THEN "inside" ELSE "outside"    \* mutant
\* _open_dir: O_DIRECTORY | O_NOFOLLOW, so the kernel refuses a link at the open.
_open_dir(entry) == IF entry = "dir" THEN "inside" ELSE "refused"

\* _validate refuses absolute paths and "..", then _walk opens the directory.
Walk ==
    /\ fd' \in {"refused", _open_dir(dir)}
    /\ UNCHANGED <<dir, leaf>>

OpenFinalFollowing(f) ==    \* mutant: the last component is followed
    IF leaf[f] = "link" THEN "outside" ELSE IF leaf[f] = "none" THEN "missing" ELSE fd
\* _open_final for reading: O_NOFOLLOW again.
_open_final(f) ==
    IF leaf[f] = "link" THEN "refused" ELSE IF leaf[f] = "none" THEN "missing" ELSE fd

\* atomic_write, last step: a temporary file is renamed over f inside the open
\* directory; rename replaces a link and does not follow it.
Replace(f) ==
    /\ leaf' = [leaf EXCEPT ![f] = IF fd = "inside" THEN "file" ELSE @]
    /\ UNCHANGED <<dir, fd>>

\* A container changes what the names stand for.
Interfere ==
    /\ \/ dir' \in {"dir", "link"} /\ UNCHANGED leaf
       \/ /\ \E f \in Files : \E x \in {"none", "file", "link"} : leaf' = [leaf EXCEPT ![f] = x]
          /\ UNCHANGED dir
    /\ UNCHANGED fd
=============================================================================
