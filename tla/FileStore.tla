------------------------------- MODULE FileStore -------------------------------
(***************************************************************************)
(* What the content of files promises to a reader: a file reads what was   *)
(* last written to it, a version reads what the file read when it was      *)
(* replaced, and neither changes until somebody writes, restores or        *)
(* removes that very file.  There are no keys, no objects and no queue     *)
(* here.                                                                   *)
(***************************************************************************)
CONSTANTS
    Files,     \* file ids
    Contents,  \* what may be written to a file
    Numbers,   \* version numbers
    NoFile,    \* what an id reads that names no file
    Unknown    \* a file about which nothing is promised

VARIABLES
    content,  \* what each file reads
    kept      \* the retained versions of each file: pairs of a number and a content

Init ==
    /\ content = [f \in Files |-> NoFile]
    /\ kept = [f \in Files |-> {}]

\* A new file, written or copied.
Create(f, c) ==
    /\ content[f] = NoFile
    /\ content' = [content EXCEPT ![f] = c]
    /\ UNCHANGED kept

\* The retained versions of f change to some of those in S.
Keeps(f, S) == kept' = [kept EXCEPT ![f] = kept'[f] \cap S]

\* New content; the old one may become a version, and versions may be dropped.
Replace(f, c) ==
    /\ content[f] \in Contents
    /\ content' = [content EXCEPT ![f] = c]
    /\ \E n \in Numbers : Keeps(f, kept[f] \cup {<<n, content[f]>>})

DropVersions(f) ==
    /\ content[f] \in Contents
    /\ UNCHANGED content
    /\ Keeps(f, kept[f])

\* Restoring a version forfeits the promise.
Restore(f) ==
    /\ content[f] \in Contents
    /\ content' = [content EXCEPT ![f] = Unknown]
    /\ kept' = [kept EXCEPT ![f] = {}]

Remove(f) ==
    /\ content' = [content EXCEPT ![f] = NoFile]
    /\ kept' = [kept EXCEPT ![f] = {}]

Next ==
    \E f \in Files :
        \/ \E c \in Contents : Create(f, c) \/ Replace(f, c)
        \/ DropVersions(f) \/ Restore(f) \/ Remove(f)

Spec == Init /\ [][Next]_<<content, kept>>
=============================================================================
