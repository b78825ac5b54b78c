----------------------------- MODULE MCNodeAccess -----------------------------
(* TLC instances of NodeAccess.                                             *)
EXTENDS NodeAccess, TLC

CONSTANTS owner, guest, admin

Scope == {"view", "download", "upload", "edit", "trash_manage", "acl_manage"}

\* The owner of everything, an account that lives on what it is granted, and an
\* administrator whose account was narrowed to reading.
SomePerms == [c \in {owner, guest, admin} |->
                CASE c = owner -> Scope \cup {"user_manage"}
                  [] c = guest -> {"view", "download", "edit", "acl_manage"}
                  [] OTHER     -> {"view"}]

\* A public folder, and a private one under a password.
SomeSettings ==
    { [visibility |-> 3, password |-> FALSE], [visibility |-> 1, password |-> TRUE] }

SomeEntries ==
    { [callers |-> {guest}, effect |-> "allow", perms |-> {"view", "edit", "acl_manage"}, inherit |-> TRUE],
      [callers |-> Callers, effect |-> "deny", perms |-> {"download"}, inherit |-> FALSE] }

\* Nodes are interchangeable: every action quantifies over them.
Symmetric == Permutations(Nodes)
=============================================================================
