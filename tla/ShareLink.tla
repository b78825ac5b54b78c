------------------------------- MODULE ShareLink -------------------------------
(***************************************************************************)
(* Share links (internal/biz/share.go, internal/data/share.go) and their   *)
(* public endpoints (internal/service/share.go): an owner publishes a node *)
(* under a token, visitors redeem the token while the owner changes or     *)
(* deletes the link, the tree moves under it and maintenance expires it.   *)
(*                                                                         *)
(* A public call reads the link, then the shared node, then the node asked *)
(* for, and only then counts itself: GetShareDownloadUrl is four steps.    *)
(* expire_shares reads a list and writes whole rows back one by one.  The  *)
(* tree is reduced to statuses and paths; NodeTree has its operations.     *)
(* A protected link opens to its password, and AccessShare answers the     *)
(* password with an access token that opens it for AccessTTL afterwards.   *)
(***************************************************************************)
EXTENDS Integers, Sequences, FiniteSets, SequencesExt

CONSTANTS
    Links,     \* share ids
    Tokens,    \* what follows /s/ in a link
    Visitors,  \* public calls served at a time
    Nodes,
    None,
    Settings,  \* what owners ask for: [download, expires, max, password]
    Passwords, \* of links
    MaxCount,  \* downloads a run looks at
    AccessTTL, \* how long an access token opens a link
    MaxAccess, \* access tokens looked at
    MaxTime,   \* the clock stops there
    Ops        \* the operations a run lets happen

Never == -1  \* no expires_at

ASSUME ShareConstants ==
    /\ None \notin Links \cup Nodes \cup Passwords
    /\ IsFiniteSet(Visitors)
    /\ AccessTTL \in Nat
    /\ MaxAccess \in Nat
    /\ MaxCount \in Nat
    /\ MaxTime \in Nat
    /\ Settings \subseteq [download : BOOLEAN, expires : Nat \cup {Never}, max : Nat,
                        password : Passwords \cup {None}]
    /\ Ops \subseteq {"update", "delete", "expireShares", "move", "trash", "purge"}

VARIABLES
    share,   \* the shares table
    node,    \* the nodes table
    visit,   \* public calls between their steps
    access,  \* access tokens visitors hold
    job,     \* rows expire_shares listed and has not written yet
    now,     \* the clock
    served,  \* history: signed URLs handed out under the budget a link has
    closed,  \* history: links their owner revoked and did not open again
    changed  \* history: when the password of a link became what it is

vars == <<share, node, visit, access, job, now, served, closed, changed>>

-----------------------------------------------------------------------------
\* set: whether the capability set has "download", expires_at, max_downloads
\* (0: no budget) and the password (None: an open link).
Share == [token : Tokens, node : Nodes, set : Settings, count : 0..MaxCount,
          status : {"active", "expired", "revoked", "unspecified"}]
NoShare == [status |-> "none"]

Node == [status : {"active", "trashed", "gone"}, path : Seq(Nodes)]

\* The claims of a TokenTypeShare token; password, history: what the access rests on.
Access == [link : Links, expires : 0..(MaxTime + AccessTTL), password : Passwords]

\* node, set: of the link as resolved; fresh: the call gave the password; root: the path of
\* the shared node as read; password, history: what the access rests on; inside, history:
\* the node to hand out was live and in the shared subtree when read. A granted call
\* needs no more than the link.
Visit == [pc : {"idle", "resolved", "rooted", "granted"},
          link : Links \cup {None}, node : Nodes \cup {None}, set : Settings \cup {NoShare},
          fresh : BOOLEAN, password : Passwords \cup {None}, root : Seq(Nodes), inside : BOOLEAN]
NoVisit == [pc |-> "idle", link |-> None, node |-> None, set |-> NoShare,
            fresh |-> FALSE, password |-> None, root |-> <<>>, inside |-> FALSE]

\* A folder with the other nodes in it, or every node at the top.
Init ==
    /\ share = [l \in Links |-> NoShare]
    /\ \E f \in Nodes :
          node = [n \in Nodes |-> [status |-> "active", path |-> IF n = f THEN <<f>> ELSE <<f, n>>]]
    /\ visit = [v \in Visitors |-> NoVisit]
    /\ access = {}
    /\ job = {}
    /\ now = 0
    /\ served = [l \in Links |-> 0]
    /\ closed = {}
    /\ changed = [l \in Links |-> 0]

Recorded == { l \in Links : share[l] # NoShare }

\* Share.Expired and Share.Exhausted.
Expired(row)   == row.set.expires # Never /\ now > row.set.expires
Exhausted(row) == row.set.max > 0 /\ row.count >= row.set.max

-----------------------------------------------------------------------------
(* The owner.                                                              *)

\* NewID: an id nothing refers to.
Fresh(l) ==
    /\ l \notin Recorded
    /\ \A v \in Visitors : visit[v].link # l
    /\ \A j \in job : j[1] # l

\* Create.  RequireAccess reads the node before the transaction, so that it may be in the
\* trash or purged when the row is written; a holder of trash_manage may publish one that
\* was in the trash all along.
Create(l, token, n, set) ==
    /\ Fresh(l)
    /\ \A k \in Recorded : share[k].token # token
    /\ share' = [share EXCEPT ![l] =
                   [token |-> token, node |-> n, set |-> set, count |-> 0, status |-> "active"]]
    /\ served' = [served EXCEPT ![l] = 0]
    /\ closed' = closed \ {l}
    /\ changed' = [changed EXCEPT ![l] = now]
    /\ UNCHANGED <<node, visit, access, job, now>>

\* The repository's UpdateShare: every column but the counters.
UpdateShare(l, row) ==
    /\ share' = [share EXCEPT ![l] = [row EXCEPT !.count = share[l].count]]
    /\ served' = [served EXCEPT ![l] = IF row.set.max = share[l].set.max THEN @ ELSE 0]
    /\ changed' = [changed EXCEPT ![l] = IF row.set.password = share[l].set.password THEN @ ELSE now]

\* Update: the fields the mask leaves out keep their value.
Update(l, status, set) ==
    /\ l \in Recorded
    /\ UpdateShare(l, [share[l] EXCEPT !.status = status, !.set = set])
    /\ closed' = CASE status = share[l].status -> closed
                   [] status = "revoked"        -> closed \cup {l}
                   [] OTHER                     -> closed \ {l}
    /\ UNCHANGED <<node, visit, access, job, now>>

\* Its access tokens open nothing from then on: an id is never given again.
Delete(l) ==
    /\ l \in Recorded
    /\ share' = [share EXCEPT ![l] = NoShare]
    /\ closed' = closed \ {l}
    /\ access' = { a \in access : a.link # l }
    /\ UNCHANGED <<node, visit, job, now, served, changed>>

-----------------------------------------------------------------------------
(* Public calls.                                                           *)

\* Mutant: a budget of n lets n + 1 through.
Redeemable_budget(row) ==
    row.status \notin {"revoked", "expired"} /\ ~Expired(row) /\ (row.set.max > 0 => row.count <= row.set.max)

\* Resolve.
Redeemable(row) == row.status \notin {"revoked", "expired"} /\ ~Expired(row) /\ ~Exhausted(row)

\* unlockShare: an open link needs nothing, a protected one an access token of its own
\* or its password. Each way with what the access then rests on.
Unlocks(l) ==
    IF share[l].set.password = None
    THEN {[fresh |-> FALSE, password |-> None]}
    ELSE { [fresh |-> FALSE, password |-> a.password] : a \in { b \in access : b.link = l /\ now < b.expires } }
         \cup {[fresh |-> TRUE, password |-> share[l].set.password]}

\* resolve and unlockShare.
Resolve(v, l) ==
    /\ visit[v].pc = "idle"
    /\ l \in Recorded
    /\ Redeemable(share[l])
    /\ \E u \in Unlocks(l) :
          visit' = [visit EXCEPT ![v] =
                      [NoVisit EXCEPT !.pc = "resolved", !.link = l, !.node = share[l].node,
                                      !.set = share[l].set, !.fresh = u.fresh, !.password = u.password]]
    /\ UNCHANGED <<share, node, access, job, now, served, closed, changed>>

\* Node: the shared node has to be live.
ReadRoot(v) ==
    LET root == visit[v].node IN
    /\ visit[v].pc = "resolved"
    /\ node[root].status = "active"
    /\ visit' = [visit EXCEPT ![v].pc = "rooted", ![v].root = node[root].path]
    /\ UNCHANGED <<share, node, access, job, now, served, closed, changed>>

\* Mutant: every call that gets in is given a new token.
Enter_renews(v) ==
    LET l == visit[v].link
        given == IF visit[v].set.password # None
                 THEN {[link |-> l, expires |-> now + AccessTTL, password |-> visit[v].password]} ELSE {}
    IN  /\ visit[v].pc = "rooted"
        /\ l \in Recorded
        /\ \E kept \in SUBSET access : access' = kept \cup given
        /\ Cardinality(access') <= MaxAccess
        /\ visit' = [visit EXCEPT ![v] = NoVisit]
        /\ UNCHANGED <<share, node, job, now, served, closed, changed>>

\* The end of AccessShare: MarkViewed, which fails for a link that is gone, and an access
\* token for a visitor who gave the password; visitors may drop tokens they hold.
Enter(v) ==
    LET l == visit[v].link
        given == IF visit[v].set.password # None /\ visit[v].fresh
                 THEN {[link |-> l, expires |-> now + AccessTTL, password |-> visit[v].password]} ELSE {}
    IN  /\ visit[v].pc = "rooted"
        /\ l \in Recorded
        /\ \E kept \in SUBSET access : access' = kept \cup given
        /\ Cardinality(access') <= MaxAccess
        /\ visit' = [visit EXCEPT ![v] = NoVisit]
        /\ UNCHANGED <<share, node, job, now, served, closed, changed>>

\* Mutant: the status of the node asked for is not looked at.
Reachable_trashed(v, n) == n = visit[v].node \/ IsPrefix(visit[v].root, node[n].path)

\* ResolveNode: the shared node as it was read, or a live node whose path
\* continues the path read for the shared node.
Reachable(v, n) ==
    \/ n = visit[v].node
    \/ node[n].status = "active" /\ IsPrefix(visit[v].root, node[n].path)

\* ResolveNode and Download; GetShareDownloadUrl takes no password.  Kinds are left out:
\* Download refuses a folder, here it may go on, which is one behaviour more.
ReadNode(v, n) ==
    /\ visit[v].pc = "rooted"
    /\ ~visit[v].fresh
    /\ Reachable(v, n)
    /\ visit[v].set.download
    /\ visit' = [visit EXCEPT ![v] =
                   [NoVisit EXCEPT !.pc = "granted", !.link = visit[v].link,
                                   !.inside = n = visit[v].node
                                              \/ (node[n].status = "active" /\ visit[v].node \in ToSet(node[n].path))]]
    /\ UNCHANGED <<share, node, access, job, now, served, closed, changed>>

\* MarkDownloaded, which fails for a link that is gone, and the reply with the signed URL.
MarkDownloaded(v) ==
    LET l == visit[v].link IN
    /\ visit[v].pc = "granted"
    /\ l \in Recorded
    /\ share[l].count < MaxCount
    /\ share' = [share EXCEPT ![l].count = @ + 1]
    /\ served' = [served EXCEPT ![l] = IF share[l].set.max = 0 THEN 0 ELSE @ + 1]
    /\ visit' = [visit EXCEPT ![v] = NoVisit]
    /\ UNCHANGED <<node, access, job, now, closed, changed>>

\* The call fails or the visitor leaves.
GiveUp(v) ==
    /\ visit[v].pc # "idle"
    /\ visit' = [visit EXCEPT ![v] = NoVisit]
    /\ UNCHANGED <<share, node, access, job, now, served, closed, changed>>

-----------------------------------------------------------------------------
(* expire_shares.                                                          *)

\* ListExpiredShares.
ListExpired ==
    /\ job = {}
    /\ job' = { <<l, share[l]>> : l \in { k \in Recorded : share[k].status = "active" /\ Expired(share[k]) } }
    /\ job' # {}
    /\ UNCHANGED <<share, node, visit, access, now, served, closed, changed>>

\* Mutant: the row is written before its status is changed.
ExpireListed_unset(l, row) ==
    /\ <<l, row>> \in job
    /\ l \in Recorded
    /\ UpdateShare(l, row)
    /\ job' = job \ {<<l, row>>}
    /\ UNCHANGED <<node, visit, access, now, closed>>

\* One row of the list written back as it was read, but expired.
ExpireListed(l, row) ==
    /\ <<l, row>> \in job
    /\ l \in Recorded
    /\ UpdateShare(l, [row EXCEPT !.status = "expired"])
    /\ job' = job \ {<<l, row>>}
    /\ UNCHANGED <<node, visit, access, now, closed>>

\* A row that is gone, or a process that stops: the rest of the list is dropped.
ExpireEnds ==
    /\ job # {}
    /\ job' = {}
    /\ UNCHANGED <<share, node, visit, access, now, served, closed, changed>>

-----------------------------------------------------------------------------
(* The tree under the links.                                               *)

Subtree(n) == { m \in Nodes : node[m].status # "gone" /\ IsPrefix(node[n].path, node[m].path) }

\* Mutant: the suffix starts one segment late.
Rebased_late(path, from, to) == to \o SubSeq(path, Len(from) + 2, Len(path))

\* RelocateSubtree on one path.
Rebased(path, from, to) == to \o SubSeq(path, Len(from) + 1, Len(path))

\* MoveNodes of n below p; None is the root.
Move(n, p) ==
    LET to == IF p = None THEN <<n>> ELSE Append(node[p].path, n) IN
    /\ node[n].status = "active"
    /\ p # None => node[p].status = "active" /\ p \notin Subtree(n)
    /\ node' = [m \in Nodes |-> IF m \in Subtree(n)
                  THEN [node[m] EXCEPT !.path = Rebased(@, node[n].path, to)]
                  ELSE node[m]]
    /\ UNCHANGED <<share, visit, access, job, now, served, closed, changed>>

\* DeleteNodes, RestoreNodes and PurgeNodes, to the extent links notice.
SetSubtreeStatus(n, from, to) ==
    /\ node[n].status = from
    /\ node' = [m \in Nodes |-> IF m \in Subtree(n) THEN [node[m] EXCEPT !.status = to] ELSE node[m]]
    /\ UNCHANGED <<share, visit, access, job, now, served, closed, changed>>

-----------------------------------------------------------------------------
\* A call that gave a password ends before the clock moves; an access token that expired
\* opens nothing and is dropped.
Tick ==
    /\ now < MaxTime
    /\ \A v \in Visitors : ~visit[v].fresh
    /\ now' = now + 1
    /\ access' = { a \in access : now' < a.expires }
    /\ UNCHANGED <<share, node, visit, job, served, closed, changed>>

OwnerStep ==
    \E l \in Links, set \in Settings :
        \/ \E token \in Tokens, n \in Nodes : Create(l, token, n, set)
        \/ /\ "update" \in Ops
           /\ \E status \in {"active", "expired", "revoked", "unspecified"} : Update(l, status, set)

VisitorStep(v) ==
    \/ \E l \in Links : Resolve(v, l)
    \/ ReadRoot(v)
    \/ Enter(v)
    \/ \E n \in Nodes : ReadNode(v, n)
    \/ MarkDownloaded(v)
    \/ GiveUp(v)

TreeStep ==
    \E n \in Nodes :
        \/ "move" \in Ops /\ \E p \in Nodes \cup {None} : Move(n, p)
        \/ "trash" \in Ops /\ SetSubtreeStatus(n, "active", "trashed")
        \/ "trash" \in Ops /\ SetSubtreeStatus(n, "trashed", "active")
        \/ "purge" \in Ops /\ SetSubtreeStatus(n, "trashed", "gone")

ExpireStep ==
    /\ "expireShares" \in Ops
    /\ \/ ListExpired
       \/ \E j \in job : ExpireListed(j[1], j[2])
       \/ ExpireEnds

Next ==
    \/ OwnerStep
    \/ "delete" \in Ops /\ \E l \in Links : Delete(l)
    \/ \E v \in Visitors : VisitorStep(v)
    \/ TreeStep
    \/ ExpireStep
    \/ Tick

Spec == Init /\ [][Next]_vars

-----------------------------------------------------------------------------
(* Properties.                                                             *)

\* Types; a call past Resolve knows its link, and a path ends in its own node
\* whatever moved (RelocateSubtree).
TypeOK ==
    /\ share \in [Links -> Share \cup {NoShare}]
    /\ node \in [Nodes -> Node]
    /\ \A n \in Nodes : node[n].path # <<>> /\ Last(node[n].path) = n
    /\ visit \in [Visitors -> Visit]
    /\ \A v \in Visitors :
          /\ visit[v].pc # "idle" => visit[v].link \in Links
          /\ visit[v].pc \in {"resolved", "rooted"} => visit[v].set \in Settings /\ visit[v].node \in Nodes
    /\ access \subseteq Access
    /\ \A j \in job : j[1] \in Links /\ j[2] \in Share
    /\ now \in 0..MaxTime
    /\ closed \subseteq Links
    /\ changed \in [Links -> 0..MaxTime]

\* The budget holds: with the calls being served at a time, n, no more than n - 1
\* URLs are handed out beyond a budget while it stands, exactly none when
\* visitors come one after another, although it is compared long before the
\* download is counted, and although the owner and expire_shares write rows
\* back that they read earlier.
BudgetHeld ==
    \A l \in Recorded : share[l].set.max > 0 =>
        served[l] <= share[l].set.max - 1 + Cardinality(Visitors)

\* A URL is given only for a node that was, when it was read, live and in the
\* shared subtree, although the shared node itself was read earlier and both
\* may have been moved or trashed since.
InsideShare == \A v \in Visitors : visit[v].pc = "granted" => visit[v].inside

\* A link its owner revoked is not redeemable until the owner gives it another
\* status: neither an expiry or budget renewed later, nor the rows expire_shares
\* writes back, open it.
RevokedStaysRevoked == \A l \in closed : ~Redeemable(share[l])

\* A visitor who knows only a password the link had before is out AccessTTL after
\* it changed: what an access token opens is not prolonged by using it, and a
\* call that read the old password does not outlive the change by more.
ForgottenPassword ==
    \A a \in access :
        a.password = share[a.link].set.password \/ a.expires <= changed[a.link] + AccessTTL

=============================================================================
