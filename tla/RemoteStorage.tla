---------------------------- MODULE RemoteStorage ----------------------------
(***************************************************************************)
(* What the three remote storages of JKSV have in common (remote/Storage.  *)
(* cpp): the flat list of items they read once when they connect and keep  *)
(* up to date themselves afterwards, the directory they look at, and the   *)
(* drive behind it.  The list is never read again, so every operation has  *)
(* to leave it as a new listing would.                                     *)
(*                                                                         *)
(* The drive is a tree of nodes, numbered in the order they appeared.  An  *)
(* item is known by its id: the node itself on Google Drive, the path of   *)
(* the node on Baidu Netdisk and WebDav.  A path is the sequence of the    *)
(* names below the base directory; the segment Empty is the one between    *)
(* two slashes, which a server skips.  The order of m_list, sizes and      *)
(* contents are left out, so m_list is a set.  A request that fails before *)
(* it reached the drive changes nothing and is not an action.              *)
(***************************************************************************)
EXTENDS Naturals, SequencesExt

CONSTANTS
    MaxNode,     \* bound: nodes a drive ever holds
    Name,        \* names of files and directories
    Jksv,        \* the name of the JKSV directory on Google Drive
    Page,        \* entries in one page of a listing
    MaxLost,     \* bound: answers that do not arrive
    MaxOther     \* bound: changes the sysmodule makes on Baidu Netdisk

\* Names are numbers, as listings are sorted by them.
ASSUME NameAssumption ==
    /\ Name \subseteq Nat \ {0} /\ \E m, n \in Name : m # n
    /\ Jksv \in Nat \ (Name \cup {0})
ASSUME BoundAssumption == MaxNode \in Nat /\ Page \in Nat \ {0} /\ MaxLost \in Nat /\ MaxOther \in Nat

VARIABLES
    kind,           \* which of the three s_storage is
    drive,          \* node -> what it is
    list,           \* m_list: entries [id, name, parent, dir]
    root, parent,   \* m_root, m_parent
    fsIds,          \* m_fsIds of Baidu Netdisk: path -> node
    state,          \* "off", "reading", "unrooted", "ready" or "failed"
    reading,        \* the listing under way, see StartReading
    unsure,         \* history: an answer was lost, or a MOVE replaced something,
                    \* since the list was read
    got,            \* history: what the last operation downloaded
    lost, others    \* counts for the two bounds

connection == <<list, root, parent, fsIds, state>>
vars == <<kind, drive, connection, reading, unsure, got, lost, others>>

Base == 0
Empty == 0
Node == 1..MaxNode
Kinds == {"baidu", "google", "webdav"}
Unborn == [is |-> "unborn"]
Gone == [is |-> "gone"]
Thing(is, name, above) == [is |-> is, name |-> name, parent |-> above]

(***************************************************************************)
(* The drive.                                                              *)
(***************************************************************************)
Live == {n \in Node : drive[n].is \in {"dir", "file"}}
IsDir(n) == n = Base \/ drive[n].is = "dir"
ChildrenOf(d) == {n \in Live : drive[n].parent = d}

\* The names from the base directory down to n.
PathOf(n) ==
    LET path[m \in Live \cup {Base}] ==
            IF m = Base THEN <<>> ELSE Append(path[drive[m].parent], drive[m].name)
    IN  path[n]

\* What is in d, in the directories in it, and so on.
Below(d) ==
    {n \in Live : \A S \in SUBSET Live :
        ChildrenOf(d) \cup UNION {ChildrenOf(m) : m \in S} \subseteq S => n \in S}

IdOf(n) == IF kind = "google" THEN n ELSE PathOf(n)

\* A path without its empty segments.
Segments(id) ==
    LET first[i \in 0..Len(id)] ==
            IF i = 0 THEN <<>>
            ELSE IF id[i] = Empty THEN first[i - 1] ELSE Append(first[i - 1], id[i])
    IN  first[Len(id)]

\* The node that a request for id reaches; a server skips empty segments.
Reaches(id) ==
    {n \in Live \cup {Base} : IF kind = "google" THEN n = id ELSE PathOf(n) = Segments(id)}

Named(d, name) == {n \in ChildrenOf(d) : drive[n].name = name}

\* The next node, while there is one left.
Fresh == {n \in Node : drive[n] = Unborn /\ \A m \in 1..(n - 1) : drive[m] # Unborn}

Without(nodes) == [n \in Node |-> IF n \in nodes THEN Gone ELSE drive[n]]

(***************************************************************************)
(* The item list.                                                          *)
(***************************************************************************)
Entry(id, name, above, dir) == [id |-> id, name |-> name, parent |-> above, dir |-> dir]
EntryOf(n, above) == Entry(IdOf(n), drive[n].name, above, IsDir(n))

\* find_directory_by_name and find_file_by_name look in m_parent alone.
DirectoriesNamed(name) == {e \in list : e.dir /\ e.parent = parent /\ e.name = name}
FilesNamed(name) == {e \in list : ~e.dir /\ e.parent = parent /\ e.name = name}

Listing == {e \in list : e.parent = parent}

\* The place of n among the nodes of a listing, which is sorted by name, and
\* what a request for a page from place start on brings.
Before(m, n) == drive[m].name < drive[n].name \/ (drive[m].name = drive[n].name /\ m < n)
Place(n, nodes) == Cardinality({m \in nodes : Before(m, n)})
PageOf(nodes, start) == {n \in nodes : Place(n, nodes) \in start..(start + Page - 1)}

\* The answer arrives, or it is lost after the drive has done its part.
Answered == UNCHANGED <<lost, unsure>>
AnswerLost == lost < MaxLost /\ lost' = lost + 1 /\ unsure' = TRUE /\ UNCHANGED <<list, fsIds>>

\* An operation of the menus on the storage that get_remote_storage returns.
Operation == state = "ready" /\ UNCHANGED <<kind, root, state, reading, others>>
Changes(s) == Operation /\ kind = s /\ got' = <<>>

\* change_directory and return_to_root, when a backup menu opens and closes.
OpenDirectory ==
    /\ Operation /\ parent = root
    /\ \E e \in Listing : e.dir /\ parent' = e.id
    /\ UNCHANGED <<drive, list, fsIds, unsure, lost>> /\ got' = <<>>

ReturnToRoot ==
    /\ Operation /\ parent # root
    /\ parent' = root
    /\ UNCHANGED <<drive, list, fsIds, unsure, lost>> /\ got' = <<>>

\* There is no connection, or the drive refuses the login or a page.
ConnectionFails ==
    /\ state \in {"off", "reading"}
    /\ state' = "failed" /\ reading' = <<>>
    /\ UNCHANGED <<kind, drive, got, list, root, parent, fsIds, unsure, lost, others>>

\* JKSV is closed; the next start makes a new storage object.
Restart ==
    /\ state \in {"ready", "failed"}
    /\ state' = "off" /\ got' = <<>> /\ reading' = <<>>
    /\ list' = {} /\ fsIds' = <<>> /\ root' = IdOf(Base) /\ parent' = IdOf(Base)
    /\ unsure' = FALSE
    /\ UNCHANGED <<kind, drive, lost, others>>

\* The drives that JKSV may find: an empty one, a title with backups, and
\* one whose backup is in a directory of its own.
Grown(things) == [n \in Node |-> IF n <= Len(things) THEN things[n] ELSE Unborn]
Drives ==
    LET n1 == CHOOSE n \in Name : TRUE
        n2 == CHOOSE n \in Name : n # n1
    IN  IF kind = "google"
        THEN {Grown(<<>>),
              Grown(<<Thing("dir", Jksv, Base), Thing("dir", n1, 1), Thing("file", n2, 2)>>)}
        ELSE {Grown(<<>>),
              Grown(<<Thing("dir", n1, Base), Thing("file", n1, 1), Thing("file", n2, 1)>>),
              Grown(<<Thing("dir", n1, Base), Thing("dir", n2, 1), Thing("file", n1, 2)>>)}

Init ==
    /\ kind \in Kinds /\ drive \in Drives
    /\ list = {} /\ root = IdOf(Base) /\ parent = IdOf(Base) /\ fsIds = <<>>
    /\ state = "off" /\ reading = <<>>
    /\ unsure = FALSE /\ got = <<>>
    /\ lost = 0 /\ others = 0
=============================================================================
