------------------------------- MODULE WebDav -------------------------------
(***************************************************************************)
(* WebDav as JKSV uses it (remote/WebDav.cpp).  Ids are paths, but not     *)
(* always the shortest ones: a directory JKSV creates gets a path with an  *)
(* empty segment, and so does what is created in it.  An upload or a       *)
(* download succeeds whatever the server says, which counts as an answer   *)
(* lost.                                                                   *)
(***************************************************************************)
EXTENDS RemoteStorage

\* The constructor: the base directory, then process_listing below it.
DavConnects ==
    /\ kind = "webdav" /\ state = "off"
    /\ state' = "reading"
    /\ reading' = [stack |-> <<root>>]
    /\ UNCHANGED <<kind, drive, list, root, parent, fsIds, unsure, got, lost, others>>

\* prop_find: what the server lists one level below a path.
PropFinds(above) == UNION {ChildrenOf(n) : n \in Reaches(above)}

\* process_listing: the directory's children, whose directories are read in
\* their turn.  One that cannot be read is skipped.
ReadCollection ==
    /\ kind = "webdav" /\ state = "reading"
    /\ LET above == Head(reading.stack)
           inside == PropFinds(above)
           below == SetToSeq({PathOf(n) : n \in {m \in inside : IsDir(m)}})
           Left(stack) == IF stack = <<>> THEN state' = "ready" /\ reading' = <<>>
                          ELSE state' = state /\ reading' = [stack |-> stack]
       IN  \/ /\ list' = list \cup {EntryOf(n, above) : n \in inside}
              /\ Left(below \o Tail(reading.stack))
           \/ /\ above # root /\ UNCHANGED list
              /\ Left(Tail(reading.stack))
    /\ UNCHANGED <<kind, drive, root, parent, fsIds, unsure, got, lost, others>>

\* The id of what is created: m_parent, a slash and the name.
CreatedId(name) == parent \o <<Empty, name>>

\* MKCOL, which a server refuses for a name that is taken.
DavCreates ==
    /\ Changes("webdav") /\ parent = root
    /\ \E name \in Name, n \in Fresh :
        /\ DirectoriesNamed(name) = {} /\ Named(Base, name) = {}
        /\ drive' = [drive EXCEPT ![n] = Thing("dir", name, Base)]
        /\ \/ /\ Answered /\ UNCHANGED fsIds
              /\ list' = list \cup {Entry(CreatedId(name), name, parent, TRUE)}
           \/ AnswerLost
    /\ UNCHANGED parent

\* PUT stores or overwrites.  Refused, it leaves an entry for nothing.
DavUploads ==
    /\ Changes("webdav") /\ parent # root
    /\ \E name \in Name, d \in Reaches(parent) :
        LET entry == Entry(CreatedId(name), name, parent, FALSE)
        IN  /\ \A e \in Listing : e.name # name
            /\ \/ /\ \/ \E n \in Named(d, name) : ~IsDir(n) /\ UNCHANGED drive
                     \/ /\ Named(d, name) = {}
                        /\ \E n \in Fresh : drive' = [drive EXCEPT ![n] = Thing("file", name, d)]
                  /\ \/ Answered /\ list' = list \cup {entry} /\ UNCHANGED fsIds
                     \/ AnswerLost
               \/ /\ lost < MaxLost /\ lost' = lost + 1 /\ unsure' = TRUE
                  /\ list' = list \cup {entry} /\ UNCHANGED <<drive, fsIds>>
    /\ UNCHANGED parent

\* patch_file: a PUT to the item's id, which stores the file anew when it
\* is gone.
DavPatches ==
    /\ Changes("webdav") /\ parent # root
    /\ \E e \in Listing :
        /\ ~e.dir
        /\ \/ Reaches(e.id) # {} /\ UNCHANGED drive
           \/ /\ Reaches(e.id) = {}
              /\ \E d \in Reaches(Front(e.id)), n \in Fresh :
                    drive' = [drive EXCEPT ![n] = Thing("file", e.name, d)]
    /\ Answered /\ UNCHANGED <<list, parent, fsIds>>

DavDownloads ==
    /\ Operation /\ kind = "webdav" /\ parent # root
    /\ \E e \in Listing : \E n \in Reaches(e.id) :
        ~e.dir /\ got' = [asked |-> PathOf(n), was |-> PathOf(n)]
    /\ UNCHANGED <<drive, list, parent, fsIds, unsure, lost>>

\* delete_item looks for a file of the item's name, so the entry of a
\* directory stays.
DavDeletes ==
    /\ Changes("webdav") /\ parent # root
    /\ \E e \in Listing : \E n \in Reaches(e.id) :
        /\ drive' = Without({n} \cup Below(n))
        /\ \/ Answered /\ list' = list \ FilesNamed(e.name) /\ UNCHANGED fsIds
           \/ AnswerLost
    /\ UNCHANGED parent

\* MOVE replaces what the new name stood for, whose entry stays.  What was
\* in the directory gets the directory's new id as its parent, and keeps
\* its own, under which the server no longer has it.
MovedAway(e, name) ==
    LET new == Append(parent, name)
    IN  {IF o = e THEN Entry(new, name, o.parent, o.dir)
         ELSE IF o.parent = e.id THEN [o EXCEPT !.parent = new] ELSE o : o \in list}

DavRenames ==
    /\ Changes("webdav") /\ parent = root
    /\ \E e \in Listing, name \in Name : \E n \in Reaches(e.id) :
        /\ e.dir /\ name # e.name
        /\ LET replaced == Named(Base, name)
               left     == Without(replaced \cup UNION {Below(m) : m \in replaced})
           IN  /\ drive' = [left EXCEPT ![n].name = name]
               /\ \/ /\ list' = MovedAway(e, name) /\ unsure' = (unsure \/ replaced # {})
                     /\ UNCHANGED <<fsIds, lost>>
                  \/ AnswerLost
    /\ UNCHANGED parent

DavNext ==
    \/ DavConnects \/ ReadCollection \/ DavCreates \/ DavUploads \/ DavPatches
    \/ DavDownloads \/ DavDeletes \/ DavRenames
=============================================================================
