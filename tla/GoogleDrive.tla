---------------------------- MODULE GoogleDrive ----------------------------
(***************************************************************************)
(* Google Drive as JKSV uses it (remote/GoogleDrive.cpp, and the sign-in   *)
(* of remote/remote.cpp).  Ids are nodes and the listing is flat.  JKSV    *)
(* keeps its backups below a directory of its own, which it makes its      *)
(* root once it is connected.  rename_item is never called, as Google      *)
(* Drive takes any title.                                                  *)
(***************************************************************************)
EXTENDS RemoteStorage

\* get_root_id
GetsRootId == root' = Base /\ parent' = Base

\* The constructor: refresh_token and get_root_id, then request_listing.
DriveConnects ==
    /\ kind = "google" /\ state = "off"
    /\ state' = "reading" /\ GetsRootId
    /\ reading' = [start |-> 0, present |-> Live]
    /\ UNCHANGED <<kind, drive, list, fsIds, unsure, got, lost, others>>

\* process_listing: the entries of a page; error_occurred ends the listing.
Processed(page) == list \cup {EntryOf(n, drive[n].parent) : n \in page}

\* request_listing: a page of all that is on the drive.
HasNextPage(left) == left > Page

ReadDrivePage ==
    /\ kind = "google" /\ state = "reading"
    /\ LET page == PageOf(Live, reading.start)
           more == HasNextPage(Cardinality(Live) - reading.start)
       IN  /\ list' = Processed(page)
           /\ reading' = IF more THEN [reading EXCEPT !.start = @ + Cardinality(page)] ELSE <<>>
           /\ state' = IF more THEN "reading" ELSE "unrooted"
    /\ UNCHANGED <<kind, drive, root, parent, fsIds, unsure, got, lost, others>>

\* drive_sign_in and poll_sign_in: the storage is initialized with the list
\* that is there, which nobody has read.
DriveSignsIn ==
    /\ kind = "google" /\ state = "failed"
    /\ state' = "unrooted" /\ GetsRootId
    /\ UNCHANGED <<kind, drive, list, fsIds, reading, unsure, got, lost, others>>

\* What create_directory leaves on the drive.
NewDirectory(n, name) == drive' = [drive EXCEPT ![n] = Thing("dir", name, parent)]

\* drive_set_jksv_root: the JKSV directory is found or made and becomes
\* the root; when that fails the root stays that of the drive.
DriveFindsRoot ==
    /\ kind = "google" /\ state = "unrooted" /\ state' = "ready"
    /\ LET jksv == DirectoriesNamed(Jksv)
       IN  \/ /\ \E e \in jksv : root' = e.id /\ parent' = e.id
              /\ Answered /\ UNCHANGED <<drive, list, fsIds>>
           \/ /\ jksv = {}
              /\ \E n \in Fresh :
                  /\ NewDirectory(n, Jksv)
                  /\ \/ /\ Answered /\ root' = n /\ parent' = n
                        /\ list' = list \cup {Entry(n, Jksv, parent, TRUE)}
                        /\ UNCHANGED fsIds
                     \/ AnswerLost /\ UNCHANGED <<root, parent>>
           \/ /\ jksv = {} /\ Answered /\ UNCHANGED <<drive, list, root, parent, fsIds>>
    /\ UNCHANGED <<kind, reading, got, others>>

DriveCreates ==
    /\ Changes("google") /\ parent = root
    /\ \E name \in Name, n \in Fresh :
        /\ DirectoriesNamed(name) = {}
        /\ NewDirectory(n, name)
        /\ \/ Answered /\ list' = list \cup {Entry(n, name, parent, TRUE)} /\ UNCHANGED fsIds
           \/ AnswerLost
    /\ UNCHANGED parent

DriveUploads ==
    /\ Changes("google") /\ parent # root
    /\ \E name \in Name, n \in Fresh :
        /\ \A e \in Listing : e.name # name
        /\ drive' = [drive EXCEPT ![n] = Thing("file", name, parent)]
        /\ \/ Answered /\ list' = list \cup {Entry(n, name, parent, FALSE)} /\ UNCHANGED fsIds
           \/ AnswerLost
    /\ UNCHANGED parent

\* patch_file: new contents for the item's id.
DrivePatches ==
    /\ Changes("google") /\ parent # root
    /\ \E e \in Listing : ~e.dir /\ Reaches(e.id) # {}
    /\ Answered /\ UNCHANGED <<drive, list, parent, fsIds>>

DriveDownloads ==
    /\ Operation /\ kind = "google" /\ parent # root
    /\ \E e \in Listing :
        ~e.dir /\ Reaches(e.id) # {} /\ got' = [asked |-> e.id, was |-> e.id]
    /\ UNCHANGED <<drive, list, parent, fsIds, unsure, lost>>

\* delete_item erases the item alone: what was below a directory stays in
\* the list, where no directory leads to it.
DriveDeletes ==
    /\ Changes("google") /\ parent # root
    /\ \E e \in Listing :
        /\ Reaches(e.id) # {}
        /\ drive' = Without({e.id} \cup Below(e.id))
        /\ \/ Answered /\ list' = list \ {e} /\ UNCHANGED fsIds
           \/ AnswerLost
    /\ UNCHANGED parent

DriveNext ==
    \/ DriveConnects \/ ReadDrivePage \/ DriveSignsIn \/ DriveFindsRoot
    \/ DriveCreates \/ DriveUploads \/ DrivePatches \/ DriveDownloads \/ DriveDeletes
=============================================================================
