---------------------------- MODULE RemoteDrives ----------------------------
(***************************************************************************)
(* The remote storage JKSV is connected to, whichever of the three it is,  *)
(* and what its item list promises to the menus.                           *)
(***************************************************************************)
EXTENDS BaiduNetdisk, GoogleDrive, WebDav

Next ==
    \/ OpenDirectory \/ ReturnToRoot \/ ConnectionFails \/ Restart
    \/ BaiduNext \/ DriveNext \/ DavNext

Spec == Init /\ [][Next]_vars

\* An entry stands for what is on the drive, at the place it is shown at.
IsOnDrive(e) ==
    \E n \in Reaches(e.id) \cap Live :
        drive[n].name = e.name /\ IsDir(n) = e.dir /\ drive[n].parent \in Reaches(e.parent)

\* The item list after any sequence of operations is what a new listing
\* would be made of, as long as every answer arrived: no entry for what was
\* deleted, none under the name or in the directory it had before it was
\* renamed.  On WebDav this holds for the titles' directories only: the
\* entries in a renamed one keep paths that are gone.
ListedIsOnDrive ==
    state = "ready" /\ ~unsure =>
        \A e \in list : (kind = "webdav" => e.parent = root) => IsOnDrive(e)

\* Nothing that was on the drive when a listing began is missing from it
\* at its end, although the sysmodule adds and overwrites files between
\* two pages.  (WebDav skips what it cannot read.)
ListingMissesNothing ==
    [][ /\ kind # "webdav" /\ state = "reading" /\ state' \in {"ready", "unrooted"}
        => reading.present \subseteq {e.id : e \in list'}]_vars

\* A download brings the file that was asked for and not one that had its
\* path before a directory was renamed, although the numbers of Baidu
\* Netdisk are remembered by path and an upload may answer without one.
DownloadFetchesListed == got # <<>> /\ ~unsure => got.asked = got.was
=============================================================================
