----------------------------- MODULE TokenStore -----------------------------
(***************************************************************************)
(* The login shared by JKSV and its sysmodule: config/JKSV/baidu.json and  *)
(* the marker of a sign-out.  Two programs read and write them without a   *)
(* lock: the background client (sysmodule/source/baidu.cpp) replaces the   *)
(* file through renames, JKSV (source/remote/remote.cpp, BaiduNetdisk.cpp) *)
(* rewrites it in place.  JKSV itself has two threads on it: its storage   *)
(* object is built by remote::initialize, a job of the pool at start-up,   *)
(* and used by modal tasks afterwards; a task signs in or out.  Nothing    *)
(* orders the job at start-up and that task.                               *)
(*                                                                         *)
(* A token is the login it was granted for, 0 for none, and a serial that  *)
(* counts its renewals; the drive accepts the newest serial of a login     *)
(* alone.  An access token lives for days: one the user just authorized    *)
(* does not expire while the sign-in lasts.  The other fields of the file  *)
(* stay the same and are left out.                                         *)
(***************************************************************************)
EXTENDS Naturals

CONSTANTS
    Missing, Torn,     \* a file that does not exist, or is being written
    MaxLogins,         \* bound: authorizations by the user
    MaxRefreshes,      \* bound: renewals of one login
    MaxCrashes,        \* bound: power losses
    MaxFaults          \* bound: failing file operations and lost answers

Token == [login : 0..MaxLogins, serial : 0..MaxRefreshes]
Config == [token : Token, out : BOOLEAN]

ASSUME TokenBounds == {MaxLogins, MaxRefreshes, MaxCrashes, MaxFaults} \subseteq Nat /\ MaxLogins > 0
ASSUME TokenContents == Missing # Torn /\ {Missing, Torn} \cap Config = {}

VARIABLES
    file, bak, marker,       \* baidu.json, its .bak, baidu.logged_out
    bg, bgToken, bgWrite,    \* the background client and what it writes
    startup,                 \* remote::initialize, once per launch of JKSV
    fs, fsToken,             \* JKSV's storage object
    ac, acToken, named,      \* JKSV's account task
    live, logins,            \* the drive: newest serial of each login
    due,                     \* logins whose access token has expired
    rotates,                 \* whether it renews refresh tokens as well
    signedOut,               \* history: a sign-out succeeded since
    stale,                   \* history: JKSV wrote a serial already renewed
    resaved,                 \* history: JKSV wrote back a login it has left
    crashes, faults

card == <<file, bak, marker>>
background == <<bg, bgToken, bgWrite>>
storage == <<startup, fs, fsToken>>
account == <<ac, acToken, named>>
server == <<live, logins, due, rotates>>
history == <<signedOut, stale, resaved>>
bounds == <<crashes, faults>>
vars == <<card, background, storage, account, server, history, bounds>>

NoToken == [login |-> 0, serial |-> 0]
Cleared == [token |-> NoToken, out |-> TRUE]

Readable == file \in Config
MarkedOut == marker \/ (Readable /\ file.out)
\* get_baidu_account_status.
SignedIn == Readable /\ ~MarkedOut /\ file.token # NoToken

\* A file open for writing can be neither opened again nor renamed.
Writing == fs = "write" \/ ac \in {"clear", "grant"}

Fault == faults < MaxFaults /\ faults' = faults + 1

Init ==
    /\ \E login \in 0..1 : file = [token |-> [login |-> login, serial |-> 0], out |-> FALSE]
    /\ bak = Missing /\ marker = FALSE
    /\ bg = "off" /\ bgToken = NoToken /\ bgWrite = Cleared
    /\ startup = "due" /\ fs = "off" /\ fsToken = NoToken
    /\ ac = "idle" /\ acToken = NoToken /\ named = FALSE
    /\ live = [l \in 1..MaxLogins |-> 0] /\ rotates \in BOOLEAN /\ due = {}
    /\ logins = file.token.login
    /\ signedOut = FALSE /\ stale = FALSE /\ resaved = FALSE /\ crashes = 0 /\ faults = 0

\* The console loses power: files stay as they are.
PowerLoss ==
    /\ crashes < MaxCrashes /\ crashes' = crashes + 1
    /\ bg' = "off" /\ bgToken' = NoToken /\ bgWrite' = Cleared
    /\ startup' = "due" /\ fs' = "off" /\ fsToken' = NoToken
    /\ ac' = "idle" /\ acToken' = NoToken /\ named' = FALSE
    /\ UNCHANGED <<card, server, history, faults>>

(***************************************************************************)
(* The drive.                                                              *)
(***************************************************************************)
Accepts(token) == token.login # 0 /\ live[token.login] = token.serial

\* A renewal is answered with the next serial, or with none when refresh
\* tokens stay valid; renewed is what the client holds afterwards.
Renews(token, renewed) ==
    /\ Accepts(token) /\ token.login \in due
    /\ due' = due \ {token.login}
    /\ \/ ~rotates /\ renewed = token /\ UNCHANGED live
       \/ /\ rotates /\ token.serial < MaxRefreshes
          /\ renewed = [token EXCEPT !.serial = @ + 1]
          /\ live' = [live EXCEPT ![token.login] = @ + 1]

Expire ==
    /\ ac = "idle"
    /\ \E l \in (1..logins) \ due : due' = due \cup {l}
    /\ UNCHANGED <<card, background, storage, account, live, logins, rotates, history, bounds>>

(***************************************************************************)
(* The background client.                                                  *)
(***************************************************************************)
BgOff == bg' = "off" /\ bgToken' = NoToken /\ bgWrite' = Cleared

\* A renewal that was not stored: initialize ends, upload_file goes on to the
\* next archive with the token in memory.
BgNotStored == BgOff \/ (bg' = "use" /\ UNCHANGED <<bgToken, bgWrite>>)

\* Variant for mutation: only the flag in the file is looked at.
BgStartUnmarked ==
    /\ bg = "off"
    /\ bg' = "read"
    /\ UNCHANGED <<card, bgToken, bgWrite, storage, account, server, history, bounds>>

\* load_config: the marker first, then the file.
BgStart ==
    /\ bg = "off" /\ ~marker
    /\ bg' = "read"
    /\ UNCHANGED <<card, bgToken, bgWrite, storage, account, server, history, bounds>>

BgRead ==
    /\ bg = "read"
    /\ IF Readable /\ ~file.out
       THEN bg' = "use" /\ bgToken' = file.token /\ UNCHANGED bgWrite
       ELSE BgOff
    /\ UNCHANGED <<card, storage, account, server, history, bounds>>

\* Uploads are done, or failed; so does a renewal the drive rejects.
BgFinish ==
    /\ bg = "use" /\ BgOff
    /\ UNCHANGED <<card, storage, account, server, history, bounds>>

\* Variant for mutation: the old refresh token is kept.
BgRefreshKeepsOld ==
    /\ bg = "use"
    /\ \E t \in Token : Renews(bgToken, t)
    /\ bg' = "check"
    /\ UNCHANGED <<card, bgToken, bgWrite, storage, account, logins, rotates, history, bounds>>

\* refresh_token, answered.
BgRefresh ==
    /\ bg = "use"
    /\ \E t \in Token : Renews(bgToken, t) /\ bgToken' = t
    /\ bg' = "check"
    /\ UNCHANGED <<card, bgWrite, storage, account, logins, rotates, history, bounds>>

\* refresh_token, the answer of which is lost.
BgRefreshLost ==
    /\ bg = "use" /\ Fault
    /\ \E t \in Token : Renews(bgToken, t)
    /\ BgNotStored
    /\ UNCHANGED <<card, storage, account, logins, rotates, history, crashes>>

\* save_tokens: the marker, the file read again, and written to .tmp.
BgCheckMarker ==
    /\ bg = "check"
    /\ IF marker THEN BgNotStored ELSE bg' = "merge" /\ UNCHANGED <<bgToken, bgWrite>>
    /\ UNCHANGED <<card, storage, account, server, history, bounds>>

BgMerge ==
    /\ bg = "merge"
    /\ \/ /\ Readable /\ ~file.out
          /\ bgWrite' = [token |-> bgToken, out |-> FALSE]
          /\ bg' = "aside" /\ UNCHANGED <<bgToken, faults>>
       \/ ~(Readable /\ ~file.out) /\ BgNotStored /\ UNCHANGED faults
       \/ Fault /\ BgNotStored
    /\ UNCHANGED <<card, storage, account, server, history, crashes>>

\* atomic_replace up to its first rename.
BgPutAside ==
    /\ bg = "aside"
    /\ \/ /\ ~Writing
          /\ bak' = file /\ file' = Missing
          /\ bg' = "publish" /\ UNCHANGED <<bgToken, bgWrite, faults>>
       \/ /\ \/ Writing /\ UNCHANGED faults
             \/ file # Missing /\ Fault
          /\ bak' = Missing /\ UNCHANGED file /\ BgNotStored
    /\ UNCHANGED <<marker, storage, account, server, history, crashes>>

\* Variant for mutation: a failed rename is not undone.
BgPublishForgets ==
    /\ bg = "publish"
    /\ \/ /\ file = Missing
          /\ file' = bgWrite /\ bak' = Missing
          /\ IF bgWrite.out THEN BgNotStored ELSE bg' = "recheck" /\ UNCHANGED <<bgToken, bgWrite>>
          /\ UNCHANGED faults
       \/ /\ file = Missing => Fault
          /\ file # Missing => UNCHANGED faults
          /\ UNCHANGED <<file, bak>>
          /\ BgNotStored
    /\ UNCHANGED <<marker, storage, account, server, history, crashes>>

\* Its second rename, which fails when JKSV created the file meanwhile; so
\* does renaming the old file back then.
BgPublish ==
    /\ bg = "publish"
    /\ \/ /\ file = Missing
          /\ file' = bgWrite /\ bak' = Missing
          /\ IF bgWrite.out THEN BgNotStored ELSE bg' = "recheck" /\ UNCHANGED <<bgToken, bgWrite>>
          /\ UNCHANGED faults
       \/ file = Missing /\ Fault /\ file' = bak /\ bak' = Missing /\ BgNotStored
       \/ file # Missing /\ UNCHANGED <<file, bak, faults>> /\ BgNotStored
    /\ UNCHANGED <<marker, storage, account, server, history, crashes>>

\* Variant for mutation: the marker is not checked again.
BgRecheckNot ==
    /\ bg = "recheck"
    /\ bg' = "use"
    /\ UNCHANGED <<card, bgToken, bgWrite, storage, account, server, history, bounds>>

\* "Check again after replacement so an in-flight refresh cannot resurrect
\* the old login."
BgRecheck ==
    /\ bg = "recheck"
    /\ bg' = IF marker THEN "reread" ELSE "use"
    /\ UNCHANGED <<card, bgToken, bgWrite, storage, account, server, history, bounds>>

\* The tokens just written are cleared again, whatever file they are in now.
BgReread ==
    /\ bg = "reread"
    /\ \/ Readable /\ bgWrite' = Cleared /\ bg' = "aside" /\ UNCHANGED <<bgToken, faults>>
       \/ ~Readable /\ BgNotStored /\ UNCHANGED faults
       \/ Fault /\ BgNotStored
    /\ UNCHANGED <<card, storage, account, server, history, crashes>>

(***************************************************************************)
(* JKSV's storage object: built by remote::initialize, used by the tasks.  *)
(***************************************************************************)
\* Tasks are modal; the job at start-up runs beside the account task.
FsTurn == startup = "run" \/ ac = "idle"

\* remote::initialize finds nothing to do: no internet, no login.
StartupSkips ==
    /\ startup = "due" /\ startup' = "over"
    /\ UNCHANGED <<card, background, fs, fsToken, account, server, history, bounds>>

\* Its BaiduNetdisk: the file is read, then the marker.
FsConstruct ==
    /\ startup = "due" /\ startup' = "run" /\ fs \in {"off", "use"}
    /\ Readable /\ ~MarkedOut /\ file.token # NoToken
    /\ fs' = "use" /\ fsToken' = file.token
    /\ UNCHANGED <<card, background, account, server, history, bounds>>

StartupOver ==
    /\ startup = "run" /\ startup' = "over" /\ fs \in {"off", "use"}
    /\ UNCHANGED <<card, background, fs, fsToken, account, server, history, bounds>>

FsRefresh ==
    /\ fs = "use" /\ FsTurn
    /\ \E t \in Token : Renews(fsToken, t) /\ fsToken' = t
    /\ fs' = "merge"
    /\ UNCHANGED <<card, background, startup, account, logins, rotates, history, bounds>>

\* The account's name changed: the constructor saves what it holds.
FsSaveName ==
    /\ fs = "use" /\ FsTurn
    /\ fs' = "merge"
    /\ UNCHANGED <<card, background, startup, fsToken, account, server, history, bounds>>

\* save_tokens: an unreadable file fails the save, a sign-out ends all use.
FsMerge ==
    /\ fs = "merge"
    /\ IF ~Readable THEN fs' = "use" /\ UNCHANGED fsToken
       ELSE IF MarkedOut THEN fs' = "off" /\ fsToken' = NoToken
       ELSE fs' = "open" /\ UNCHANGED fsToken
    /\ UNCHANGED <<card, background, startup, account, server, history, bounds>>

FsOpenFile ==
    /\ fs = "open"
    /\ \/ ~Writing /\ file' = Torn /\ fs' = "write" /\ UNCHANGED faults
       \/ Writing /\ fs' = "use" /\ UNCHANGED <<file, faults>>
       \/ Fault /\ fs' = "use" /\ UNCHANGED file
    /\ UNCHANGED <<bak, marker, background, startup, fsToken, account, server, history, crashes>>

FsWrite ==
    /\ fs = "write"
    /\ \/ /\ file' = [token |-> fsToken, out |-> FALSE]
          /\ stale' = ~Accepts(fsToken) /\ resaved' = (resaved \/ signedOut \/ fsToken.login # logins)
          /\ UNCHANGED faults
       \/ Fault /\ UNCHANGED <<file, stale, resaved>>
    /\ fs' = "use"
    /\ UNCHANGED <<bak, marker, background, startup, fsToken, account, server, signedOut, crashes>>

\* JKSV is left, to be launched again.
FsClose ==
    /\ startup = "over" /\ startup' = "due" /\ fs \in {"off", "use"} /\ ac = "idle"
    /\ fs' = "off" /\ fsToken' = NoToken
    /\ UNCHANGED <<card, background, account, server, history, bounds>>

\* s_storage.reset(), which misses an object still being constructed.
StorageReset ==
    /\ \/ fs \in {"off", "use"} /\ fs' = "off" /\ fsToken' = NoToken
       \/ startup = "run" /\ UNCHANGED <<fs, fsToken>>
    /\ UNCHANGED startup

(***************************************************************************)
(* JKSV's account task.                                                    *)
(***************************************************************************)
AcTurn == startup = "run" \/ fs \in {"off", "use"}
AcIdle == ac' = "idle" /\ acToken' = NoToken /\ named' = FALSE

\* sign_out_baidu_netdisk reads the file; its copy loses the tokens later.
SignOut ==
    /\ ac = "idle" /\ AcTurn /\ SignedIn
    /\ ac' = "mark"
    /\ UNCHANGED <<card, background, storage, acToken, named, server, history, bounds>>

\* The marker may be there although creating it is reported to have failed.
CreateMarker ==
    /\ ac = "mark"
    /\ \/ marker' = TRUE /\ StorageReset /\ ac' = "rewrite" /\ UNCHANGED faults
       \/ Fault /\ (marker' = TRUE \/ UNCHANGED marker) /\ ac' = "idle" /\ UNCHANGED storage
    /\ UNCHANGED <<file, bak, background, acToken, named, server, history, crashes>>

\* save_baidu_config opens the file.
OpenToClear ==
    /\ ac = "rewrite"
    /\ \/ ~Writing /\ file' = Torn /\ ac' = "clear" /\ UNCHANGED faults
       \/ Writing /\ ac' = "idle" /\ UNCHANGED <<file, faults>>
       \/ Fault /\ ac' = "idle" /\ UNCHANGED file
    /\ UNCHANGED <<bak, marker, background, storage, acToken, named, server, history, crashes>>

ClearTokens ==
    /\ ac = "clear"
    /\ \/ file' = Cleared /\ signedOut' = TRUE /\ resaved' = FALSE /\ UNCHANGED faults
       \/ Fault /\ UNCHANGED <<file, signedOut, resaved>>
    /\ ac' = "idle"
    /\ UNCHANGED <<bak, marker, background, storage, acToken, named, server, stale, crashes>>

\* begin_baidu_netdisk_sign_in replaces the storage object.
SignIn ==
    /\ ac = "idle" /\ AcTurn /\ Readable /\ ~SignedIn
    /\ StorageReset
    /\ ac' = "poll"
    /\ UNCHANGED <<card, background, acToken, named, server, history, bounds>>

\* The start-up signs in when there is no token or the drive rejects it, with
\* the object it has built.  (A second task beside the account task is left out.)
StartupSignIn ==
    /\ ac = "idle"
    /\ \/ startup = "due" /\ fs \in {"off", "use"} /\ Readable /\ ~MarkedOut /\ file.token = NoToken
       \/ startup = "run" /\ fs = "use" /\ ~Accepts(fsToken)
    /\ startup' = "over" /\ fs' = "off" /\ fsToken' = NoToken
    /\ ac' = "poll"
    /\ UNCHANGED <<card, background, acToken, named, server, history, bounds>>

\* poll_sign_in, once the user has scanned the code, or cancels.
Authorize ==
    /\ ac = "poll" /\ logins < MaxLogins
    /\ logins' = logins + 1
    /\ acToken' = [login |-> logins', serial |-> 0]
    /\ ac' = "join"
    /\ UNCHANGED <<card, background, storage, named, live, due, rotates, history, bounds>>

CancelSignIn ==
    /\ ac = "poll" /\ AcIdle
    /\ UNCHANGED <<card, background, storage, server, history, bounds>>

\* save_tokens(true); when it fails the authorization is spent.
JoinTokens ==
    /\ ac = "join"
    /\ IF Readable THEN ac' = "open" /\ UNCHANGED <<acToken, named>> ELSE AcIdle
    /\ UNCHANGED <<card, background, storage, server, history, bounds>>

OpenToGrant ==
    /\ ac = "open"
    /\ \/ ~Writing /\ file' = Torn /\ ac' = "grant" /\ UNCHANGED <<acToken, named, faults>>
       \/ Writing /\ AcIdle /\ UNCHANGED <<file, faults>>
       \/ Fault /\ AcIdle /\ UNCHANGED file
    /\ UNCHANGED <<bak, marker, background, storage, server, history, crashes>>

GrantTokens ==
    /\ ac = "grant"
    /\ \/ /\ file' = [token |-> acToken, out |-> FALSE]
          /\ signedOut' = FALSE /\ resaved' = FALSE /\ stale' = ~Accepts(acToken)
          /\ ac' = "unmark" /\ UNCHANGED <<acToken, named, faults>>
       \/ Fault /\ AcIdle /\ UNCHANGED <<file, history>>
    /\ UNCHANGED <<bak, marker, background, storage, server, crashes>>

\* request_account_info answered: the tokens are saved again, with the name.
SaveWithName ==
    /\ ac = "unmark" /\ ~named
    /\ named' = TRUE /\ ac' = "join"
    /\ UNCHANGED <<card, background, storage, acToken, server, history, bounds>>

\* The marker goes last; then the object of the sign-in is ready for use, if
\* the start-up has not replaced it.
RemoveMarker ==
    /\ ac = "unmark"
    /\ \/ /\ marker' = FALSE /\ UNCHANGED faults
          /\ \/ fs \in {"off", "use"} /\ fs' = "use" /\ fsToken' = acToken
             \/ fs # "off" /\ UNCHANGED <<fs, fsToken>>
       \/ marker /\ Fault /\ UNCHANGED <<marker, fs, fsToken>>
    /\ AcIdle
    /\ UNCHANGED <<file, bak, background, startup, server, history, crashes>>

-----------------------------------------------------------------------------
Background ==
    \/ BgStart \/ BgRead \/ BgFinish \/ BgRefresh \/ BgRefreshLost \/ BgCheckMarker \/ BgMerge
    \/ BgPutAside \/ BgPublish \/ BgRecheck \/ BgReread

Storage ==
    \/ StartupSkips \/ FsConstruct \/ StartupOver
    \/ FsRefresh \/ FsSaveName \/ FsMerge \/ FsOpenFile \/ FsWrite \/ FsClose

Account ==
    \/ SignOut \/ CreateMarker \/ OpenToClear \/ ClearTokens
    \/ SignIn \/ StartupSignIn \/ Authorize \/ CancelSignIn \/ JoinTokens \/ OpenToGrant \/ GrantTokens
    \/ SaveWithName \/ RemoveMarker

Next == Background \/ Storage \/ Account \/ Expire \/ PowerLoss

Spec == Init /\ [][Next]_vars

-----------------------------------------------------------------------------
(***************************************************************************)
(* Properties.                                                             *)
(***************************************************************************)
Quiescent == bg = "off" /\ fs \in {"off", "use"} /\ ac = "idle"

\* After a sign-out no program picks up a token until the user signs in
\* again, whatever was in flight, failed or lost power - unless one came back
\* into the file, by a save of remote::initialize alone.
SignedOutHolds ==
    [][signedOut /\ signedOut' /\ ~resaved =>
        /\ bg = "read" => bgToken' = NoToken
        /\ fs = "off" => fs' = "off"
        /\ resaved' => startup = "run"]_vars

\* README.MD:147: signing out clears the tokens stored on the console, even
\* those a renewal of the sysmodule in flight was about to store.  JKSV's own
\* save_tokens does not look at the marker after writing: what its start-up
\* writes after the sign-out stays (resaved).
CleanAfterSignOut ==
    signedOut /\ ~resaved /\ Quiescent /\ faults = 0 /\ crashes = 0 =>
        Readable /\ file.token = NoToken

\* No single failure makes the background client mislay baidu.json.
ConfigNotMislaid ==
    Quiescent /\ faults <= 1 /\ crashes = 0 => file # Missing

\* A renewal is stored: the token in the file is the one the drive accepts,
\* unless JKSV wrote back one it read before the sysmodule renewed it.
RenewedTokenKept ==
    Quiescent /\ faults = 0 /\ crashes = 0 /\ ~stale /\ ~resaved /\ SignedIn => Accepts(file.token)
=============================================================================
