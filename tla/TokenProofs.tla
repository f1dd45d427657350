---------------------------- MODULE TokenProofs -----------------------------
(***************************************************************************)
(* The login file and the sign-out marker under the background client and  *)
(* JKSV: no step of either mislays the file; a sign-out holds and leaves   *)
(* no token; what the drive renews is stored.  For every number of logins, *)
(* renewals, power losses and failures, and every interleaving of JKSV's   *)
(* start-up with its account task; what that start-up writes back is told  *)
(* apart by resaved.                                                       *)
(***************************************************************************)
EXTENDS TokenStore, TLAPS

TokenType ==
    /\ file \in Config \cup {Missing, Torn} /\ bak \in Config \cup {Missing, Torn}
    /\ bg \in {"off", "read", "use", "check", "merge", "aside", "publish", "recheck", "reread"}
    /\ startup \in {"due", "run", "over"} /\ fs \in {"off", "use", "merge", "open", "write"}
    /\ ac \in {"idle", "mark", "rewrite", "clear", "poll", "join", "open", "grant", "unmark"}
    /\ bgToken \in Token /\ bgWrite \in Config /\ fsToken \in Token /\ acToken \in Token
    /\ live \in [1..MaxLogins -> 0..MaxRefreshes] /\ logins \in 0..MaxLogins /\ due \subseteq 1..logins
    /\ crashes \in Nat /\ faults \in Nat

Undisturbed == faults = 0 /\ crashes = 0

-----------------------------------------------------------------------------
\* What the background client holds, and writes.
ClientInv ==
    /\ bg \in {"off", "read"} => bgToken = NoToken
    /\ bgWrite.out => bgWrite = Cleared
    /\ bg \in {"aside", "publish"} /\ ~bgWrite.out => bgWrite.token = bgToken
    /\ bg \in {"recheck", "reread"} => ~bgWrite.out

\* Where the file is.
PlaceInv ==
    /\ crashes = 0 /\ file = Missing => bg = "publish"
    /\ crashes = 0 /\ bg = "publish" => bak # Missing
    /\ fs = "write" => ac \notin {"clear", "grant"}
    /\ Writing => file = Torn
    /\ Undisturbed /\ file = Torn => Writing

StoreInv == TokenType /\ ClientInv /\ PlaceInv

-----------------------------------------------------------------------------
\* What JKSV has open or is about to open while there is a marker is its
\* start-up's; nothing of the account task's sign-in is left after a sign-out.
TurnInv ==
    /\ ac # "idle" => fs \in {"off", "use"} \/ startup = "run"
    /\ marker /\ fs \in {"open", "write"} => startup = "run"
    /\ ac \in {"rewrite", "clear"} => marker
    /\ signedOut => marker /\ ac \notin {"mark", "rewrite", "clear", "unmark"}

\* After a sign-out the file is cleared, or what the background client put
\* there is about to be, or JKSV's start-up is about to write it.
OutInv == signedOut /\ ~resaved =>
    /\ bg = "read" => file \in {Cleared, Torn}
    /\ Undisturbed =>
        \/ file = Cleared
        \/ file = Torn /\ (ac = "grant" \/ fs = "write")
        \/ file = Missing /\ bg = "publish"
        \/ file \in Config /\ (bg \in {"recheck", "reread"} \/ (bg = "aside" /\ bgWrite = Cleared))

SignOutInv == TurnInv /\ OutInv

-----------------------------------------------------------------------------
(***************************************************************************)
(* Renewals.                                                               *)
(***************************************************************************)
\* Nobody holds a serial, or a login, that was not given out.
Known(token) == token = NoToken \/ (token.login \in 1..logins /\ token.serial <= live[token.login])
KnownInv ==
    /\ \A l \in 1..MaxLogins : l > logins => live[l] = 0
    /\ Known(bgToken) /\ Known(fsToken) /\ Known(acToken)
    /\ file \in Config => Known(file.token)

\* The login under way is not renewed yet.
Granting == ac \in {"join", "open", "grant", "unmark"}
GrantInv == Granting => Accepts(acToken) /\ acToken.login \notin due /\ acToken.login = logins /\ acToken.serial = 0

\* A renewal the background client has and has not stored yet is its own.
Renewing == bg \in {"check", "merge"} \/ (bg \in {"aside", "publish"} /\ ~bgWrite.out)
Behind(token) == token.login = bgToken.login => token.serial < bgToken.serial
RenewingInv == Renewing =>
    /\ Accepts(bgToken)
    /\ rotates => /\ Behind(fsToken) /\ Behind(acToken)
                  /\ file \in Config => Behind(file.token)

\* While a sign-in waits to remove the marker its tokens are in the file, or
\* cleared; or the background client is about to clear its own, the newest of
\* another login.
ClientsOwn ==
    /\ bg \in {"recheck", "reread"} \/ (bg = "aside" /\ bgWrite = Cleared)
    /\ file = [token |-> bgToken, out |-> FALSE]
    /\ Accepts(bgToken) /\ (rotates => fsToken # bgToken)
UnmarkInv == ~resaved /\ ac = "unmark" /\ marker =>
    \/ file \in {Missing, Cleared, [token |-> acToken, out |-> FALSE]}
    \/ file = Torn /\ fs = "write"
    \/ ClientsOwn

\* The token in the file is the newest, or the newest is on its way there.
Stored(token) ==
    \/ Accepts(token)
    \/ bg \in {"check", "merge", "aside"} /\ ~(bg = "aside" /\ bgWrite.out) /\ bgToken.login = token.login
    \/ fs \in {"merge", "open"} /\ Accepts(fsToken) /\ fsToken.login = token.login
    \/ marker /\ ac # "unmark"
StoredInv == ~stale /\ ~resaved /\ file \in Config /\ file.token.login # 0 => Stored(file.token)

CleanFile == file \in Config /\ file.out => file = Cleared

RenewInv == Undisturbed =>
    CleanFile /\ KnownInv /\ GrantInv /\ RenewingInv /\ UnmarkInv /\ StoredInv

-----------------------------------------------------------------------------
LEMMA Bounds == MaxLogins \in Nat /\ MaxRefreshes \in Nat /\ 0 \in 0..MaxLogins /\ 0 \in 0..MaxRefreshes
BY TokenBounds

LEMMA NoTokenType == NoToken \in Token /\ Cleared \in Config
BY Bounds DEF NoToken, Cleared, Token, Config

\* A file with a token.
Holding(token) == [token |-> token, out |-> FALSE]

LEMMA HoldingType ==
  ASSUME NEW token \in Token
  PROVE  Holding(token) \in Config /\ Holding(token).token = token /\ ~Holding(token).out
BY DEF Holding, Config

LEMMA Files == Missing # Torn /\ Missing \notin Config /\ Torn \notin Config
BY TokenContents

\* A renewal gives the next serial of its login, and changes no other login.
LEMMA Renewal ==
  ASSUME TokenType, NEW token \in Token, NEW renewed, Renews(token, renewed)
  PROVE  /\ renewed \in Token /\ renewed.login = token.login
         /\ token.login \in 1..MaxLogins /\ token.login \in due /\ due' = due \ {token.login}
         /\ live[token.login] = token.serial /\ live'[token.login] = renewed.serial
         /\ live' \in [1..MaxLogins -> 0..MaxRefreshes]
         /\ \A l \in 1..MaxLogins : l # token.login => live'[l] = live[l]
         /\ IF rotates THEN renewed.serial = token.serial + 1 ELSE live' = live /\ renewed = token
<1>1. /\ token.login \in 1..MaxLogins /\ token.serial \in 0..MaxRefreshes /\ token.login \in due
      /\ live[token.login] = token.serial /\ due' = due \ {token.login}
      /\ DOMAIN live = 1..MaxLogins
  BY Bounds DEF Renews, Accepts, Token, TokenType
<1>2. CASE ~rotates
  BY <1>1, <1>2 DEF Renews, TokenType
<1>3. CASE rotates
  <2>1. /\ token.serial < MaxRefreshes /\ renewed = [token EXCEPT !.serial = token.serial + 1]
        /\ live' = [live EXCEPT ![token.login] = live[token.login] + 1]
    BY <1>3 DEF Renews
  <2>2. renewed.login = token.login /\ renewed.serial = token.serial + 1 /\ renewed \in Token
    BY <1>1, <2>1, Bounds DEF Token
  <2>3. live' \in [1..MaxLogins -> 0..MaxRefreshes]
    BY <1>1, <2>1, Bounds DEF TokenType
  <2> QED BY <1>1, <1>3, <2>1, <2>2, <2>3
<1> QED BY <1>2, <1>3

-----------------------------------------------------------------------------
LEMMA InitStore == Init => StoreInv
<1> SUFFICES ASSUME Init PROVE StoreInv
  OBVIOUS
<1>1. file \in Config /\ file.token.login \in 0..1
  BY Bounds, TokenBounds DEF Init, Config, Token
<1>2. TokenType
  BY <1>1, Bounds, NoTokenType, TokenBounds DEF Init, TokenType
<1>3. ClientInv /\ PlaceInv
  BY <1>1, Files DEF Init, ClientInv, PlaceInv, Writing, Cleared
<1> QED BY <1>2, <1>3 DEF StoreInv

LEMMA NextType == ASSUME TokenType, [Next]_vars PROVE TokenType'
<1> USE NoTokenType DEF TokenType, card, background, storage, account, server, history, bounds,
                        BgOff, BgNotStored, AcIdle, Fault, StorageReset
<1>1. CASE BgStart
  BY <1>1 DEF BgStart
<1>2. CASE BgRead
  <2>1. bg' = "use" => file.token \in Token
    BY <1>2 DEF BgRead, Readable, Config
  <2> QED BY <1>2, <2>1 DEF BgRead
<1>3. CASE BgFinish
  BY <1>3 DEF BgFinish
<1>4. CASE BgRefresh
  <2>1. PICK t \in Token : Renews(bgToken, t) /\ bgToken' = t
    BY <1>4 DEF BgRefresh
  <2>2. due' \subseteq 1..logins /\ live' \in [1..MaxLogins -> 0..MaxRefreshes]
    BY <2>1, Renewal
  <2> QED BY <1>4, <2>1, <2>2 DEF BgRefresh
<1>5. CASE BgRefreshLost
  <2>1. PICK t \in Token : Renews(bgToken, t)
    BY <1>5 DEF BgRefreshLost
  <2>2. due' \subseteq 1..logins /\ live' \in [1..MaxLogins -> 0..MaxRefreshes]
    BY <2>1, Renewal
  <2> QED BY <1>5, <2>1, <2>2 DEF BgRefreshLost
<1>6. CASE BgCheckMarker
  BY <1>6 DEF BgCheckMarker
<1>7. CASE BgMerge
  <2>1. bgWrite' \in {Holding(bgToken), bgWrite, Cleared}
    BY <1>7 DEF BgMerge, Holding
  <2>2. bgWrite' \in Config
    BY <2>1, HoldingType
  <2>3. bg' \in {"aside", "off", "use"} /\ bgToken' \in {bgToken, NoToken} /\ faults' \in {faults, faults + 1}
        /\ UNCHANGED <<file, bak, startup, fs, fsToken, ac, acToken, live, logins, due, crashes>>
    BY <1>7 DEF BgMerge
  <2> QED BY <2>2, <2>3
<1>8. CASE BgPutAside
  BY <1>8 DEF BgPutAside
<1>9. CASE BgPublish
  BY <1>9 DEF BgPublish
<1>10. CASE BgRecheck
  BY <1>10 DEF BgRecheck
<1>11. CASE BgReread
  BY <1>11 DEF BgReread
<1>12. CASE FsConstruct
  <2>1. file.token \in Token
    BY <1>12 DEF FsConstruct, Readable, Config
  <2> QED BY <1>12, <2>1 DEF FsConstruct
<1>13. CASE FsRefresh
  <2>1. PICK t \in Token : Renews(fsToken, t) /\ fsToken' = t
    BY <1>13 DEF FsRefresh
  <2>2. due' \subseteq 1..logins /\ live' \in [1..MaxLogins -> 0..MaxRefreshes]
    BY <2>1, Renewal
  <2> QED BY <1>13, <2>1, <2>2 DEF FsRefresh
<1>14. CASE FsSaveName
  BY <1>14 DEF FsSaveName
<1>15. CASE FsMerge
  BY <1>15 DEF FsMerge
<1>16. CASE FsOpenFile
  BY <1>16 DEF FsOpenFile
<1>17. CASE FsWrite
  <2>1. file' \in {Holding(fsToken), file, Cleared}
    BY <1>17 DEF FsWrite, Holding
  <2>2. file' \in Config \cup {Missing, Torn}
    BY <2>1, HoldingType
  <2>3. /\ fs' = "use" /\ faults' \in {faults, faults + 1}
        /\ UNCHANGED <<bak, bg, bgToken, bgWrite, startup, fsToken, ac, acToken, live, logins, due, crashes>>
    BY <1>17 DEF FsWrite
  <2> QED BY <2>2, <2>3
<1>18. CASE FsClose
  BY <1>18 DEF FsClose
<1>19. CASE StartupSkips
  BY <1>19 DEF StartupSkips
<1>20. CASE StartupOver
  BY <1>20 DEF StartupOver
<1>21. CASE SignOut
  BY <1>21 DEF SignOut
<1>22. CASE CreateMarker
  BY <1>22 DEF CreateMarker
<1>23. CASE OpenToClear
  BY <1>23 DEF OpenToClear
<1>24. CASE ClearTokens
  BY <1>24 DEF ClearTokens
<1>25. CASE SignIn
  BY <1>25 DEF SignIn
<1>26. CASE StartupSignIn
  BY <1>26 DEF StartupSignIn
<1>27. CASE Authorize
  <2>1. logins' \in 0..MaxLogins /\ 1..logins \subseteq 1..logins'
    BY <1>27, Bounds DEF Authorize
  <2>2. acToken' \in Token
    BY <1>27, <2>1, Bounds DEF Authorize, Token
  <2> QED BY <1>27, <2>1, <2>2 DEF Authorize
<1>28. CASE CancelSignIn
  BY <1>28 DEF CancelSignIn
<1>29. CASE JoinTokens
  BY <1>29 DEF JoinTokens
<1>30. CASE OpenToGrant
  BY <1>30 DEF OpenToGrant
<1>31. CASE GrantTokens
  <2>1. file' \in {Holding(acToken), file, Cleared}
    BY <1>31 DEF GrantTokens, Holding
  <2>2. file' \in Config \cup {Missing, Torn}
    BY <2>1, HoldingType
  <2>3. /\ ac' \in {"idle", "unmark"} /\ acToken' \in {acToken, NoToken} /\ faults' \in {faults, faults + 1}
        /\ UNCHANGED <<bak, bg, bgToken, bgWrite, startup, fs, fsToken, live, logins, due, crashes>>
    BY <1>31 DEF GrantTokens
  <2> QED BY <2>2, <2>3
<1>32. CASE SaveWithName
  BY <1>32 DEF SaveWithName
<1>33. CASE RemoveMarker
  BY <1>33 DEF RemoveMarker
<1>34. CASE Expire
  BY <1>34 DEF Expire
<1>35. CASE PowerLoss
  BY <1>35 DEF PowerLoss
<1>36. CASE UNCHANGED vars
  BY <1>36 DEF vars
<1> QED
  BY <1>1, <1>2, <1>3, <1>4, <1>5, <1>6, <1>7, <1>8, <1>9, <1>10, <1>11, <1>12, <1>13, <1>14,
     <1>15, <1>16, <1>17, <1>18, <1>19, <1>20, <1>21, <1>22, <1>23, <1>24, <1>25, <1>26, <1>27,
     <1>28, <1>29, <1>30, <1>31, <1>32, <1>33, <1>34, <1>35, <1>36 DEF Next, Background, Storage,
     Account

LEMMA NextClient == ASSUME TokenType, ClientInv, [Next]_vars PROVE ClientInv'
<1> USE NoTokenType DEF TokenType, ClientInv, card, background, storage, account, server, history,
            bounds, BgOff, BgNotStored
<1>1. CASE BgStart
  BY <1>1 DEF BgStart
<1>2. CASE BgRead
  BY <1>2 DEF BgRead
<1>3. CASE BgFinish
  BY <1>3 DEF BgFinish
<1>4. CASE BgRefresh
  BY <1>4 DEF BgRefresh
<1>5. CASE BgRefreshLost
  BY <1>5 DEF BgRefreshLost
<1>6. CASE BgCheckMarker
  BY <1>6 DEF BgCheckMarker
<1>7. CASE BgMerge
  <2>1. CASE bgWrite' = [token |-> bgToken, out |-> FALSE] /\ bg' = "aside" /\ bgToken' = bgToken
    BY <2>1
  <2> QED BY <1>7, <2>1 DEF BgMerge
<1>8. CASE BgPutAside
  BY <1>8 DEF BgPutAside
<1>9. CASE BgPublish
  BY <1>9 DEF BgPublish
<1>10. CASE BgRecheck
  BY <1>10 DEF BgRecheck
<1>11. CASE BgReread
  <2>1. CASE bgWrite' = Cleared /\ bg' = "aside" /\ bgToken' = bgToken
    BY <2>1 DEF Cleared
  <2>2. CASE BgOff
    BY <2>2
  <2> QED BY <1>11, <2>1, <2>2 DEF BgReread
<1>12. CASE FsConstruct
  BY <1>12 DEF FsConstruct
<1>13. CASE FsRefresh
  BY <1>13 DEF FsRefresh
<1>14. CASE FsSaveName
  BY <1>14 DEF FsSaveName
<1>15. CASE FsMerge
  BY <1>15 DEF FsMerge
<1>16. CASE FsOpenFile
  BY <1>16 DEF FsOpenFile
<1>17. CASE FsWrite
  BY <1>17 DEF FsWrite
<1>18. CASE FsClose
  BY <1>18 DEF FsClose
<1>19. CASE StartupSkips
  BY <1>19 DEF StartupSkips
<1>20. CASE StartupOver
  BY <1>20 DEF StartupOver
<1>21. CASE SignOut
  BY <1>21 DEF SignOut
<1>22. CASE CreateMarker
  BY <1>22 DEF CreateMarker
<1>23. CASE OpenToClear
  BY <1>23 DEF OpenToClear
<1>24. CASE ClearTokens
  BY <1>24 DEF ClearTokens
<1>25. CASE SignIn
  BY <1>25 DEF SignIn
<1>26. CASE StartupSignIn
  BY <1>26 DEF StartupSignIn
<1>27. CASE Authorize
  BY <1>27 DEF Authorize
<1>28. CASE CancelSignIn
  BY <1>28 DEF CancelSignIn
<1>29. CASE JoinTokens
  BY <1>29 DEF JoinTokens
<1>30. CASE OpenToGrant
  BY <1>30 DEF OpenToGrant
<1>31. CASE GrantTokens
  BY <1>31 DEF GrantTokens
<1>32. CASE SaveWithName
  BY <1>32 DEF SaveWithName
<1>33. CASE RemoveMarker
  BY <1>33 DEF RemoveMarker
<1>34. CASE Expire
  BY <1>34 DEF Expire
<1>35. CASE PowerLoss
  BY <1>35 DEF PowerLoss
<1>36. CASE UNCHANGED vars
  BY <1>36 DEF vars
<1> QED
  BY <1>1, <1>2, <1>3, <1>4, <1>5, <1>6, <1>7, <1>8, <1>9, <1>10, <1>11, <1>12, <1>13, <1>14,
     <1>15, <1>16, <1>17, <1>18, <1>19, <1>20, <1>21, <1>22, <1>23, <1>24, <1>25, <1>26, <1>27,
     <1>28, <1>29, <1>30, <1>31, <1>32, <1>33, <1>34, <1>35, <1>36 DEF Next, Background, Storage,
     Account

LEMMA NextPlace == ASSUME TokenType, ClientInv, PlaceInv, [Next]_vars PROVE PlaceInv'
<1> USE Files, NoTokenType DEF TokenType, ClientInv, PlaceInv, Writing, Undisturbed,
            card, background, storage, account, server, history, bounds, BgOff, BgNotStored, AcIdle, Fault, StorageReset
<1>1. CASE BgStart
  BY <1>1 DEF BgStart
<1>2. CASE BgRead
  BY <1>2 DEF BgRead
<1>3. CASE BgFinish
  BY <1>3 DEF BgFinish
<1>4. CASE BgRefresh
  BY <1>4 DEF BgRefresh
<1>5. CASE BgRefreshLost
  BY <1>5 DEF BgRefreshLost
<1>6. CASE BgCheckMarker
  BY <1>6 DEF BgCheckMarker
<1>7. CASE BgMerge
  BY <1>7 DEF BgMerge
<1>8. CASE BgPutAside
  BY <1>8 DEF BgPutAside
<1>9. CASE BgPublish
  BY <1>9 DEF BgPublish
<1>10. CASE BgRecheck
  BY <1>10 DEF BgRecheck
<1>11. CASE BgReread
  BY <1>11 DEF BgReread
<1>12. CASE FsConstruct
  BY <1>12 DEF FsConstruct
<1>13. CASE FsRefresh
  BY <1>13 DEF FsRefresh
<1>14. CASE FsSaveName
  BY <1>14 DEF FsSaveName
<1>15. CASE FsMerge
  BY <1>15 DEF FsMerge
<1>16. CASE FsOpenFile
  BY <1>16 DEF FsOpenFile
<1>17. CASE FsWrite
  <2>1. Holding(fsToken) \in Config
    BY HoldingType
  <2>2. /\ (file' = Holding(fsToken) /\ UNCHANGED faults) \/ (UNCHANGED file /\ faults' = faults + 1)
        /\ fs = "write" /\ fs' = "use" /\ UNCHANGED <<bak, bg, ac, crashes>>
    BY <1>17 DEF FsWrite, Holding
  <2> QED BY <2>1, <2>2
<1>18. CASE FsClose
  BY <1>18 DEF FsClose
<1>19. CASE StartupSkips
  BY <1>19 DEF StartupSkips
<1>20. CASE StartupOver
  BY <1>20 DEF StartupOver
<1>21. CASE SignOut
  BY <1>21 DEF SignOut
<1>22. CASE CreateMarker
  BY <1>22 DEF CreateMarker
<1>23. CASE OpenToClear
  BY <1>23 DEF OpenToClear
<1>24. CASE ClearTokens
  <2>1. /\ (file' = Cleared /\ UNCHANGED faults) \/ (UNCHANGED file /\ faults' = faults + 1)
        /\ ac = "clear" /\ ac' = "idle" /\ UNCHANGED <<bak, bg, fs, crashes>>
    BY <1>24 DEF ClearTokens
  <2> QED BY <2>1
<1>25. CASE SignIn
  BY <1>25 DEF SignIn
<1>26. CASE StartupSignIn
  BY <1>26 DEF StartupSignIn
<1>27. CASE Authorize
  BY <1>27 DEF Authorize
<1>28. CASE CancelSignIn
  BY <1>28 DEF CancelSignIn
<1>29. CASE JoinTokens
  BY <1>29 DEF JoinTokens
<1>30. CASE OpenToGrant
  BY <1>30 DEF OpenToGrant
<1>31. CASE GrantTokens
  <2>1. Holding(acToken) \in Config
    BY HoldingType
  <2>2. /\ (file' = Holding(acToken) /\ UNCHANGED faults) \/ (UNCHANGED file /\ faults' = faults + 1)
        /\ ac = "grant" /\ ac' \in {"unmark", "idle"} /\ UNCHANGED <<bak, bg, fs, crashes>>
    BY <1>31 DEF GrantTokens, Holding
  <2> QED BY <2>1, <2>2
<1>32. CASE SaveWithName
  BY <1>32 DEF SaveWithName
<1>33. CASE RemoveMarker
  BY <1>33 DEF RemoveMarker
<1>34. CASE Expire
  BY <1>34 DEF Expire
<1>35. CASE PowerLoss
  BY <1>35 DEF PowerLoss
<1>36. CASE UNCHANGED vars
  BY <1>36 DEF vars
<1> QED
  BY <1>1, <1>2, <1>3, <1>4, <1>5, <1>6, <1>7, <1>8, <1>9, <1>10, <1>11, <1>12, <1>13, <1>14,
     <1>15, <1>16, <1>17, <1>18, <1>19, <1>20, <1>21, <1>22, <1>23, <1>24, <1>25, <1>26, <1>27,
     <1>28, <1>29, <1>30, <1>31, <1>32, <1>33, <1>34, <1>35, <1>36 DEF Next, Background, Storage,
     Account

LEMMA NextStore == StoreInv /\ [Next]_vars => StoreInv'
BY NextType, NextClient, NextPlace DEF StoreInv

\* The store stays well-formed, under every interleaving, power loss and
\* failure: at most one program has the file open, and only the background
\* client's publication leaves it away.
THEOREM StoreInvariance == Spec => []StoreInv
BY InitStore, NextStore, PTL DEF Spec

\* No single failure makes the background client mislay the login file
\* (sysmodule/source/baidu.cpp, atomic_replace).
THEOREM ConfigKept == Spec => []ConfigNotMislaid
<1>1. StoreInv => ConfigNotMislaid
  <2> SUFFICES ASSUME StoreInv, Quiescent, crashes = 0 PROVE file # Missing
    BY DEF ConfigNotMislaid
  <2> QED BY DEF StoreInv, PlaceInv, Quiescent
<1> QED BY <1>1, StoreInvariance, PTL

-----------------------------------------------------------------------------
LEMMA InitOut == Init => SignOutInv
BY DEF Init, SignOutInv, TurnInv, OutInv

LEMMA NextTurn == ASSUME TokenType, TurnInv, [Next]_vars PROVE TurnInv'
<1> USE DEF TokenType, TurnInv, card, background, storage, account, server, history, bounds,
            AcIdle, StorageReset, FsTurn, AcTurn, SignedIn, MarkedOut, Readable
<1>1. CASE BgStart
  BY <1>1 DEF BgStart
<1>2. CASE BgRead
  BY <1>2 DEF BgRead
<1>3. CASE BgFinish
  BY <1>3 DEF BgFinish
<1>4. CASE BgRefresh
  BY <1>4 DEF BgRefresh
<1>5. CASE BgRefreshLost
  BY <1>5 DEF BgRefreshLost
<1>6. CASE BgCheckMarker
  BY <1>6 DEF BgCheckMarker
<1>7. CASE BgMerge
  BY <1>7 DEF BgMerge
<1>8. CASE BgPutAside
  BY <1>8 DEF BgPutAside
<1>9. CASE BgPublish
  BY <1>9 DEF BgPublish
<1>10. CASE BgRecheck
  BY <1>10 DEF BgRecheck
<1>11. CASE BgReread
  BY <1>11 DEF BgReread
<1>12. CASE FsConstruct
  BY <1>12 DEF FsConstruct
<1>13. CASE FsRefresh
  BY <1>13 DEF FsRefresh
<1>14. CASE FsSaveName
  BY <1>14 DEF FsSaveName
<1>15. CASE FsMerge
  BY <1>15 DEF FsMerge
<1>16. CASE FsOpenFile
  BY <1>16 DEF FsOpenFile
<1>17. CASE FsWrite
  BY <1>17 DEF FsWrite
<1>18. CASE FsClose
  BY <1>18 DEF FsClose
<1>19. CASE StartupSkips
  BY <1>19 DEF StartupSkips
<1>20. CASE StartupOver
  BY <1>20 DEF StartupOver
<1>21. CASE SignOut
  BY <1>21 DEF SignOut
<1>22. CASE CreateMarker
  BY <1>22 DEF CreateMarker
<1>23. CASE OpenToClear
  BY <1>23 DEF OpenToClear
<1>24. CASE ClearTokens
  BY <1>24 DEF ClearTokens
<1>25. CASE SignIn
  BY <1>25 DEF SignIn
<1>26. CASE StartupSignIn
  BY <1>26 DEF StartupSignIn
<1>27. CASE Authorize
  BY <1>27 DEF Authorize
<1>28. CASE CancelSignIn
  BY <1>28 DEF CancelSignIn
<1>29. CASE JoinTokens
  BY <1>29 DEF JoinTokens
<1>30. CASE OpenToGrant
  BY <1>30 DEF OpenToGrant
<1>31. CASE GrantTokens
  BY <1>31 DEF GrantTokens
<1>32. CASE SaveWithName
  BY <1>32 DEF SaveWithName
<1>33. CASE RemoveMarker
  BY <1>33 DEF RemoveMarker
<1>34. CASE Expire
  BY <1>34 DEF Expire
<1>35. CASE PowerLoss
  BY <1>35 DEF PowerLoss
<1>36. CASE UNCHANGED vars
  BY <1>36 DEF vars
<1> QED
  BY <1>1, <1>2, <1>3, <1>4, <1>5, <1>6, <1>7, <1>8, <1>9, <1>10, <1>11, <1>12, <1>13, <1>14,
     <1>15, <1>16, <1>17, <1>18, <1>19, <1>20, <1>21, <1>22, <1>23, <1>24, <1>25, <1>26, <1>27,
     <1>28, <1>29, <1>30, <1>31, <1>32, <1>33, <1>34, <1>35, <1>36 DEF Next, Background, Storage,
     Account

LEMMA NextOut == ASSUME StoreInv, TurnInv, OutInv, [Next]_vars PROVE OutInv'
<1> USE Files, NoTokenType DEF StoreInv, TokenType, ClientInv, PlaceInv, TurnInv, OutInv, Undisturbed, Writing, Readable,
            card, background, storage, account, server, history, bounds, BgOff, BgNotStored, AcIdle, Fault, StorageReset
<1>1. CASE BgStart
  BY <1>1 DEF BgStart
<1>2. CASE BgRead
  BY <1>2 DEF BgRead
<1>3. CASE BgFinish
  BY <1>3 DEF BgFinish
<1>4. CASE BgRefresh
  BY <1>4 DEF BgRefresh
<1>5. CASE BgRefreshLost
  BY <1>5 DEF BgRefreshLost
<1>6. CASE BgCheckMarker
  BY <1>6 DEF BgCheckMarker
<1>7. CASE BgMerge
  BY <1>7 DEF BgMerge
<1>8. CASE BgPutAside
  BY <1>8 DEF BgPutAside
<1>9. CASE BgPublish
  BY <1>9 DEF BgPublish
<1>10. CASE BgRecheck
  BY <1>10 DEF BgRecheck
<1>11. CASE BgReread
  BY <1>11 DEF BgReread
<1>12. CASE FsConstruct
  BY <1>12 DEF FsConstruct
<1>13. CASE FsRefresh
  BY <1>13 DEF FsRefresh
<1>14. CASE FsSaveName
  BY <1>14 DEF FsSaveName
<1>15. CASE FsMerge
  BY <1>15 DEF FsMerge
<1>16. CASE FsOpenFile
  BY <1>16 DEF FsOpenFile
<1>17. CASE FsWrite
  <2>1. signedOut' = signedOut /\ UNCHANGED <<bg, bgWrite, ac>>
    BY <1>17 DEF FsWrite
  <2>2. CASE ~Fault
    <3>1. signedOut => resaved'
      BY <1>17, <2>2, Zenon DEF FsWrite
    <3> QED BY <2>1, <3>1
  <2>3. CASE Fault /\ ~(resaved' = (resaved \/ signedOut \/ fsToken.login # logins))
    <3>1. UNCHANGED <<file, resaved>> /\ faults' = faults + 1
      BY <1>17, <2>3 DEF FsWrite
    <3> QED BY <2>1, <3>1
  <2>4. CASE resaved' = (resaved \/ signedOut \/ fsToken.login # logins)
    BY <2>1, <2>4
  <2> QED BY <2>2, <2>3, <2>4
<1>18. CASE FsClose
  BY <1>18 DEF FsClose
<1>19. CASE StartupSkips
  BY <1>19 DEF StartupSkips
<1>20. CASE StartupOver
  BY <1>20 DEF StartupOver
<1>21. CASE SignOut
  BY <1>21 DEF SignOut, SignedIn, MarkedOut
<1>22. CASE CreateMarker
  BY <1>22 DEF CreateMarker
<1>23. CASE OpenToClear
  BY <1>23 DEF OpenToClear
<1>24. CASE ClearTokens
  BY <1>24 DEF ClearTokens
<1>25. CASE SignIn
  BY <1>25 DEF SignIn
<1>26. CASE StartupSignIn
  BY <1>26 DEF StartupSignIn
<1>27. CASE Authorize
  BY <1>27 DEF Authorize
<1>28. CASE CancelSignIn
  BY <1>28 DEF CancelSignIn
<1>29. CASE JoinTokens
  BY <1>29 DEF JoinTokens
<1>30. CASE OpenToGrant
  BY <1>30 DEF OpenToGrant
<1>31. CASE GrantTokens
  BY <1>31 DEF GrantTokens
<1>32. CASE SaveWithName
  BY <1>32 DEF SaveWithName
<1>33. CASE RemoveMarker
  BY <1>33 DEF RemoveMarker
<1>34. CASE Expire
  BY <1>34 DEF Expire
<1>35. CASE PowerLoss
  BY <1>35 DEF PowerLoss
<1>36. CASE UNCHANGED vars
  BY <1>36 DEF vars
<1> QED
  BY <1>1, <1>2, <1>3, <1>4, <1>5, <1>6, <1>7, <1>8, <1>9, <1>10, <1>11, <1>12, <1>13, <1>14,
     <1>15, <1>16, <1>17, <1>18, <1>19, <1>20, <1>21, <1>22, <1>23, <1>24, <1>25, <1>26, <1>27,
     <1>28, <1>29, <1>30, <1>31, <1>32, <1>33, <1>34, <1>35, <1>36 DEF Next, Background, Storage,
     Account

LEMMA SignOutInvariance == Spec => [](StoreInv /\ SignOutInv)
<1>1. StoreInv /\ SignOutInv /\ [Next]_vars => SignOutInv'
  BY NextTurn, NextOut DEF SignOutInv, StoreInv
<1> QED BY <1>1, InitStore, InitOut, NextStore, PTL DEF Spec

\* Once signed out, no program picks up a token until the user signs in again
\* (the marker, load_config and save_tokens of sysmodule/source/baidu.cpp,
\* sign_out_baidu_netdisk of source/remote/remote.cpp); the one save that can
\* bring tokens back is of remote::initialize (BaiduNetdisk.cpp:891).
THEOREM SignOutHolds == Spec => SignedOutHolds
<1>1. ASSUME StoreInv, SignOutInv, [Next]_vars
      PROVE  [signedOut /\ signedOut' /\ ~resaved => /\ bg = "read" => bgToken' = NoToken
                                                     /\ fs = "off" => fs' = "off"
                                                     /\ resaved' => startup = "run"]_vars
  <2> SUFFICES ASSUME Next, signedOut, signedOut', ~resaved
               PROVE  /\ bg = "read" => bgToken' = NoToken
                      /\ fs = "off" => fs' = "off"
                      /\ resaved' => startup = "run"
    BY <1>1
  <2>1. TokenType /\ ClientInv /\ TurnInv /\ OutInv
    BY <1>1 DEF StoreInv, SignOutInv
  <2>2. bg = "read" => bgToken' = NoToken
    <3> SUFFICES ASSUME bg = "read" PROVE bgToken' = NoToken
      OBVIOUS
    <3>1. bgToken = NoToken /\ (Readable => file.out)
      BY <2>1, Files DEF ClientInv, OutInv, Readable, Cleared
    <3>2. CASE Background
      BY <3>1, <3>2 DEF Background, BgStart, BgRead, BgFinish, BgRefresh, BgRefreshLost,
         BgCheckMarker, BgMerge,
                        BgPutAside, BgPublish, BgRecheck, BgReread, BgOff, BgNotStored
    <3>3. CASE Storage
      BY <3>1, <3>3 DEF Storage, StartupSkips, StartupOver, FsConstruct, FsRefresh, FsSaveName, FsMerge, FsOpenFile,
         FsWrite, FsClose, background
    <3>4. CASE Account
      BY <3>1, <3>4 DEF Account, SignOut, CreateMarker, OpenToClear, ClearTokens, SignIn, StartupSignIn,
         Authorize, CancelSignIn,
                        JoinTokens, OpenToGrant, GrantTokens, SaveWithName, RemoveMarker, background
    <3>5. CASE Expire \/ PowerLoss
      BY <3>1, <3>5 DEF Expire, PowerLoss, background
    <3> QED BY <3>2, <3>3, <3>4, <3>5 DEF Next
  <2>3. fs = "off" => fs' = "off"
    <3> SUFFICES ASSUME fs = "off" PROVE fs' = "off"
      OBVIOUS
    <3>1. marker /\ ac # "unmark"
      BY <2>1 DEF TurnInv
    <3>2. CASE Background
      BY <3>2 DEF Background, BgStart, BgRead, BgFinish, BgRefresh, BgRefreshLost,
         BgCheckMarker, BgMerge,
                  BgPutAside, BgPublish, BgRecheck, BgReread, storage
    <3>3. CASE Storage
      BY <3>1, <3>3 DEF Storage, StartupSkips, StartupOver, FsConstruct, FsRefresh, FsSaveName, FsMerge, FsOpenFile,
         FsWrite, FsClose, MarkedOut
    <3>4. CASE Account
      BY <3>1, <3>4 DEF Account, SignOut, CreateMarker, OpenToClear, ClearTokens, SignIn, StartupSignIn,
         Authorize, CancelSignIn,
                        JoinTokens, OpenToGrant, GrantTokens, SaveWithName, RemoveMarker, storage, StorageReset
    <3>5. CASE Expire \/ PowerLoss
      BY <3>5 DEF Expire, PowerLoss, storage
    <3> QED BY <3>2, <3>3, <3>4, <3>5 DEF Next
  <2>4. resaved' => startup = "run"
    <3> SUFFICES ASSUME resaved' PROVE startup = "run"
      OBVIOUS
    <3>1. CASE Background
      BY <3>1 DEF Background, BgStart, BgRead, BgFinish, BgRefresh, BgRefreshLost,
         BgCheckMarker, BgMerge, BgPutAside, BgPublish, BgRecheck, BgReread, history
    <3>2. CASE FsWrite
      BY <2>1, <3>2 DEF FsWrite, TurnInv
    <3>3. CASE Storage /\ ~FsWrite
      BY <3>3 DEF Storage, StartupSkips, StartupOver, FsConstruct, FsRefresh, FsSaveName,
         FsMerge, FsOpenFile, FsClose, history
    <3>4. CASE Account
      BY <3>4 DEF Account, SignOut, CreateMarker, OpenToClear, ClearTokens, SignIn,
         StartupSignIn, Authorize, CancelSignIn, JoinTokens, OpenToGrant, GrantTokens,
         SaveWithName, RemoveMarker, history
    <3>5. CASE Expire \/ PowerLoss
      BY <3>5 DEF Expire, PowerLoss, history
    <3> QED BY <3>1, <3>2, <3>3, <3>4, <3>5 DEF Next
  <2> QED BY <2>2, <2>3, <2>4
<1> QED BY <1>1, SignOutInvariance, PTL DEF Spec, SignedOutHolds

\* A sign-out without a failure leaves no token in the file, whatever the
\* background client had in flight (README.MD:147); what the start-up of JKSV
\* had, where it does not write after the sign-out.
THEOREM SignOutCleans == Spec => []CleanAfterSignOut
<1>1. StoreInv /\ SignOutInv => CleanAfterSignOut
  <2> SUFFICES ASSUME StoreInv, SignOutInv, signedOut, ~resaved, Quiescent, faults = 0, crashes = 0
               PROVE  Readable /\ file.token = NoToken
    BY DEF CleanAfterSignOut
  <2>1. file = Cleared
    BY DEF SignOutInv, OutInv, Quiescent, Undisturbed
  <2> QED BY <2>1, NoTokenType DEF Readable, Cleared
<1> QED BY <1>1, SignOutInvariance, PTL

-----------------------------------------------------------------------------
LEMMA TokenParts ==
  /\ \A t \in Token : t.login \in 0..MaxLogins /\ t.serial \in 0..MaxRefreshes
  /\ \A c \in Config : c.token \in Token
  /\ NoToken.login = 0 /\ NoToken.serial = 0 /\ Cleared.token = NoToken /\ Cleared.out
BY DEF Token, Config, NoToken, Cleared

\* What was not disturbed up to a step is not disturbed by it.
LEMMA Calm ==
  ASSUME TokenType, [Next]_vars, Undisturbed'
  PROVE  Undisturbed /\ ~Fault /\ ~PowerLoss
<1>1. crashes \in Nat /\ faults \in Nat
  BY DEF TokenType
<1>2. ~Fault /\ ~PowerLoss
  BY <1>1 DEF Fault, PowerLoss, Undisturbed
<1>3. faults' \in {faults, faults + 1} /\ crashes' \in {crashes, crashes + 1}
  <2> USE DEF bounds, Fault
  <2>1. CASE BgStart
    BY <2>1 DEF BgStart
  <2>2. CASE BgRead
    BY <2>2 DEF BgRead
  <2>3. CASE BgFinish
    BY <2>3 DEF BgFinish
  <2>4. CASE BgRefresh
    BY <2>4 DEF BgRefresh
  <2>5. CASE BgRefreshLost
    BY <2>5 DEF BgRefreshLost
  <2>6. CASE BgCheckMarker
    BY <2>6 DEF BgCheckMarker
  <2>7. CASE BgMerge
    BY <2>7 DEF BgMerge
  <2>8. CASE BgPutAside
    BY <2>8 DEF BgPutAside
  <2>9. CASE BgPublish
    BY <2>9 DEF BgPublish
  <2>10. CASE BgRecheck
    BY <2>10 DEF BgRecheck
  <2>11. CASE BgReread
    BY <2>11 DEF BgReread
  <2>12. CASE FsConstruct
    BY <2>12 DEF FsConstruct
  <2>13. CASE FsRefresh
    BY <2>13 DEF FsRefresh
  <2>14. CASE FsSaveName
    BY <2>14 DEF FsSaveName
  <2>15. CASE FsMerge
    BY <2>15 DEF FsMerge
  <2>16. CASE FsOpenFile
    BY <2>16 DEF FsOpenFile
  <2>17. CASE FsWrite
    BY <2>17 DEF FsWrite
  <2>18. CASE FsClose
    BY <2>18 DEF FsClose
  <2>19. CASE StartupSkips
    BY <2>19 DEF StartupSkips
  <2>20. CASE StartupOver
    BY <2>20 DEF StartupOver
  <2>21. CASE SignOut
    BY <2>21 DEF SignOut
  <2>22. CASE CreateMarker
    BY <2>22 DEF CreateMarker
  <2>23. CASE OpenToClear
    BY <2>23 DEF OpenToClear
  <2>24. CASE ClearTokens
    BY <2>24 DEF ClearTokens
  <2>25. CASE SignIn
    BY <2>25 DEF SignIn
  <2>26. CASE StartupSignIn
    BY <2>26 DEF StartupSignIn
  <2>27. CASE Authorize
    BY <2>27 DEF Authorize
  <2>28. CASE CancelSignIn
    BY <2>28 DEF CancelSignIn
  <2>29. CASE JoinTokens
    BY <2>29 DEF JoinTokens
  <2>30. CASE OpenToGrant
    BY <2>30 DEF OpenToGrant
  <2>31. CASE GrantTokens
    BY <2>31 DEF GrantTokens
  <2>32. CASE SaveWithName
    BY <2>32 DEF SaveWithName
  <2>33. CASE RemoveMarker
    BY <2>33 DEF RemoveMarker
  <2>34. CASE Expire
    BY <2>34 DEF Expire
  <2>35. CASE PowerLoss
    BY <2>35 DEF PowerLoss
  <2>36. CASE UNCHANGED vars
    BY <2>36 DEF vars
  <2> QED
    BY <2>1, <2>2, <2>3, <2>4, <2>5, <2>6, <2>7, <2>8, <2>9, <2>10, <2>11, <2>12, <2>13,
       <2>14, <2>15, <2>16, <2>17, <2>18, <2>19, <2>20, <2>21, <2>22, <2>23, <2>24, <2>25, <2>26, <2>27, <2>28,
       <2>29, <2>30, <2>31, <2>32, <2>33, <2>34, <2>35, <2>36 DEF Next, Background, Storage,
       Account
<1> QED BY <1>1, <1>2, <1>3 DEF Undisturbed

LEMMA InitRenew == Init => RenewInv
<1> SUFFICES ASSUME Init PROVE RenewInv
  OBVIOUS
<1>1. /\ file \in Config /\ ~file.out /\ file.token.login \in 0..1 /\ file.token.serial = 0 /\ 1 \in 1..MaxLogins
      /\ file.token.login = 0 => file.token = NoToken
  BY Bounds, TokenBounds DEF Init, Config, Token, NoToken
<1>2. KnownInv
  <2>1. Known(file.token)
    BY <1>1 DEF Init, Known
  <2>2. Known(NoToken)
    BY DEF Known
  <2> QED BY <2>1, <2>2 DEF Init, KnownInv
<1>3. StoredInv
  BY <1>1 DEF Init, StoredInv, Stored, Accepts
<1> QED
  BY <1>1, <1>2, <1>3 DEF Init, RenewInv, CleanFile, GrantInv, Granting, RenewingInv,
     Renewing, UnmarkInv

LEMMA NextCleanFile ==
  ASSUME TokenType, ClientInv, CleanFile, [Next]_vars, ~Fault PROVE CleanFile'
<1> USE Files, HoldingType DEF TokenType, ClientInv, CleanFile, card
<1>1. CASE BgStart
  BY <1>1 DEF BgStart
<1>2. CASE BgRead
  BY <1>2 DEF BgRead
<1>3. CASE BgFinish
  BY <1>3 DEF BgFinish
<1>4. CASE BgRefresh
  BY <1>4 DEF BgRefresh
<1>5. CASE BgRefreshLost
  BY <1>5 DEF BgRefreshLost
<1>6. CASE BgCheckMarker
  BY <1>6 DEF BgCheckMarker
<1>7. CASE BgMerge
  BY <1>7 DEF BgMerge
<1>8. CASE BgPutAside
  BY <1>8 DEF BgPutAside
<1>9. CASE BgPublish
  BY <1>9 DEF BgPublish
<1>10. CASE BgRecheck
  BY <1>10 DEF BgRecheck
<1>11. CASE BgReread
  BY <1>11 DEF BgReread
<1>12. CASE FsConstruct
  BY <1>12 DEF FsConstruct
<1>13. CASE FsRefresh
  BY <1>13 DEF FsRefresh
<1>14. CASE FsSaveName
  BY <1>14 DEF FsSaveName
<1>15. CASE FsMerge
  BY <1>15 DEF FsMerge
<1>16. CASE FsOpenFile
  BY <1>16 DEF FsOpenFile
<1>17. CASE FsWrite
  <2>1. file' \in {file, Holding(fsToken)}
    BY <1>17 DEF FsWrite, Holding
  <2> QED BY <2>1
<1>18. CASE FsClose
  BY <1>18 DEF FsClose
<1>19. CASE StartupSkips
  BY <1>19 DEF StartupSkips
<1>20. CASE StartupOver
  BY <1>20 DEF StartupOver
<1>21. CASE SignOut
  BY <1>21 DEF SignOut
<1>22. CASE CreateMarker
  BY <1>22 DEF CreateMarker
<1>23. CASE OpenToClear
  BY <1>23 DEF OpenToClear
<1>24. CASE ClearTokens
  BY <1>24 DEF ClearTokens
<1>25. CASE SignIn
  BY <1>25 DEF SignIn
<1>26. CASE StartupSignIn
  BY <1>26 DEF StartupSignIn
<1>27. CASE Authorize
  BY <1>27 DEF Authorize
<1>28. CASE CancelSignIn
  BY <1>28 DEF CancelSignIn
<1>29. CASE JoinTokens
  BY <1>29 DEF JoinTokens
<1>30. CASE OpenToGrant
  BY <1>30 DEF OpenToGrant
<1>31. CASE GrantTokens
  <2>1. file' \in {file, Holding(acToken)}
    BY <1>31 DEF GrantTokens, Holding
  <2> QED BY <2>1
<1>32. CASE SaveWithName
  BY <1>32 DEF SaveWithName
<1>33. CASE RemoveMarker
  BY <1>33 DEF RemoveMarker
<1>34. CASE Expire
  BY <1>34 DEF Expire
<1>35. CASE PowerLoss
  BY <1>35 DEF PowerLoss
<1>36. CASE UNCHANGED vars
  BY <1>36 DEF vars, card, background, storage, account, server, history, bounds
<1> QED
  BY <1>1, <1>2, <1>3, <1>4, <1>5, <1>6, <1>7, <1>8, <1>9, <1>10, <1>11, <1>12, <1>13, <1>14,
     <1>15, <1>16, <1>17, <1>18, <1>19, <1>20, <1>21, <1>22, <1>23, <1>24, <1>25, <1>26, <1>27,
     <1>28, <1>29, <1>30, <1>31, <1>32, <1>33, <1>34, <1>35, <1>36 DEF Next, Background, Storage,
     Account

\* The drive changes in four steps alone.
LEMMA DriveSteps ==
  ASSUME [Next]_vars
  PROVE  UNCHANGED <<live, logins>> \/ BgRefresh \/ BgRefreshLost \/ FsRefresh \/ Authorize
<1> USE DEF server
<1>1. CASE Background
  BY <1>1 DEF Background, BgStart, BgRead, BgFinish, BgCheckMarker, BgMerge, BgPutAside,
     BgPublish, BgRecheck, BgReread
<1>2. CASE Storage
  BY <1>2 DEF Storage, StartupSkips, StartupOver, FsConstruct, FsSaveName, FsMerge, FsOpenFile, FsWrite, FsClose
<1>3. CASE Account
  BY <1>3 DEF Account, SignOut, CreateMarker, OpenToClear, ClearTokens, SignIn, StartupSignIn, CancelSignIn,
     JoinTokens,
              OpenToGrant, GrantTokens, SaveWithName, RemoveMarker
<1>4. CASE Expire \/ PowerLoss \/ UNCHANGED vars
  BY <1>4 DEF Expire, PowerLoss, vars
<1> QED BY <1>1, <1>2, <1>3, <1>4 DEF Next

\* Serials and logins only grow, in a renewal first.
LEMMA GrowsRenewing ==
  ASSUME TokenType, KnownInv, NEW token \in Token, NEW renewed, Renews(token, renewed), logins' = logins
  PROVE  \A l \in 1..MaxLogins : live[l] <= live'[l] /\ (l > logins' => live'[l] = 0)
<1> SUFFICES ASSUME NEW l \in 1..MaxLogins PROVE live[l] <= live'[l] /\ (l > logins' => live'[l] = 0)
  OBVIOUS
<1>1. logins \in Nat /\ l \in Nat /\ live[l] \in Nat /\ (l > logins => live[l] = 0)
  BY Bounds DEF TokenType, KnownInv
<1>2. CASE l = token.login
  <2>1. live[l] = token.serial /\ live'[l] = renewed.serial /\ l \in due
        /\ token.serial \in Nat /\ renewed.serial \in Nat /\ renewed.serial >= token.serial
    BY <1>2, Renewal, TokenParts, Bounds
  <2>2. l \in 1..logins
    BY <2>1 DEF TokenType
  <2> QED BY <1>1, <2>1, <2>2
<1>3. CASE l # token.login
  <2>1. live'[l] = live[l]
    BY <1>3, Renewal
  <2> QED BY <1>1, <2>1
<1> QED BY <1>2, <1>3

LEMMA Grows ==
  ASSUME TokenType, KnownInv, [Next]_vars
  PROVE  /\ logins <= logins'
         /\ \A l \in 1..MaxLogins : live[l] <= live'[l] /\ (l > logins' => live'[l] = 0)
<1>1. logins \in Nat /\ bgToken \in Token /\ fsToken \in Token
      /\ \A l \in 1..MaxLogins : l \in Nat /\ live[l] \in Nat /\ (l > logins => live[l] = 0)
  BY Bounds DEF TokenType, KnownInv
<1>2. CASE BgRefresh \/ BgRefreshLost \/ FsRefresh
  <2>1. logins' = logins
    BY <1>2 DEF BgRefresh, BgRefreshLost, FsRefresh
  <2>2. PICK token \in {bgToken, fsToken}, renewed \in Token : Renews(token, renewed)
    BY <1>2 DEF BgRefresh, BgRefreshLost, FsRefresh
  <2> QED BY <1>1, <2>1, <2>2, GrowsRenewing
<1>3. CASE Authorize
  <2>1. live' = live /\ logins' = logins + 1
    BY <1>3 DEF Authorize
  <2> QED BY <1>1, <2>1
<1>4. CASE UNCHANGED <<live, logins>>
  BY <1>1, <1>4
<1> QED BY <1>2, <1>3, <1>4, DriveSteps

\* How each token is replaced, and the file.
LEMMA BgTokens ==
  ASSUME [Next]_vars
  PROVE  BgRefresh \/ bgToken' \in {bgToken, NoToken} \/ (bg = "read" /\ Readable /\ bgToken' = file.token)
<1> USE DEF background, BgOff, BgNotStored
<1>1. CASE Background
  BY <1>1 DEF Background, BgStart, BgRead, BgFinish, BgRefreshLost, BgCheckMarker, BgMerge,
     BgPutAside, BgPublish, BgRecheck, BgReread
<1>2. CASE Storage
  BY <1>2 DEF Storage, StartupSkips, StartupOver, FsConstruct, FsRefresh, FsSaveName, FsMerge, FsOpenFile, FsWrite, FsClose
<1>3. CASE Account
  BY <1>3 DEF Account, SignOut, CreateMarker, OpenToClear, ClearTokens, SignIn, StartupSignIn, Authorize,
     CancelSignIn, JoinTokens, OpenToGrant, GrantTokens, SaveWithName, RemoveMarker
<1>4. CASE Expire \/ PowerLoss \/ UNCHANGED vars
  BY <1>4 DEF Expire, PowerLoss, vars
<1> QED BY <1>1, <1>2, <1>3, <1>4 DEF Next

LEMMA FsTokens ==
  ASSUME [Next]_vars
  PROVE  FsRefresh \/ fsToken' \in {fsToken, NoToken, acToken} \/ (Readable /\ fsToken' = file.token)
<1> USE DEF storage, StorageReset
<1>1. CASE Background
  BY <1>1 DEF Background, BgStart, BgRead, BgFinish, BgRefresh, BgRefreshLost, BgCheckMarker,
     BgMerge, BgPutAside, BgPublish, BgRecheck, BgReread
<1>2. CASE Storage
  BY <1>2 DEF Storage, StartupSkips, StartupOver, FsConstruct, FsSaveName, FsMerge, FsOpenFile, FsWrite, FsClose
<1>3. CASE Account
  BY <1>3 DEF Account, SignOut, CreateMarker, OpenToClear, ClearTokens, SignIn, StartupSignIn, Authorize,
     CancelSignIn, JoinTokens, OpenToGrant, GrantTokens, SaveWithName, RemoveMarker
<1>4. CASE Expire \/ PowerLoss \/ UNCHANGED vars
  BY <1>4 DEF Expire, PowerLoss, vars
<1> QED BY <1>1, <1>2, <1>3, <1>4 DEF Next

LEMMA AcTokens ==
  ASSUME [Next]_vars
  PROVE  Authorize \/ acToken' \in {acToken, NoToken}
<1> USE DEF account, AcIdle
<1>1. CASE Background
  BY <1>1 DEF Background, BgStart, BgRead, BgFinish, BgRefresh, BgRefreshLost, BgCheckMarker,
     BgMerge, BgPutAside, BgPublish, BgRecheck, BgReread
<1>2. CASE Storage
  BY <1>2 DEF Storage, StartupSkips, StartupOver, FsConstruct, FsRefresh, FsSaveName, FsMerge, FsOpenFile, FsWrite, FsClose
<1>3. CASE Account
  BY <1>3 DEF Account, SignOut, CreateMarker, OpenToClear, ClearTokens, SignIn, StartupSignIn, CancelSignIn,
     JoinTokens, OpenToGrant, GrantTokens, SaveWithName, RemoveMarker
<1>4. CASE Expire \/ PowerLoss \/ UNCHANGED vars
  BY <1>4 DEF Expire, PowerLoss, vars
<1> QED BY <1>1, <1>2, <1>3, <1>4 DEF Next

LEMMA FileSteps ==
  ASSUME TokenType, ClientInv, [Next]_vars, ~Fault
  PROVE  \/ file' \in {file, Missing, Torn, Cleared}
         \/ bg = "publish" /\ ~bgWrite.out /\ file' = bgWrite /\ bgWrite.token = bgToken /\ bg' = "recheck"
         \/ fs = "write" /\ file' = Holding(fsToken)
         \/ ac = "grant" /\ file' = Holding(acToken)
<1> USE DEF card, Holding, ClientInv
<1>1. CASE Background
  BY <1>1 DEF Background, BgStart, BgRead, BgFinish, BgRefresh, BgRefreshLost, BgCheckMarker,
     BgMerge, BgPutAside, BgPublish, BgRecheck, BgReread
<1>2. CASE Storage
  BY <1>2 DEF Storage, StartupSkips, StartupOver, FsConstruct, FsRefresh, FsSaveName, FsMerge, FsOpenFile, FsWrite, FsClose
<1>3. CASE Account
  BY <1>3 DEF Account, SignOut, CreateMarker, OpenToClear, ClearTokens, SignIn, StartupSignIn, Authorize,
     CancelSignIn, JoinTokens, OpenToGrant, GrantTokens, SaveWithName, RemoveMarker
<1>4. CASE Expire \/ PowerLoss \/ UNCHANGED vars
  BY <1>4 DEF Expire, PowerLoss, vars
<1> QED BY <1>1, <1>2, <1>3, <1>4 DEF Next

LEMMA NextKnown == ASSUME TokenType, ClientInv, KnownInv, [Next]_vars, ~Fault PROVE KnownInv'
<1> DEFINE Later(t) == t = NoToken \/ (t.login \in 1..logins' /\ t.serial <= live'[t.login])
<1>1. ASSUME NEW t \in Token, Known(t) PROVE Later(t)
  <2>1. CASE t # NoToken
    <3>1. /\ t.login \in 1..logins /\ t.login \in 1..MaxLogins /\ t.serial <= live[t.login]
          /\ live[t.login] \in Nat /\ live'[t.login] \in Nat /\ t.serial \in Nat
          /\ logins \in Nat /\ logins' \in Nat
      BY <1>1, <2>1, NextType, Bounds, TokenParts, SMTT(30) DEF Known, TokenType
    <3>2. logins <= logins' /\ live[t.login] <= live'[t.login]
      BY <3>1, Grows
    <3> QED BY <3>1, <3>2
  <2> QED BY <2>1
<1>2. /\ bgToken \in Token /\ fsToken \in Token /\ acToken \in Token
      /\ Readable => file.token \in Token
  BY TokenParts DEF TokenType, Readable
<1>3. /\ Later(bgToken) /\ Later(fsToken) /\ Later(acToken) /\ Later(NoToken)
      /\ Readable => Later(file.token)
  <2>1. Known(bgToken) /\ Known(fsToken) /\ Known(acToken) /\ (Readable => Known(file.token))
    BY DEF KnownInv, Readable
  <2> QED BY <1>1, <1>2, <2>1
<1>4. ASSUME NEW t \in Token, NEW renewed, Renews(t, renewed), logins' = logins PROVE Later(renewed)
  <2>1. renewed.login \in due /\ renewed \in Token /\ live'[renewed.login] = renewed.serial
    BY <1>4, Renewal
  <2>2. renewed.login \in 1..logins /\ renewed.serial \in Nat
    BY <2>1, TokenParts, Bounds DEF TokenType
  <2> QED BY <1>4, <2>1, <2>2
<1>5. Later(bgToken')
  <2>1. CASE BgRefresh
    <3>1. logins' = logins /\ Renews(bgToken, bgToken')
      BY <2>1 DEF BgRefresh
    <3> QED BY <1>2, <1>4, <3>1
  <2> QED BY <1>3, <2>1, BgTokens
<1>6. Later(fsToken')
  <2>1. CASE FsRefresh
    <3>1. logins' = logins /\ Renews(fsToken, fsToken')
      BY <2>1 DEF FsRefresh
    <3> QED BY <1>2, <1>4, <3>1
  <2> QED BY <1>3, <2>1, FsTokens
<1>7. Later(acToken')
  <2>1. CASE Authorize
    <3>1. logins' = logins + 1 /\ acToken' = [login |-> logins', serial |-> 0] /\ live' = live
      BY <2>1 DEF Authorize
    <3>2. logins \in Nat /\ logins' \in 1..MaxLogins
      BY <3>1, NextType, Bounds DEF TokenType
    <3>3. live'[logins'] \in Nat
      BY <3>1, <3>2, NextType, Bounds DEF TokenType
    <3> QED BY <3>1, <3>2, <3>3
  <2> QED BY <1>3, <2>1, AcTokens
<1>8. file' \in Config => Later(file'.token)
  <2>1. CASE file' = file
    BY <1>3, <2>1 DEF Readable
  <2>2. CASE file' \in {Missing, Torn, Cleared}
    BY <1>3, <2>2, Files, TokenParts
  <2>3. CASE file' = bgWrite /\ bgWrite.token = bgToken
    BY <1>3, <2>3
  <2>4. CASE file' \in {Holding(fsToken), Holding(acToken)}
    BY <1>2, <1>3, <2>4, HoldingType
  <2> QED BY <2>1, <2>2, <2>3, <2>4, FileSteps
<1>9. \A l \in 1..MaxLogins : l > logins' => live'[l] = 0
  BY Grows
<1> QED BY <1>5, <1>6, <1>7, <1>8, <1>9 DEF KnownInv, Known

LEMMA NextGrant ==
  ASSUME TokenType, KnownInv, GrantInv, [Next]_vars, ~Fault PROVE GrantInv'
<1> USE DEF GrantInv, Granting, Accepts, account, server, AcIdle, FsTurn
<1>1. CASE BgStart
  BY <1>1 DEF BgStart
<1>2. CASE BgRead
  BY <1>2 DEF BgRead
<1>3. CASE BgFinish
  BY <1>3 DEF BgFinish
<1>4. CASE BgRefresh
  <2> SUFFICES ASSUME Granting PROVE Accepts(acToken)' /\ (acToken.login \notin due)'
    BY <1>4 DEF BgRefresh
  <2>1. PICK t \in Token : Renews(bgToken, t) /\ acToken' = acToken
    BY <1>4 DEF BgRefresh
  <2>2. Accepts(acToken) /\ acToken.login \notin due /\ acToken.login \in 1..MaxLogins
    BY TokenParts, Bounds DEF TokenType
  <2>3. live'[acToken.login] = live[acToken.login] /\ due' \subseteq due
    BY <2>1, <2>2, Renewal DEF TokenType
  <2> QED BY <2>1, <2>2, <2>3
<1>5. CASE BgRefreshLost
  BY <1>5 DEF BgRefreshLost
<1>6. CASE BgCheckMarker
  BY <1>6 DEF BgCheckMarker
<1>7. CASE BgMerge
  BY <1>7 DEF BgMerge
<1>8. CASE BgPutAside
  BY <1>8 DEF BgPutAside
<1>9. CASE BgPublish
  BY <1>9 DEF BgPublish
<1>10. CASE BgRecheck
  BY <1>10 DEF BgRecheck
<1>11. CASE BgReread
  BY <1>11 DEF BgReread
<1>12. CASE FsConstruct
  BY <1>12 DEF FsConstruct
<1>13. CASE FsRefresh
  <2> SUFFICES ASSUME Granting PROVE Accepts(acToken)' /\ (acToken.login \notin due)'
    BY <1>13 DEF FsRefresh
  <2>1. PICK t \in Token : Renews(fsToken, t) /\ acToken' = acToken
    BY <1>13 DEF FsRefresh
  <2>2. Accepts(acToken) /\ acToken.login \notin due /\ acToken.login \in 1..MaxLogins
    BY TokenParts, Bounds DEF TokenType
  <2>3. live'[acToken.login] = live[acToken.login] /\ due' \subseteq due
    BY <2>1, <2>2, Renewal DEF TokenType
  <2> QED BY <2>1, <2>2, <2>3
<1>14. CASE FsSaveName
  BY <1>14 DEF FsSaveName
<1>15. CASE FsMerge
  BY <1>15 DEF FsMerge
<1>16. CASE FsOpenFile
  BY <1>16 DEF FsOpenFile
<1>17. CASE FsWrite
  BY <1>17 DEF FsWrite
<1>18. CASE FsClose
  BY <1>18 DEF FsClose
<1>19. CASE StartupSkips
  BY <1>19 DEF StartupSkips
<1>20. CASE StartupOver
  BY <1>20 DEF StartupOver
<1>21. CASE SignOut
  BY <1>21 DEF SignOut
<1>22. CASE CreateMarker
  BY <1>22 DEF CreateMarker
<1>23. CASE OpenToClear
  BY <1>23 DEF OpenToClear
<1>24. CASE ClearTokens
  BY <1>24 DEF ClearTokens
<1>25. CASE SignIn
  BY <1>25 DEF SignIn
<1>26. CASE StartupSignIn
  BY <1>26 DEF StartupSignIn
<1>27. CASE Authorize
  <2>1. /\ acToken'.login = logins + 1 /\ acToken'.serial = 0 /\ logins' = logins + 1 /\ live' = live /\ due' = due
        /\ logins < MaxLogins
    BY <1>27 DEF Authorize
  <2>2. logins + 1 \in 1..MaxLogins /\ logins + 1 > logins /\ logins + 1 \notin due /\ logins + 1 # 0
    BY <2>1, Bounds DEF TokenType
  <2>3. live[logins + 1] = 0
    BY <2>2 DEF KnownInv
  <2> QED BY <2>1, <2>2, <2>3
<1>28. CASE CancelSignIn
  BY <1>28 DEF CancelSignIn
<1>29. CASE JoinTokens
  BY <1>29 DEF JoinTokens
<1>30. CASE OpenToGrant
  BY <1>30 DEF OpenToGrant
<1>31. CASE GrantTokens
  BY <1>31 DEF GrantTokens
<1>32. CASE SaveWithName
  BY <1>32 DEF SaveWithName
<1>33. CASE RemoveMarker
  BY <1>33 DEF RemoveMarker
<1>34. CASE Expire
  BY <1>34 DEF Expire
<1>35. CASE PowerLoss
  BY <1>35 DEF PowerLoss
<1>36. CASE UNCHANGED vars
  BY <1>36 DEF vars, card, background, storage, account, server, history, bounds
<1> QED
  BY <1>1, <1>2, <1>3, <1>4, <1>5, <1>6, <1>7, <1>8, <1>9, <1>10, <1>11, <1>12, <1>13, <1>14,
     <1>15, <1>16, <1>17, <1>18, <1>19, <1>20, <1>21, <1>22, <1>23, <1>24, <1>25, <1>26, <1>27,
     <1>28, <1>29, <1>30, <1>31, <1>32, <1>33, <1>34, <1>35, <1>36 DEF Next, Background, Storage,
     Account

\* A renewal is under way since the drive answered it.
LEMMA RenewingSteps ==
  ASSUME [Next]_vars, Renewing'
  PROVE  BgRefresh \/ (Renewing /\ bgToken' = bgToken)
<1> USE DEF Renewing, background, BgOff, BgNotStored, Cleared
<1>1. CASE Background
  BY <1>1 DEF Background, BgStart, BgRead, BgFinish, BgRefreshLost, BgCheckMarker, BgMerge,
     BgPutAside, BgPublish, BgRecheck, BgReread
<1>2. CASE Storage
  BY <1>2 DEF Storage, StartupSkips, StartupOver, FsConstruct, FsRefresh, FsSaveName, FsMerge, FsOpenFile, FsWrite, FsClose
<1>3. CASE Account
  BY <1>3 DEF Account, SignOut, CreateMarker, OpenToClear, ClearTokens, SignIn, StartupSignIn, Authorize,
     CancelSignIn, JoinTokens, OpenToGrant, GrantTokens, SaveWithName, RemoveMarker
<1>4. CASE Expire \/ PowerLoss \/ UNCHANGED vars
  BY <1>4 DEF Expire, PowerLoss, vars
<1> QED BY <1>1, <1>2, <1>3, <1>4 DEF Next

LEMMA NextRenewing ==
  ASSUME TokenType, ClientInv, KnownInv, RenewingInv, [Next]_vars, ~Fault PROVE RenewingInv'
<1> SUFFICES ASSUME Renewing' PROVE /\ Accepts(bgToken)'
                                    /\ rotates' => /\ Behind(fsToken)' /\ Behind(acToken)'
                                                   /\ file' \in Config => Behind(file.token)'
  BY DEF RenewingInv
<1> DEFINE Under(t) == t.login = bgToken'.login => t.serial < bgToken'.serial
<1>1. /\ bgToken \in Token /\ fsToken \in Token /\ acToken \in Token /\ Bounds
      /\ Readable => file.token \in Token
  BY TokenParts, Bounds DEF TokenType, Readable
<1>2. rotates' = rotates
  <2> USE DEF server
  <2>1. CASE Background
    BY <2>1 DEF Background, BgStart, BgRead, BgFinish, BgRefresh, BgRefreshLost,
       BgCheckMarker, BgMerge, BgPutAside, BgPublish, BgRecheck, BgReread
  <2>2. CASE Storage
    BY <2>2 DEF Storage, StartupSkips, StartupOver, FsConstruct, FsRefresh, FsSaveName, FsMerge, FsOpenFile, FsWrite,
       FsClose
  <2>3. CASE Account
    BY <2>3 DEF Account, SignOut, CreateMarker, OpenToClear, ClearTokens, SignIn, StartupSignIn, Authorize,
       CancelSignIn, JoinTokens, OpenToGrant, GrantTokens, SaveWithName, RemoveMarker
  <2>4. CASE Expire \/ PowerLoss \/ UNCHANGED vars
    BY <2>4 DEF Expire, PowerLoss, vars
  <2> QED BY <2>1, <2>2, <2>3, <2>4 DEF Next
<1>3. CASE BgRefresh
  <2>1. Renews(bgToken, bgToken') /\ bgToken' \in Token /\ UNCHANGED <<storage, account, file, logins>>
    BY <1>3 DEF BgRefresh, card
  <2>2. /\ bgToken'.login = bgToken.login /\ bgToken.login # 0 /\ live[bgToken.login] = bgToken.serial
        /\ live'[bgToken.login] = bgToken'.serial
        /\ rotates => bgToken'.serial = bgToken.serial + 1
    BY <2>1, <1>1, Renewal, Bounds
  <2>3. ASSUME NEW t \in Token, Known(t), rotates PROVE Under(t)
    BY <2>2, <2>3, <1>1, TokenParts DEF Known
  <2>4. Known(fsToken) /\ Known(acToken) /\ (Readable => Known(file.token))
    BY DEF KnownInv, Readable
  <2> QED BY <1>1, <1>2, <2>1, <2>2, <2>3, <2>4 DEF Accepts, Behind, Readable, storage, account
<1>4. CASE Renewing /\ bgToken' = bgToken /\ ~BgRefresh
  <2>1. /\ Accepts(bgToken) /\ bgToken.login \in 1..MaxLogins /\ bgToken.login \in 1..logins
    BY <1>1, <1>4, TokenParts DEF RenewingInv, Accepts, KnownInv, Known
  <2>2. rotates => Under(fsToken) /\ Under(acToken) /\ Under(NoToken) /\ (Readable => Under(file.token))
    BY <1>4, <2>1, TokenParts DEF RenewingInv, Behind, Readable
  <2>3. ASSUME FsRefresh PROVE /\ live'[bgToken.login] = live[bgToken.login]
                               /\ rotates => Under(fsToken')
    <3>1. Renews(fsToken, fsToken') /\ fsToken' \in Token
      BY <2>3 DEF FsRefresh
    <3>2. CASE rotates
      <4>1. fsToken.login # bgToken.login
        BY <1>1, <1>4, <2>1, <2>2, <3>1, <3>2, Renewal, TokenParts DEF Accepts
      <4> QED BY <1>1, <1>4, <2>1, <3>1, <4>1, Renewal
    <3>3. CASE ~rotates
      BY <1>1, <3>1, <3>3, Renewal
    <3> QED BY <3>2, <3>3
  <2>4. Accepts(bgToken)'
    <3>1. live'[bgToken.login] = live[bgToken.login]
      BY <1>4, <2>3, DriveSteps DEF Authorize, BgRefreshLost
    <3> QED BY <1>4, <2>1, <3>1 DEF Accepts
  <2>5. rotates => Under(fsToken')
    BY <2>2, <2>3, FsTokens
  <2>6. rotates => Under(acToken')
    <3>1. CASE Authorize
      BY <1>1, <1>4, <2>1, <3>1, TokenParts DEF Authorize, TokenType
    <3> QED BY <2>2, <3>1, AcTokens
  <2>7. rotates /\ file' \in Config => Under(file'.token)
    <3>1. CASE file' = file
      BY <2>2, <3>1 DEF Readable
    <3>2. CASE file' \in {Missing, Torn, Cleared}
      BY <2>2, <3>2, Files, TokenParts
    <3>3. CASE file' \in {Holding(fsToken), Holding(acToken)}
      BY <1>1, <2>2, <3>3, HoldingType
    <3>4. bg' # "recheck"
      BY DEF Renewing
    <3> QED BY <3>1, <3>2, <3>3, <3>4, FileSteps
  <2> QED BY <1>2, <2>4, <2>5, <2>6, <2>7 DEF Behind
<1> QED BY <1>3, <1>4, RenewingSteps

LEMMA NextUnmark ==
  ASSUME TokenType, ClientInv, PlaceInv, TurnInv, CleanFile, KnownInv, GrantInv,
         RenewingInv, UnmarkInv, Undisturbed, [Next]_vars, ~Fault
  PROVE  UnmarkInv'
<1>0. ac = "unmark" /\ marker => /\ Writing <=> fs = "write"
                                 /\ file = Torn <=> fs = "write"
  BY DEF PlaceInv, Writing, Undisturbed
<1>1. /\ bg \in {"recheck", "reread"} => ~bgWrite.out /\ file # Missing
      /\ bgWrite.out => bgWrite = Cleared
  BY DEF ClientInv, PlaceInv, Undisturbed
<1> USE Files DEF UnmarkInv, ClientsOwn, Accepts, server, history, TokenType, card, background, storage, account, BgOff, BgNotStored, AcIdle, StorageReset, MarkedOut
<1>11. CASE BgStart
  BY <1>0, <1>1, <1>11 DEF BgStart
<1>12. CASE BgRead
  BY <1>0, <1>1, <1>12 DEF BgRead
<1>13. CASE BgFinish
  BY <1>0, <1>1, <1>13 DEF BgFinish
<1>14. CASE BgRefresh
  BY <1>0, <1>1, <1>14 DEF BgRefresh
<1>15. CASE BgRefreshLost
  BY <1>0, <1>1, <1>15 DEF BgRefreshLost
<1>16. CASE BgCheckMarker
  BY <1>0, <1>1, <1>16 DEF BgCheckMarker
<1>17. CASE BgMerge
  BY <1>0, <1>1, <1>17 DEF BgMerge
<1>18. CASE BgPutAside
  <2>1. CASE file' = Missing
    BY <1>18, <2>1 DEF BgPutAside
  <2>2. CASE Writing /\ UNCHANGED file
    <3>1. ac = "unmark" /\ marker => file = Torn /\ fs = "write"
      BY <1>0, <2>2
    <3>2. UNCHANGED <<marker, fs, ac>>
      BY <1>18 DEF BgPutAside
    <3> QED BY <2>2, <3>1, <3>2
  <2> QED BY <1>18, <2>1, <2>2 DEF BgPutAside
<1>19. CASE BgPublish
  <2>1. CASE file' = bgWrite /\ ~bgWrite.out /\ bg = "publish" /\ bg' = "recheck" /\ UNCHANGED bgToken
    <3>1. bgWrite = [token |-> bgToken, out |-> FALSE]
      BY <2>1 DEF ClientInv, Config
    <3>2. Accepts(bgToken) /\ (rotates => fsToken # bgToken)
      BY <2>1, TokenParts DEF RenewingInv, Renewing, Behind
    <3> QED BY <1>19, <2>1, <3>1, <3>2 DEF BgPublish
  <2> QED BY <1>0, <1>1, <1>19, <2>1 DEF BgPublish
<1>20. CASE BgRecheck
  BY <1>0, <1>1, <1>20 DEF BgRecheck
<1>21. CASE BgReread
  <2>1. CASE bgWrite' = Cleared /\ bg' = "aside" /\ UNCHANGED bgToken
    BY <1>21, <2>1 DEF BgReread
  <2>2. CASE ~Readable
    <3>1. ~ClientsOwn
      BY <2>2, HoldingType DEF Readable, Holding
    <3> QED BY <1>21, <2>2, <3>1 DEF BgReread
  <2> QED BY <1>21, <2>1, <2>2 DEF BgReread
<1>22. CASE FsConstruct
  BY <1>0, <1>1, <1>22 DEF FsConstruct
<1>23. CASE FsRefresh
  <2>1. Renews(fsToken, fsToken') /\ fsToken' \in Token /\ UNCHANGED <<card, background, account, history, rotates>>
    BY <1>23 DEF FsRefresh
  <2>2. fsToken'.login = fsToken.login /\ live[fsToken.login] = fsToken.serial /\ live'[fsToken'.login] = fsToken'.serial
    BY <2>1, Renewal
  <2>3. ASSUME ClientsOwn PROVE Accepts(bgToken)' /\ (rotates => fsToken' # bgToken)
    <3>1. CASE rotates
      <4>1. fsToken.login # bgToken.login
        BY <2>2, <2>3, <3>1 DEF Token
      <4> QED BY <2>1, <2>2, <2>3, <4>1, Renewal DEF Token
    <3>2. CASE ~rotates
      BY <2>1, <2>3, <3>2, Renewal
    <3> QED BY <3>1, <3>2
  <2>4. fs = "use" /\ fs' = "merge"
    BY <1>23 DEF FsRefresh
  <2> QED BY <1>0, <2>1, <2>3, <2>4
<1>24. CASE FsSaveName
  BY <1>0, <1>1, <1>24 DEF FsSaveName
<1>25. CASE FsMerge
  <2>1. ClientsOwn => fsToken' \in {fsToken, NoToken} /\ bgToken # NoToken
    BY <1>25, TokenParts DEF FsMerge
  <2> QED BY <1>0, <1>25, <2>1 DEF FsMerge
<1>26. CASE FsOpenFile
  BY <1>0, <1>1, <1>26 DEF FsOpenFile
<1>27. CASE FsWrite
  <2> SUFFICES ASSUME ~resaved', ac = "unmark", marker PROVE file' = [token |-> acToken, out |-> FALSE]
    BY <1>27 DEF FsWrite
  <2>1. file' = [token |-> fsToken, out |-> FALSE] /\ fsToken.login = logins
    BY <1>27 DEF FsWrite
  <2>2. acToken.login = logins /\ acToken.serial = 0 /\ live[logins] = 0 /\ logins # 0
    BY DEF GrantInv, Granting
  <2>3. fsToken.serial <= live[logins] /\ fsToken.serial \in Nat
    BY <2>1, <2>2, TokenParts, Bounds DEF KnownInv, Known
  <2>4. fsToken = acToken
    BY <2>1, <2>2, <2>3 DEF Token
  <2> QED BY <2>1, <2>4
<1>28. CASE FsClose
  BY <1>0, <1>1, <1>28 DEF FsClose
<1>29. CASE StartupSkips
  BY <1>0, <1>1, <1>29 DEF StartupSkips
<1>30. CASE StartupOver
  BY <1>0, <1>1, <1>30 DEF StartupOver
<1>31. CASE SignOut
  BY <1>0, <1>1, <1>31 DEF SignOut
<1>32. CASE CreateMarker
  BY <1>0, <1>1, <1>32 DEF CreateMarker
<1>33. CASE OpenToClear
  BY <1>0, <1>1, <1>33 DEF OpenToClear
<1>34. CASE ClearTokens
  BY <1>0, <1>1, <1>34 DEF ClearTokens
<1>35. CASE SignIn
  BY <1>0, <1>1, <1>35 DEF SignIn
<1>36. CASE StartupSignIn
  BY <1>0, <1>1, <1>36 DEF StartupSignIn
<1>37. CASE Authorize
  BY <1>0, <1>1, <1>37 DEF Authorize
<1>38. CASE CancelSignIn
  BY <1>0, <1>1, <1>38 DEF CancelSignIn
<1>39. CASE JoinTokens
  BY <1>0, <1>1, <1>39 DEF JoinTokens
<1>40. CASE OpenToGrant
  BY <1>0, <1>1, <1>40 DEF OpenToGrant
<1>41. CASE GrantTokens
  BY <1>0, <1>1, <1>41 DEF GrantTokens
<1>42. CASE SaveWithName
  BY <1>0, <1>1, <1>42 DEF SaveWithName
<1>43. CASE RemoveMarker
  BY <1>0, <1>1, <1>43 DEF RemoveMarker
<1>44. CASE Expire
  BY <1>0, <1>1, <1>44 DEF Expire
<1>45. CASE PowerLoss
  BY <1>0, <1>1, <1>45 DEF PowerLoss
<1>46. CASE UNCHANGED vars
  BY <1>0, <1>1, <1>46 DEF vars, card, background, storage, account, server, history, bounds
<1> QED
  BY <1>11, <1>12, <1>13, <1>14, <1>15, <1>16, <1>17, <1>18, <1>19, <1>20, <1>21, <1>22,
     <1>23, <1>24, <1>25, <1>26, <1>27, <1>28, <1>29, <1>30, <1>31, <1>32, <1>33, <1>34, <1>35, <1>36, <1>37, <1>38,
     <1>39, <1>40, <1>41, <1>42, <1>43, <1>44, <1>45, <1>46 DEF Next, Background, Storage,
     Account

\* Accepted, a token stays so under every renewal of another login.
LEMMA StillAccepted ==
  ASSUME TokenType, [Next]_vars, ~Fault, NEW t \in Token, Accepts(t),
         BgRefresh => bgToken.login # t.login, FsRefresh => fsToken.login # t.login
  PROVE  t.login # 0 /\ live'[t.login] = t.serial
<1>1. t.login \in 1..MaxLogins /\ t.login # 0 /\ live[t.login] = t.serial
  BY TokenParts, Bounds DEF Accepts
<1>2. CASE BgRefresh
  BY <1>1, <1>2, Renewal DEF BgRefresh, TokenType
<1>3. CASE FsRefresh
  BY <1>1, <1>3, Renewal DEF FsRefresh, TokenType
<1>4. CASE UNCHANGED live
  BY <1>1, <1>4
<1> QED BY <1>2, <1>3, <1>4, DriveSteps DEF Authorize, BgRefreshLost


\* A renewal in hand is given up, or written, by the background client alone;
\* one JKSV's storage object has by that object alone.
LEMMA Keepers ==
  ASSUME TurnInv, [Next]_vars, ~PowerLoss
  PROVE  /\ bg \in {"check", "merge", "aside"} => BgCheckMarker \/ BgMerge \/ BgPutAside \/ UNCHANGED background
         /\ fs \in {"merge", "open"} => FsMerge \/ FsOpenFile \/ UNCHANGED <<fs, fsToken>>
         /\ marker /\ ac # "unmark" => marker' /\ (GrantTokens \/ ac' # "unmark")
<1>1. CASE Background
  <2>1. UNCHANGED <<storage, ac, marker>>
    BY <1>1 DEF Background, BgStart, BgRead, BgFinish, BgRefresh, BgRefreshLost,
       BgCheckMarker, BgMerge, BgPutAside, BgPublish, BgRecheck, BgReread, card, account
  <2>2. bg \in {"check", "merge", "aside"} => BgCheckMarker \/ BgMerge \/ BgPutAside
    BY <1>1 DEF Background, BgStart, BgRead, BgFinish, BgRefresh, BgRefreshLost, BgPublish,
       BgRecheck, BgReread
  <2> QED BY <2>1, <2>2 DEF storage
<1>2. CASE Storage
  <2>1. UNCHANGED <<background, ac, marker>>
    BY <1>2 DEF Storage, StartupSkips, StartupOver, FsConstruct, FsRefresh, FsSaveName, FsMerge, FsOpenFile, FsWrite,
       FsClose, card, account
  <2>2. fs \in {"merge", "open"} => FsMerge \/ FsOpenFile \/ UNCHANGED <<fs, fsToken>>
    BY <1>2, <2>1 DEF Storage, StartupSkips, StartupOver, FsConstruct, FsRefresh, FsSaveName, FsWrite, FsClose
  <2> QED BY <2>1, <2>2
<1>3. CASE Account
  <2>1. UNCHANGED background
    BY <1>3 DEF Account, SignOut, CreateMarker, OpenToClear, ClearTokens, SignIn, StartupSignIn, Authorize,
       CancelSignIn, JoinTokens, OpenToGrant, GrantTokens, SaveWithName, RemoveMarker
  <2>2. fs \in {"merge", "open"} => UNCHANGED <<fs, fsToken>>
    BY <1>3 DEF TurnInv, AcTurn, storage, StorageReset, Account, SignOut, CreateMarker,
       OpenToClear, ClearTokens, SignIn, StartupSignIn, Authorize, CancelSignIn, JoinTokens, OpenToGrant,
       GrantTokens, SaveWithName, RemoveMarker
  <2>3. GrantTokens \/ ac' # "unmark" \/ (ac' = ac /\ UNCHANGED <<marker>>)
    BY <1>3 DEF Account, SignOut, CreateMarker, OpenToClear, ClearTokens, SignIn, StartupSignIn, Authorize,
       CancelSignIn, JoinTokens, OpenToGrant, SaveWithName, RemoveMarker, account, AcIdle
  <2>4. ac # "unmark" => marker' = marker \/ marker' = TRUE
    BY <1>3 DEF Account, SignOut, CreateMarker, OpenToClear, ClearTokens, SignIn, StartupSignIn, Authorize,
       CancelSignIn, JoinTokens, OpenToGrant, GrantTokens, SaveWithName, RemoveMarker, card
  <2> QED BY <2>1, <2>2, <2>3, <2>4
<1>4. CASE Expire \/ UNCHANGED vars
  BY <1>4 DEF Expire, vars, storage, background, account, card
<1> QED BY <1>1, <1>2, <1>3, <1>4 DEF Next

LEMMA NextStored ==
  ASSUME StoreInv, TurnInv, CleanFile, GrantInv, RenewingInv, UnmarkInv, StoredInv,
         Undisturbed, [Next]_vars, ~Fault, ~PowerLoss
  PROVE  StoredInv'
<1> SUFFICES ASSUME ~stale', ~resaved', file' \in Config, file'.token.login # 0 PROVE Stored(file.token)'
  BY DEF StoredInv
<1>1. TokenType /\ ClientInv /\ PlaceInv /\ bgToken \in Token /\ fsToken \in Token /\ acToken \in Token
  BY DEF StoreInv, TokenType
<1>2. CASE FsWrite
  <2>1. file' = Holding(fsToken) /\ stale' = ~Accepts(fsToken) /\ live' = live
    BY <1>2 DEF FsWrite, Holding, server
  <2> QED BY <1>1, <2>1, HoldingType DEF Stored, Accepts
<1>3. CASE GrantTokens
  <2>1. file' = Holding(acToken) /\ stale' = ~Accepts(acToken) /\ live' = live
    BY <1>3 DEF GrantTokens, Holding, server
  <2> QED BY <1>1, <2>1, HoldingType DEF Stored, Accepts
<1>4. CASE BgPublish /\ file = Missing
  <2>1. file' = bgWrite /\ bg = "publish" /\ live' = live
    BY <1>4 DEF BgPublish, server
  <2>2. ~bgWrite.out /\ bgWrite.token = bgToken
    BY <1>1, <2>1, TokenParts DEF ClientInv
  <2>3. Accepts(bgToken)
    BY <2>1, <2>2 DEF RenewingInv, Renewing
  <2> QED BY <2>1, <2>2, <2>3 DEF Stored, Accepts
<1>5. CASE ~FsWrite /\ ~GrantTokens /\ ~(BgPublish /\ file = Missing)
  <2>1. file' \in {file, Missing, Torn, Cleared} /\ stale' = stale /\ (resaved' = resaved \/ file' = Cleared)
    <3> USE <1>5 DEF card, history
    <3>1. CASE Background
      BY <3>1 DEF Background, BgStart, BgRead, BgFinish, BgRefresh, BgRefreshLost,
         BgCheckMarker, BgMerge, BgPutAside, BgPublish, BgRecheck, BgReread
    <3>2. CASE Storage
      BY <3>2 DEF Storage, StartupSkips, StartupOver, FsConstruct, FsRefresh, FsSaveName, FsMerge, FsOpenFile, FsClose
    <3>3. CASE Account
      BY <3>3 DEF Account, SignOut, CreateMarker, OpenToClear, ClearTokens, SignIn, StartupSignIn,
         Authorize, CancelSignIn, JoinTokens, OpenToGrant, SaveWithName, RemoveMarker
    <3>4. CASE Expire \/ UNCHANGED vars
      BY <3>4 DEF Expire, vars
    <3> QED BY <3>1, <3>2, <3>3, <3>4 DEF Next
  <2>2. file' = file /\ Readable /\ ~file.out /\ Stored(file.token) /\ file.token \in Token
    BY <2>1, Files, TokenParts DEF StoredInv, CleanFile, Readable
  <2>3. CASE BgRefresh /\ bgToken.login = file.token.login
    <3>1. bg' = "check" /\ bgToken'.login = bgToken.login
      BY <1>1, <2>3, Renewal DEF BgRefresh
    <3> QED BY <2>2, <2>3, <3>1 DEF Stored
  <2>4. CASE FsRefresh /\ fsToken.login = file.token.login
    <3>1. Renews(fsToken, fsToken') /\ fsToken' \in Token /\ fs' = "merge"
      BY <1>1, <2>4 DEF FsRefresh
    <3>2. fsToken'.login = fsToken.login /\ fsToken'.login # 0 /\ live'[fsToken'.login] = fsToken'.serial
      BY <1>1, <3>1, Renewal, Bounds
    <3> QED BY <2>2, <2>4, <3>1, <3>2 DEF Stored, Accepts
  <2>5. CASE /\ BgRefresh => bgToken.login # file.token.login
             /\ FsRefresh => fsToken.login # file.token.login
    <3>1. CASE Accepts(file.token)
      <4>1. live'[file.token.login] = file.token.serial
        BY <1>1, <2>2, <2>5, <3>1, StillAccepted
      <4> QED BY <2>2, <4>1 DEF Stored, Accepts
    <3>2. CASE bg \in {"check", "merge", "aside"} /\ ~(bg = "aside" /\ bgWrite.out) /\ bgToken.login = file.token.login
      <4>1. CASE BgCheckMarker
        <5>1. CASE marker /\ ac = "unmark"
          <6>1. bg = "check" /\ live' = live
            BY <4>1 DEF BgCheckMarker, server
          <6>2. file = Holding(acToken)
            BY <2>1, <2>2, <5>1, <6>1, Files, TokenParts DEF UnmarkInv, ClientsOwn, Readable, Holding
          <6>3. Accepts(acToken) /\ file.token = acToken
            BY <1>1, <5>1, <6>2, HoldingType DEF GrantInv, Granting
          <6> QED BY <2>2, <6>1, <6>3 DEF Stored, Accepts
        <5>2. CASE marker /\ ac # "unmark"
          BY <4>1, <5>2 DEF BgCheckMarker, Stored, card, account
        <5>3. CASE ~marker
          BY <2>2, <3>2, <4>1, <5>3 DEF BgCheckMarker, Stored
        <5> QED BY <5>1, <5>2, <5>3
      <4>2. CASE BgMerge
        <5>1. bg' = "aside" /\ ~bgWrite'.out /\ bgToken' = bgToken
          BY <2>2, <4>2 DEF BgMerge
        <5> QED BY <2>2, <3>2, <5>1 DEF Stored
      <4>3. CASE BgPutAside
        <5>1. file' = Missing \/ (Writing /\ file = Torn)
          BY <1>1, <4>3 DEF BgPutAside, PlaceInv
        <5> QED BY <2>2, <5>1, Files DEF Readable
      <4>4. CASE UNCHANGED background
        BY <2>2, <3>2, <4>4 DEF Stored, background
      <4> QED BY <3>2, <4>1, <4>2, <4>3, <4>4, Keepers
    <3>3. CASE fs \in {"merge", "open"} /\ Accepts(fsToken) /\ fsToken.login = file.token.login
      <4>1. CASE FsMerge
        <5>1. CASE marker /\ ac # "unmark"
          BY <4>1, <5>1 DEF FsMerge, Stored, card, account
        <5>2. CASE marker /\ ac = "unmark"
          <6>1. ~resaved /\ live' = live /\ file # Torn
            BY <2>1, <2>2, <4>1, Files, TokenParts DEF FsMerge, server, Readable
          <6>2. file = Holding(acToken) \/ ClientsOwn
            BY <2>2, <5>2, <6>1, Files, TokenParts DEF UnmarkInv, Readable, Holding
          <6>3. Accepts(file.token)
            BY <1>1, <5>2, <6>2, HoldingType DEF GrantInv, Granting, ClientsOwn
          <6> QED BY <2>2, <6>1, <6>3 DEF Stored, Accepts
        <5>3. CASE ~marker
          <6>1. fs' = "open" /\ fsToken' = fsToken /\ live' = live
            BY <2>2, <4>1, <5>3 DEF FsMerge, MarkedOut, server
          <6> QED BY <2>2, <3>3, <6>1 DEF Stored, Accepts
        <5> QED BY <5>1, <5>2, <5>3
      <4>2. CASE FsOpenFile
        <5>1. fs = "open" /\ (file' = Torn \/ (Writing /\ file = Torn))
          BY <1>1, <4>2 DEF FsOpenFile, PlaceInv
        <5> QED BY <2>2, <5>1, Files DEF Readable
      <4>3. CASE UNCHANGED <<fs, fsToken>>
        <5>1. live'[fsToken.login] = fsToken.serial
          BY <1>1, <2>5, <3>3, StillAccepted
        <5> QED BY <2>2, <3>3, <4>3, <5>1 DEF Stored, Accepts, storage
      <4> QED BY <3>3, <4>1, <4>2, <4>3, Keepers
    <3>4. CASE marker /\ ac # "unmark"
      BY <1>5, <3>4, Keepers DEF Stored
    <3> QED BY <2>2, <3>1, <3>2, <3>3, <3>4 DEF Stored
  <2> QED BY <2>3, <2>4, <2>5
<1> QED BY <1>2, <1>3, <1>4, <1>5

LEMMA NextRenew == ASSUME StoreInv, TurnInv, RenewInv, [Next]_vars PROVE RenewInv'
<1> SUFFICES ASSUME Undisturbed'
             PROVE  (CleanFile /\ KnownInv /\ GrantInv /\ RenewingInv /\ UnmarkInv /\ StoredInv)'
  BY DEF RenewInv
<1>1. TokenType /\ ClientInv /\ PlaceInv
  BY DEF StoreInv
<1>2. Undisturbed /\ ~Fault /\ ~PowerLoss
  BY <1>1, Calm
<1>3. CleanFile /\ KnownInv /\ GrantInv /\ RenewingInv /\ UnmarkInv /\ StoredInv
  BY <1>2 DEF RenewInv
<1>4. CleanFile' /\ KnownInv' /\ GrantInv' /\ RenewingInv' /\ UnmarkInv' /\ StoredInv'
  BY <1>1, <1>2, <1>3, NextCleanFile, NextKnown, NextGrant, NextRenewing, NextUnmark, NextStored
<1> QED BY <1>4

\* The renewed token is kept: unless JKSV wrote back an older one, or a login
\* it has left, the file holds the token the drive accepts (save_tokens of sysmodule/source/baidu.cpp
\* and of source/remote/BaiduNetdisk.cpp).
THEOREM RenewalsAreKept == Spec => []RenewedTokenKept
<1>1. StoreInv /\ SignOutInv /\ RenewInv /\ [Next]_vars => RenewInv'
  BY NextRenew DEF SignOutInv
<1>2. StoreInv /\ RenewInv => RenewedTokenKept
  <2> SUFFICES ASSUME StoreInv, RenewInv, Quiescent, faults = 0, crashes = 0, ~stale, ~resaved, SignedIn
               PROVE  Accepts(file.token)
    BY DEF RenewedTokenKept
  <2>1. Readable /\ ~marker /\ file.token # NoToken /\ KnownInv /\ StoredInv
    BY DEF SignedIn, MarkedOut, RenewInv, Undisturbed
  <2>2. file.token.login # 0
    BY <2>1 DEF KnownInv, Known, Readable
  <2> QED BY <2>1, <2>2 DEF StoredInv, Stored, Quiescent, Readable
<1> QED BY <1>1, <1>2, InitRenew, SignOutInvariance, PTL DEF Spec
=============================================================================
