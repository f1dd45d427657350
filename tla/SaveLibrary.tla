----------------------------- MODULE SaveLibrary -----------------------------
(* The saves JKSV knows and the screens that change them: each user's list   *)
(* (data::User), the title selection that shows it, the option panels of     *)
(* titles and users, the panels that create and import saves and that edit   *)
(* the blacklist, and the file mode opened over a title's save. A list is a  *)
(* vector and an open panel points into it: an erased entry moves the later  *)
(* ones under the pointer. A question and the task behind it are one step    *)
(* here: the panel that asked gets no frame until the task is complete, and  *)
(* then finds its flags (refresh_required, close_on_update) set.             *)
EXTENDS FileMode

CONSTANTS User, Title,
          Account,              \* the accounts; other users stand for a type of saves
          SystemUser,           \* users whose saves are system saves
          CacheUser,            \* the user of the cache saves
          AccountSystemSaves,   \* config::keys::LIST_ACCOUNT_SYS_SAVES
          Unmounted,            \* the saves ONLY_LIST_MOUNTABLE leaves out
          Rank,                 \* order of the saves in a list
          AtFirst,              \* the sets of saves the system may hold at first
          Trees                 \* what the file systems hold then

\* A save has a user, a title, whether its type is a system type, and an index:
\* a user may have several saves of an application, as of the cache saves. The
\* identifiers of applications and of system saves differ.
ASSUME LibraryAssumption ==
    /\ Save \subseteq [user : User, title : Title, system : BOOLEAN, index : Nat]
    /\ \A s \in Save : s.user \in SystemUser => s.system
    /\ \A s, r \in Save : s.title = r.title => s.system = r.system
    /\ AtFirst \subseteq SUBSET Save
    /\ IsFiniteSet(Save) /\ User # {}
    /\ Account \cup SystemUser \cup CacheUser \subseteq User
    /\ SdCard \notin Save \cup Partition /\ Save \cap Partition = {}

\* No two saves of a list have the same place: where names are equal, any order is one.
ASSUME RankAssumption ==
    /\ Rank \in [Save -> Int]
    /\ \A s, r \in Save : s.user = r.user /\ Rank[s] = Rank[r] => s = r

\* Every file system has its root.
ASSUME TreesAssumption ==
    /\ Trees \in [FileSystem -> [dirs : SUBSET Seq(Name), files : SUBSET Seq(Name)]]
    /\ \A f \in FileSystem : <<>> \in Trees[f].dirs

VARIABLES exists,       \* the saves on the system
          memory,       \* the entries in the memory of each m_userData
          count,        \* m_userData.size()
          view,         \* the entries each title selection shows
          blacklist, favorites,
          screens,      \* the states on the stack, the main menu at the bottom
          late,         \* history: A was taken from a panel told to close
          astray        \* history: the users whose list something was kept from

lists == <<memory, count, view>>
history == <<late, astray>>
library == <<exists, lists, blacklist, favorites, history>>
vars == <<library, screens, fileVars>>
-----------------------------------------------------------------------------
List(u) == SubSeq(memory[u], 1, count[u])

\* sort_user_data: favorites first, then by name.
Before(favs, s, r) ==
    IF (s.title \in favs) # (r.title \in favs) THEN s.title \in favs
    ELSE Rank[s] < Rank[r]
Sorted(set, favs) ==
    CHOOSE list \in [1..Cardinality(set) -> set] :
        \A i, j \in 1..Cardinality(set) : i < j => Before(favs, list[i], list[j])

\* load_user_data: the saves of the user that are not filtered out.
Loadable(u, on, black) ==
    {s \in on : s.user = u /\ s.title \notin black /\ s \notin Unmounted
                /\ (s.system /\ u \notin SystemUser => AccountSystemSaves)}
LoadedList(u, on, black, favs) == Sorted(Loadable(u, on, black), favs)

\* The lists of some users are loaded or replaced; the other lists stay.
Replace(us, new) ==
    /\ memory' = [u \in User |-> IF u \in us THEN new[u] ELSE memory[u]]
    /\ count' = [u \in User |-> IF u \in us THEN Len(new[u]) ELSE count[u]]
LoadUserData(us, on, black, favs) == Replace(us, [u \in us |-> LoadedList(u, on, black, favs)])

\* vector::erase: the later entries move down, the last one is still in memory.
Erased(m, n, slot) == [i \in DOMAIN m |-> IF i \in slot..(n - 1) THEN m[i + 1] ELSE m[i]]

\* find_title_by_id: the slot of a title, or 0.
SlotOf(u, t) ==
    LET slots == {i \in 1..count[u] : memory[u][i].title = t}
    IN  IF slots = {} THEN 0 ELSE CHOOSE i \in slots : \A j \in slots : i <= j

\* TitleView::refresh of the given users' screens.
RefreshViews(us) == view' = [u \in User |-> IF u \in us THEN SubSeq(memory'[u], 1, count'[u])
                                            ELSE view[u]]

Top == Last(screens)
Screen(at, u) == [at |-> at, user |-> u, panel |-> "open", refresh |-> FALSE, exit |-> FALSE,
                  slot |-> 0, save |-> CHOOSE s \in Save : TRUE, black |-> <<>>]
MainMenu == Screen("main", CHOOSE u \in User : TRUE)
Push(s) == screens' = Append(screens, s)
Pop == screens' = Front(screens)
SetTop(s) == screens' = [screens EXCEPT ![Len(screens)] = s]

\* The state on top of the stack gets the frame; nothing does under file mode.
At(where) == ~session.open /\ Top.at = where
PickOption == picks < MaxPicks /\ picks' = picks + 1
Reconciled(us) == astray' = astray \ us
UnchangedFiles == UNCHANGED <<tree, committed, allow, panes, faults>>

Init ==
    /\ FilesInit(Trees)
    /\ exists \in AtFirst
    /\ blacklist = {} /\ favorites = {}
    /\ memory = [u \in User |-> LoadedList(u, exists, {}, {})]
    /\ count = [u \in User |-> Len(memory[u])]
    /\ view = memory
    /\ screens = <<MainMenu>>
    /\ late = FALSE
    /\ astray = {}
-----------------------------------------------------------------------------
\* MainMenuState::push_target_state and create_user_options; the settings'
\* create_push_blacklist_edit.
OpenTitles(u) ==
    /\ At("main") /\ count[u] > 0
    /\ Push(Screen("titles", u))
    /\ UNCHANGED <<library, fileVars>>

OpenUserOptions(u) ==
    /\ At("main")
    /\ Push(Screen("user", u))
    /\ UNCHANGED <<library, fileVars>>

OpenBlacklist ==
    /\ At("main") /\ blacklist # {}
    /\ Push([Screen("blacklist", MainMenu.user) EXCEPT !.black = SetToSeq(blacklist)])
    /\ UNCHANGED <<library, fileVars>>

\* TitleSelectState: B, or a list that has become empty.
LeaveTitles ==
    /\ At("titles")
    /\ Pop
    /\ UNCHANGED <<library, fileVars>>

\* create_title_option_menu: the panel keeps a pointer to the entry.
OpenTitleOptions(i) ==
    /\ At("titles") /\ i \in DOMAIN view[Top.user] /\ i <= count[Top.user]
    /\ Push([Screen("title", Top.user) EXCEPT !.slot = i, !.save = memory[Top.user][i]])
    /\ UNCHANGED <<library, fileVars>>

\* add_remove_favorite: every list is sorted in place.
AddRemoveFavorite(i) ==
    /\ At("titles") /\ i \in DOMAIN view[Top.user] /\ i <= count[Top.user]
    /\ PickOption
    /\ LET t == memory[Top.user][i].title
       IN  favorites' = IF t \in favorites THEN favorites \ {t} ELSE favorites \cup {t}
    /\ Replace(User, [u \in User |-> Sorted(ToSet(List(u)), favorites')])
    /\ RefreshViews(User)
    /\ UnchangedFiles
    /\ UNCHANGED <<exists, blacklist, screens, history>>
-----------------------------------------------------------------------------
\* TitleOptionState::update.
RefreshAllViews ==
    /\ At("title") /\ Top.refresh
    /\ UNCHANGED <<memory, count>>
    /\ RefreshViews(User)
    /\ SetTop([Top EXCEPT !.refresh = FALSE])
    /\ UNCHANGED <<exists, blacklist, favorites, history, fileVars>>

\* A comes before m_exitRequired: for one frame it acts on the entry that has
\* moved under m_saveInfo.
TitleOption ==
    /\ At("title") /\ ~Top.refresh /\ Top.panel = "open"
    /\ late' = (late \/ Top.exit)
SaveInfo == memory[Top.user][Top.slot]      \* *m_saveInfo

\* close_on_update: the panel closes before it takes another option.
KeepOpen(s) == s
CloseOnUpdate(s) == [s EXCEPT !.exit = TRUE]

\* blacklist_title: add_remove_blacklist, erase_save_info_by_id in every list. It
\* erases the first save of the title, and none is listed again when the title is
\* taken off the blacklist, by another of them.
BlacklistTitle ==
    /\ TitleOption /\ PickOption
    /\ LET t == Top.save.title
           slot == [u \in User |-> SlotOf(u, t)]
       IN  /\ blacklist' = IF t \in blacklist THEN blacklist \ {t} ELSE blacklist \cup {t}
           /\ memory' = [u \in User |-> IF slot[u] = 0 THEN memory[u]
                                        ELSE Erased(memory[u], count[u], slot[u])]
           /\ count' = [u \in User |-> IF slot[u] = 0 THEN count[u] ELSE count[u] - 1]
           /\ astray' = astray \cup
                {u \in User : IF t \in blacklist THEN \E s \in exists : s.user = u /\ s.title = t
                              ELSE \E i \in 1..count[u] : i # slot[u] /\ memory[u][i].title = t}
    /\ SetTop(CloseOnUpdate([Top EXCEPT !.refresh = TRUE]))
    /\ UnchangedFiles
    /\ UNCHANGED <<exists, view, favorites>>

\* create_push_file_mode: whether the save is a system save is taken from the user;
\* without its extra data and a size of the title the journal has no known size.
PushFileMode ==
    /\ TitleOption
    /\ SaveInfo \in exists
    /\ \E journal \in BOOLEAN :
          OpenFileMode(SaveInfo, Top.user \in SystemUser, journal) /\ Faults(~journal)
    /\ UNCHANGED <<exists, lists, blacklist, favorites, astray, screens>>
    /\ UNCHANGED <<tree, committed, allow, picks>>

\* reset_save_data: a failure leaves a part, or everything as it was.
ResetSaveData ==
    /\ TitleOption /\ PickOption
    /\ allow \/ ~SaveInfo.system
    /\ SaveInfo \in exists
    /\ \E left \in SUBSET Below(tree[SaveInfo], <<>>) :
         /\ <<>> \in left
         /\ \A q \in left, r \in Below(tree[SaveInfo], <<>>) : IsPrefix(r, q) => r \in left
         /\ Faults(left # {<<>>})
         /\ LET t == Without(tree[SaveInfo], Below(tree[SaveInfo], <<>>) \ left)
            IN  tree' = [tree EXCEPT ![SaveInfo] = t] /\ committed' = [committed EXCEPT ![SaveInfo] = t]
    /\ UNCHANGED <<allow, panes, exists, lists, blacklist, favorites, astray, screens>>

\* delete_save_data_from_system, erase_save_info and close_on_update.
DeleteSaveFromSystem ==
    /\ TitleOption /\ PickOption
    /\ ~SaveInfo.system
    /\ SaveInfo \in exists
    /\ exists' = exists \ {SaveInfo}
    /\ tree' = [tree EXCEPT ![SaveInfo] = EmptyTree]
    /\ committed' = [committed EXCEPT ![SaveInfo] = EmptyTree]
    /\ LET u == Top.user
       IN  IF Top.slot > count[u] THEN UNCHANGED <<memory, count>>
           ELSE /\ memory' = [memory EXCEPT ![u] = Erased(@, count[u], Top.slot)]
                /\ count' = [count EXCEPT ![u] = @ - 1]
    /\ RefreshViews({Top.user})
    /\ SetTop(CloseOnUpdate(Top))
    /\ UNCHANGED <<blacklist, favorites, astray, allow, panes, faults>>

\* The task returns without being complete when the save cannot be deleted.
DeleteSaveFails ==
    /\ TitleOption /\ PickOption
    /\ ~SaveInfo.system
    /\ Faults(SaveInfo \in exists)
    /\ Push(Screen("stuck", Top.user))
    /\ UNCHANGED <<exists, lists, blacklist, favorites, astray, tree, committed, allow, panes>>
-----------------------------------------------------------------------------
\* UserOptionState and SaveCreateState::update: a refresh loads the list again,
\* before the buttons are looked at.
LoadAndRefresh ==
    /\ ~session.open /\ Top.at \in {"user", "create"} /\ Top.refresh
    /\ LoadUserData({Top.user}, exists, blacklist, favorites)
    /\ RefreshViews({Top.user})
    /\ Reconciled({Top.user})
    /\ SetTop([Top EXCEPT !.refresh = FALSE])
    /\ UNCHANGED <<exists, blacklist, favorites, late, fileVars>>

UserOption == At("user") /\ ~Top.refresh /\ Top.user \notin SystemUser
CanCreate(u) == {s \in Save \ exists : s.user = u /\ ~s.system}
CreatedUnnoticed(new) ==
    /\ exists' = exists \cup new
    /\ UNCHANGED <<lists, blacklist, favorites, history, screens, tree, committed, allow, panes>>
Created(new) ==
    /\ exists' = exists \cup new
    /\ SetTop([Top EXCEPT !.refresh = TRUE])
    /\ UNCHANGED <<lists, blacklist, favorites, history, tree, committed, allow, panes>>

\* create_all_save_data_for_user: those of index 0; each creation may fail, the
\* refresh comes anyway.
CreateAllSaveData ==
    /\ UserOption /\ PickOption
    /\ LET all == {s \in CanCreate(Top.user) : s.index = 0}
       IN  \E new \in SUBSET all : Faults(new # all) /\ Created(new)

\* delete_all_save_data_for_user: the entries are erased by the pointers taken
\* before the first of them was erased.
ErasedAll(m, n, gone) ==
    LET after[i \in 0..n] ==
            IF i = 0 THEN <<m, n>>
            ELSE IF i \in gone /\ i <= after[i - 1][2]
            THEN <<Erased(after[i - 1][1], after[i - 1][2], i), after[i - 1][2] - 1>>
            ELSE after[i - 1]
    IN  after[n]

DeleteAllSaveData ==
    /\ UserOption /\ PickOption
    /\ LET u == Top.user
           slots == {i \in 1..count[u] : ~memory[u][i].system /\ memory[u][i] \in exists}
       IN  \E kept \in SUBSET slots :
             /\ Faults(kept # {})
             /\ LET gone == slots \ kept
                    saves == {memory[u][i] : i \in gone}
                    after == ErasedAll(memory[u], count[u], gone)
                IN  /\ exists' = exists \ saves
                    /\ tree' = [f \in FileSystem |-> IF f \in saves THEN EmptyTree ELSE tree[f]]
                    /\ committed' = [s \in Save |-> IF s \in saves THEN EmptyTree ELSE committed[s]]
                    /\ memory' = [memory EXCEPT ![u] = after[1]]
                    /\ count' = [count EXCEPT ![u] = after[2]]
    /\ SetTop([Top EXCEPT !.refresh = TRUE])
    /\ UNCHANGED <<view, blacklist, favorites, history, allow, panes>>

\* create_save_create and create_push_save_import push their panels.
OpenCreate ==
    /\ UserOption
    /\ Push(Screen("create", Top.user))
    /\ UNCHANGED <<library, fileVars>>

OpenImport ==
    /\ At("user") /\ ~Top.refresh
    /\ Push(Screen("import", Top.user))
    /\ UNCHANGED <<library, fileVars>>

\* create_save_data_for, of one title: the list is loaded again if it worked.
CreateSaveData(s) ==
    /\ At("create") /\ ~Top.refresh /\ PickOption
    /\ s \in CanCreate(Top.user)
    /\ Faults(FALSE)
    /\ Created({s})

\* test_for_save: a save of the application, of the type of the panel's user. A
\* cache save is looked for in the space its index names, and may be missed.
TestForSave(u, s) ==
    LET own == {r \in exists : r.user = u /\ r.title = s.title}
    IN  IF own = {} \/ s.system THEN {FALSE} ELSE IF u \in CacheUser THEN BOOLEAN ELSE {TRUE}

\* create_save_data_from_meta: a save of the archive's type, which may be another
\* user's than the one whose list is loaded; every view is refreshed.
CreateSaveFromMeta(s) ==
    /\ s \notin exists /\ exists' = exists \cup {s}
    /\ LoadUserData({Top.user}, exists', blacklist, favorites)
    /\ RefreshViews(User)
    /\ astray' = (astray \cup {s.user}) \ {Top.user}

\* import_save_backup of an archive of save s, or of another account's: the save is
\* created if there is none, and the first entry of the title is written.
ImportSaveBackup(s) ==
    /\ At("import") /\ Top.panel = "open" /\ PickOption
    /\ s.user = Top.user \/ s.user \notin Account
    /\ \E found \in TestForSave(Top.user, s) :
          \/ found /\ UNCHANGED <<exists, memory, count, view, astray>>
          \/ ~found /\ CreateSaveFromMeta(s)
    /\ LET u == Top.user
           slots == {i \in 1..count'[u] : memory'[u][i].title = s.title}
           into == memory'[u][CHOOSE i \in slots : \A j \in slots : i <= j]
           full == [tree[into] EXCEPT !.files = @ \cup {<<n>> : n \in Name}]
       IN  IF s.system \/ slots = {} \/ \E n \in Name : <<n>> \in tree[into].dirs
           THEN UNCHANGED <<tree, committed>>
           ELSE tree' = [tree EXCEPT ![into] = full] /\ committed' = [committed EXCEPT ![into] = full]
    /\ UNCHANGED <<blacklist, favorites, late, screens, allow, panes, faults>>

\* BlacklistEditState::remove_from_blacklist, whatever the panel does; an emptied
\* vector still has its last title in memory.
RemoveFromBlacklist(i) ==
    /\ At("blacklist") /\ i \in DOMAIN Top.black /\ PickOption
    /\ LET t == Top.black[i]
           left == IF t \in blacklist THEN blacklist \ {t} ELSE blacklist \cup {t}
       IN  /\ blacklist' = left
           /\ SetTop([Top EXCEPT !.black = IF left = {} THEN <<t>> ELSE SetToSeq(left)])
    /\ LoadUserData(User, exists, blacklist', favorites)
    /\ RefreshViews(User)
    /\ Reconciled(User)
    /\ UnchangedFiles
    /\ UNCHANGED <<exists, favorites, late>>
-----------------------------------------------------------------------------
\* B, close_on_update or an empty blacklist close the panel; the update of the
\* import panel returns early unless the panel is open. A refresh comes first.
PanelScreens == {"title", "user", "create", "import", "blacklist"}
Panel == ~session.open /\ Top.at \in PanelScreens /\ ~Top.refresh

ClosePanel ==
    /\ Panel /\ Top.panel # "closing"
    /\ Top.panel = "closed" => Top.at \in {"title", "user", "create"}
    /\ SetTop([Top EXCEPT !.panel = "closing", !.exit = FALSE])
    /\ UNCHANGED <<library, fileVars>>

PanelSlides ==
    /\ Panel /\ Top.panel = "closing"
    /\ SetTop([Top EXCEPT !.panel = "closed"])
    /\ UNCHANGED <<library, fileVars>>

LeavePanel ==
    /\ Panel /\ Top.panel = "closed" /\ Top.at # "import"
    /\ Pop
    /\ UNCHANGED <<library, fileVars>>

\* JKSV is left, or closed by the console, and started again.
Restart ==
    /\ Len(screens) > 1 \/ session.open
    /\ screens' = <<MainMenu>>
    /\ LoadUserData(User, exists, blacklist, favorites)
    /\ RefreshViews(User)
    /\ Reconciled(User)
    /\ CloseMounts
    /\ UNCHANGED <<exists, blacklist, favorites, late>>

FileModeStep == (FileModeNext \/ CloseFileMode) /\ UNCHANGED <<library, screens>>

Crash ==
    /\ ReadPastDirectory
    /\ screens' = <<MainMenu>>
    /\ LoadUserData(User, exists, blacklist, favorites)
    /\ RefreshViews(User)
    /\ Reconciled(User)
    /\ UNCHANGED <<exists, blacklist, favorites, late>>

\* ExtrasMenuState: a partition, or the SD card, in pane A.
BrowsePartition(f) ==
    /\ At("main")
    /\ OpenFileMode(f, f \in Partition, FALSE)
    /\ UNCHANGED <<library, screens, tree, committed, allow, picks, faults>>

Next ==
    \/ \E u \in User : OpenTitles(u) \/ OpenUserOptions(u)
    \/ OpenBlacklist \/ LeaveTitles
    \/ \E i \in 1..Cardinality(Save) :
          OpenTitleOptions(i) \/ AddRemoveFavorite(i) \/ RemoveFromBlacklist(i)
    \/ RefreshAllViews \/ BlacklistTitle \/ PushFileMode \/ ResetSaveData
    \/ DeleteSaveFromSystem \/ DeleteSaveFails
    \/ LoadAndRefresh \/ CreateAllSaveData \/ DeleteAllSaveData
    \/ OpenCreate \/ OpenImport
    \/ \E s \in Save : CreateSaveData(s) \/ ImportSaveBackup(s)
    \/ ClosePanel \/ PanelSlides \/ LeavePanel
    \/ Restart \/ Crash \/ FileModeStep
    \/ \E f \in Partition \cup {SdCard} : BrowsePartition(f)

Spec == Init /\ [][Next]_vars
-----------------------------------------------------------------------------
\* When no panel has work left, no list holds a save that is gone, every list holds
\* all the saves that exist and are not filtered out, and no other, and every title
\* selection shows its list: deleting, creating, importing, hiding and sorting keep
\* them apart only until the panel that did it gets its frame. Not after a late
\* option; and until it is loaded the code leaves a list wrong (astray) when a title
\* with several saves is hidden or an archive of another type is imported.
ListsMatchTheSystem ==
    ~Top.refresh /\ ~late =>
        \A u \in User :
            /\ ToSet(List(u)) \subseteq exists
            /\ u \notin astray => ToSet(List(u)) = Loadable(u, exists, blacklist)
            /\ view[u] = List(u)

\* The option panel of a title changes no save but the one it was opened for,
\* through the file mode neither, unless the option is late: the pointer it keeps
\* names another entry once one has been erased.
OnlyItsOwnSave ==
    [][Top.at = "title" /\ ~late' =>
        \A s \in Save \ {Top.save} :
            tree'[s] = tree[s] /\ (s \in exists' <=> s \in exists)]_vars

\* While writing to the system is off, nothing changes a system save or a
\* partition: not the file mode, a reset, a deletion or an import
\* (JKSV_Settings_ENG.MD:30).
SystemIsGuarded ==
    [][~allow => \A f \in Partition \cup {s \in Save : s.system} : tree'[f] = tree[f]]_vars
=============================================================================
