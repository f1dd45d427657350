---------------------------- MODULE BaiduNetdisk ----------------------------
(***************************************************************************)
(* Baidu Netdisk as JKSV uses it (remote/BaiduNetdisk.cpp).  Ids are paths *)
(* and m_fsIds keeps the number under which the drive knows each file; a   *)
(* file that is overwritten may keep its number or get another.  The       *)
(* sysmodule writes to the same directories.  Tokens are in TokenStore.    *)
(***************************************************************************)
EXTENDS RemoteStorage

\* The node a path of the list stands for.
NodeAt(path) == CHOOSE n \in Reaches(path) : TRUE

\* path_has_prefix
HasPrefix(path, prefix) == IsPrefix(prefix, path)

Forget(ids, path) == [p \in {q \in DOMAIN ids : ~HasPrefix(q, path)} |-> ids[p]]

\* request_listing, from the constructor or after a sign-in: the base
\* directory, created if it is missing and then empty, is read first.
BaiduConnects ==
    /\ kind = "baidu" /\ state \in {"off", "failed"}
    /\ state' = "reading"
    /\ list' = {} /\ fsIds' = <<>> /\ parent' = root
    /\ reading' = [stack |-> <<root>>, start |-> 0, found |-> <<>>,
                   present |-> {PathOf(n) : n \in Live}]
    /\ UNCHANGED <<kind, drive, root, unsure, got, lost, others>>

\* One page of request_directory_listing.  A short page is the last one;
\* then the directories found in all pages are read, depth first, those of
\* one page in any order.
\* (PageIsLastOrFull, and below EntryMovedAlone and IdsKept, are mistakes
\* the checks look for.)
PageIsLastOrFull(page) == Cardinality(page) <= Page
PageIsLast(page) == Cardinality(page) < Page

ReadPage ==
    /\ kind = "baidu" /\ state = "reading"
    /\ LET above  == Head(reading.stack)
           page   == PageOf(ChildrenOf(NodeAt(above)), reading.start)
           paths  == {PathOf(n) : n \in page}
           found  == reading.found \o SetToSeq({PathOf(n) : n \in {m \in page : IsDir(m)}})
           stack  == found \o Tail(reading.stack)
           done   == PageIsLast(page) /\ stack = <<>>
       IN  /\ list' = list \cup {EntryOf(n, above) : n \in page}
           /\ fsIds' = [p \in DOMAIN fsIds \cup paths |->
                           IF p \in paths THEN NodeAt(p) ELSE fsIds[p]]
           /\ reading' = IF done THEN <<>>
                         ELSE IF PageIsLast(page)
                         THEN [reading EXCEPT !.stack = stack, !.start = 0, !.found = <<>>]
                         ELSE [reading EXCEPT !.start = @ + Cardinality(page), !.found = found]
           /\ state' = IF done THEN "ready" ELSE "reading"
    /\ UNCHANGED <<kind, drive, root, parent, unsure, got, lost, others>>

\* What a request answers of a file: its number, or none.
Remembered(path, n) == [p \in DOMAIN fsIds \cup {path} |-> IF p = path THEN n ELSE fsIds[p]]
Erased(path) == [p \in DOMAIN fsIds \ {path} |-> fsIds[p]]

\* join_remote_path, for a name that is no path.
Joined(above, name) == Append(above, name)

\* The item a new directory or a new file gets in m_list.
WithItem(path, name, dir) == list \cup {Entry(path, name, parent, dir)}
ListsDirectory(path, name, n) ==
    Answered /\ fsIds' = Remembered(path, n) /\ list' = WithItem(path, name, TRUE)

\* create_directory_path: the directory is created, or it is there already
\* (errno -8) and is looked up.
CreatesPath(path, name) ==
    \/ /\ Named(NodeAt(parent), name) = {}
       /\ \E n \in Fresh :
            /\ drive' = [drive EXCEPT ![n] = Thing("dir", name, NodeAt(parent))]
            /\ ListsDirectory(path, name, n) \/ AnswerLost
    \/ /\ \E n \in Named(NodeAt(parent), name) :
            IsDir(n) /\ ListsDirectory(path, name, n)
       /\ UNCHANGED drive

BaiduCreates ==
    /\ Changes("baidu") /\ parent = root
    /\ \E name \in Name :
        DirectoriesNamed(name) = {} /\ CreatesPath(Joined(parent, name), name)
    /\ UNCHANGED parent

\* upload_file_internal from the hashes of the slices to the answer of create,
\* as one step: UploadProtocol has the slices. With the answer the caller knows
\* the number of the file, or does not, and lists it.
UploadFileInternal(stored, numbers, items) ==
    /\ drive' = stored
    /\ \/ Answered /\ fsIds' \in numbers /\ list' = items
       \/ AnswerLost

\* upload_file with rtype 0: a name that is taken is refused.
BaiduUploads ==
    /\ Changes("baidu") /\ parent # root
    /\ \E name \in Name, n \in Fresh, d \in Reaches(parent) :
        LET path == Joined(parent, name)
        IN  /\ \A e \in Listing : e.name # name
            /\ Named(d, name) = {}
            /\ UploadFileInternal([drive EXCEPT ![n] = Thing("file", name, d)],
                   {Remembered(path, n), fsIds}, WithItem(path, name, FALSE))
    /\ UNCHANGED parent

\* What is stored at the path of node n, with its number or another.
Overwritten(n, m) ==
    IF m = n THEN drive ELSE [Without({n}) EXCEPT ![m] = drive[n]]

\* patch_file with rtype 3, which stores no file over a directory.  A rapid
\* upload without a number that cannot be looked up keeps the old number.
BaiduPatches ==
    /\ Changes("baidu") /\ parent # root
    /\ \E e \in Listing : \E n \in Reaches(e.id) : \E m \in {n} \cup Fresh :
        /\ ~e.dir /\ ~IsDir(n)
        /\ UploadFileInternal(Overwritten(n, m), {Remembered(e.id, m), Erased(e.id), fsIds}, list)
    /\ UNCHANGED parent

\* The number m_fsIds has, or the one get_file_info looks up.
NumberOf(path) == IF path \in DOMAIN fsIds THEN {fsIds[path]} ELSE Reaches(path)

\* download_file: the drive gives the file of that number, wherever it is.
BaiduDownloads ==
    /\ Operation /\ kind = "baidu" /\ parent # root
    /\ \E e \in Listing : \E n \in NumberOf(e.id) :
        /\ ~e.dir /\ n \in Live
        /\ fsIds' = Remembered(e.id, n)
        /\ got' = [asked |-> e.id, was |-> PathOf(n)]
    /\ UNCHANGED <<drive, list, parent, unsure, lost>>

\* delete_item drops what was below the item as well.
BaiduDeletes ==
    /\ Changes("baidu") /\ parent # root
    /\ \E e \in Listing : \E n \in Reaches(e.id) :
        /\ drive' = Without({n} \cup Below(n))
        /\ \/ Answered /\ list' = {o \in list : ~HasPrefix(o.id, e.id)} /\ fsIds' = Forget(fsIds, e.id)
           \/ AnswerLost
    /\ UNCHANGED parent

\* rename_item gives every path in the directory its new beginning and
\* keeps the numbers of the paths that are listed.
Moved(path, old, new) ==
    IF HasPrefix(path, old) THEN new \o SubSeq(path, Len(old) + 1, Len(path)) ELSE path
EntryMovedAlone(o, e, new) ==
    IF o.id = e.id THEN Entry(new, Last(new), o.parent, o.dir) ELSE o
MovedEntry(o, e, new) ==
    Entry(Moved(o.id, e.id, new), IF o.id = e.id THEN Last(new) ELSE o.name,
          Moved(o.parent, e.id, new), o.dir)
IdsKept(old, new) ==
    [p \in DOMAIN fsIds \cup {Moved(q, old, new) : q \in DOMAIN fsIds} |->
        IF p \in DOMAIN fsIds THEN fsIds[p]
        ELSE fsIds[CHOOSE q \in DOMAIN fsIds : Moved(q, old, new) = p]]
MovedIds(old, new) ==
    LET known == {o \in list : o.id \in DOMAIN fsIds}
    IN  [p \in {Moved(o.id, old, new) : o \in known} |->
            fsIds[(CHOOSE o \in known : Moved(o.id, old, new) = p).id]]

BaiduRenames ==
    /\ Changes("baidu") /\ parent = root
    /\ \E e \in Listing, name \in Name : \E n \in Reaches(e.id) :
        LET new == Joined(parent, name)
        IN  /\ e.dir /\ Named(NodeAt(parent), name) = {}
            /\ drive' = [drive EXCEPT ![n].name = name]
            /\ \/ /\ Answered
                  /\ list' = {MovedEntry(o, e, new) : o \in list}
                  /\ fsIds' = MovedIds(e.id, new)
               \/ AnswerLost
    /\ UNCHANGED parent

\* The sysmodule adds a title's directory or a backup, or overwrites one.
SysmoduleWrites ==
    /\ kind = "baidu" /\ others < MaxOther /\ others' = others + 1
    /\ \/ \E n \in Fresh, name \in Name :
            /\ Named(Base, name) = {}
            /\ drive' = [drive EXCEPT ![n] = Thing("dir", name, Base)]
       \/ \E n \in Fresh, name \in Name, d \in ChildrenOf(Base) :
            /\ IsDir(d) /\ Named(d, name) = {}
            /\ drive' = [drive EXCEPT ![n] = Thing("file", name, d)]
       \/ \E m \in Fresh, n \in Live :
            /\ ~IsDir(n) /\ drive' = Overwritten(n, m)
    /\ UNCHANGED <<kind, connection, reading, unsure, got, lost>>

BaiduNext ==
    \/ BaiduConnects \/ ReadPage
    \/ BaiduCreates \/ BaiduUploads \/ BaiduPatches \/ BaiduDownloads
    \/ BaiduDeletes \/ BaiduRenames \/ SysmoduleWrites
=============================================================================
