------------------------------ MODULE DiscTree ------------------------------
(***************************************************************************)
(* The tree of a decrypted disc (src/src/disc.rs): DiscTree::scan and      *)
(* scan_udf walk the disc once, with one frame per directory they are in,  *)
(* and BdFs (src/src/vfs.rs) then answers NFS requests from the result.    *)
(* A client lists directories page by page and reads files to their end.   *)
(***************************************************************************)
EXTENDS Integers, FiniteSets, FiniteSetsExt, SequencesExt, Vectors, TLC

CONSTANTS
    Discs,          \* discs to walk
    Upper,          \* a name in upper case
    Ext,            \* its extension, in lower case
    Clip,           \* the number of a five-digit stem, or None
    HiddenRootDirs, \* in upper case
    DSStore,        \* ".DS_Store"
    Failures,       \* steps that may fail: "stat", "size", "list", "read"
    MaxPage, MaxCount,
    None

Root == 1

Names == DOMAIN Upper

\* Kinds of entries that read_directory passes over.
Passed == {"deleted", "parent"}

\* A disc has, for each directory, its entries in the order they are read: of
\* the raw device as they lie there, of a volume as sorted by name.  No two that
\* are not passed over have the same name, letter for letter.  `data` is how many
\* bytes there really are of a file: as many as its size says, or not.
Wellformed(d) ==
    LET Entry == [name : Names, kind : {"dir", "file", "special", "deleted", "parent"},
                  icb : DOMAIN d.sizes] IN
    /\ d.mode \in {"udf", "volume"}
    /\ d.sizes \in [DOMAIN d.sizes -> Nat] /\ d.data \in [DOMAIN d.sizes -> Nat]
    /\ d.dirs \in [DOMAIN d.dirs -> Seq(Entry)] /\ Root \in DOMAIN d.dirs
    /\ \A i \in DOMAIN d.dirs : \A j \in DOMAIN d.dirs[i] :
          LET e == d.dirs[i][j] IN
          /\ e.kind = "dir" => e.icb \in DOMAIN d.dirs
          /\ e.kind = "special" => d.mode = "volume"
          /\ e.kind \in Passed => d.mode = "udf"
          /\ \A k \in DOMAIN d.dirs[i] :
                e.name = d.dirs[i][k].name /\ {e.kind, d.dirs[i][k].kind} \cap Passed = {} => j = k

ASSUME DiscsAssumption ==
    /\ MaxPage \in Nat \ {0} /\ MaxCount \in Nat \ {0}
    /\ {"BDMV", "index.bdmv", DSStore} \subseteq Names
    /\ {".", ".."} \cap Names = {}
    /\ \A d \in Discs : Wellformed(d)

\* Five digits and an extension leave nothing but the case of a name open
\* (mmbd::clip_number).
ASSUME ClipsAssumption ==
    \A a, b \in Names : Clip[a] = Clip[b] /\ Clip[a] # None /\ Ext[a] = Ext[b] => Upper[a] = Upper[b]

VARIABLES
    disc,       \* the disc that is walked
    nodes,      \* DiscTree::nodes; `entry` and `data` are history: what the node
                \* was made of, and what there is of the file its path leads to
    lookup,     \* DiscTree::lookup
    nextId,
    frames,     \* the calls of walk, outermost first
    scan,       \* "walking", "done" or "failed"
    skipped,    \* history: entries whose stat failed, with their directory
    client      \* a client, with the directory or the file it is at

treeVars == <<nodes, lookup, nextId, frames, scan, skipped>>
vars     == <<disc, treeVars, client>>

RootEntry == [name |-> "/", kind |-> "dir", icb |-> Root]

NoEntry == [name |-> None, kind |-> "none", icb |-> None]

-----------------------------------------------------------------------------
(* Reading the disc *)

\* read_directory, and read_dir of a volume.  A file that is read as one has no
\* entry: it is too short for one, or what is in it does not parse.
Entries(d, e) ==
    IF e.kind = "dir"
    THEN Kept(d.dirs[e.icb], {x \in ToSet(d.dirs[e.icb]) : x.kind \notin Passed})
    ELSE <<>>

\* RawUdf::lookup takes the first entry of a name whatever its case; macOS
\* resolves a path exactly.
Same(d, a, b) == IF d.mode = "udf" THEN Upper[a] = Upper[b] ELSE a = b

First(d, entries, name) ==
    LET hits == {i \in DOMAIN entries : Same(d, entries[i].name, name)}
    IN  IF hits = {} THEN NoEntry ELSE entries[Min(hits)]

\* What there is on the disc.
Things(d) == {RootEntry, NoEntry} \cup UNION {ToSet(d.dirs[i]) : i \in DOMAIN d.dirs}

\* Mutant: deleted entries are found.
DescendDeletedToo(d, name) == [cur \in Things(d) |->
    First(d, IF cur.kind = "dir" THEN d.dirs[cur.icb] ELSE <<>>, name)]

\* One component of a path.
Descend(d, name) == [cur \in Things(d) |-> First(d, Entries(d, cur), name)]

\* The entry a path leads to.
Find(d, path) ==
    LET at[i \in 0..Len(path)] == IF i = 0 THEN RootEntry ELSE Descend(d, path[i])[at[i - 1]]
    IN  at[Len(path)]

-----------------------------------------------------------------------------
(* The walk *)

\* Mutant: the flag of the container is dropped.
ClassifyClipOnly(path) ==
    LET up == [i \in DOMAIN path |-> Upper[path[i]]]
        name == path[Len(path)] IN
    CASE /\ Len(path) = 3 /\ up[1] = "BDMV" /\ up[2] = "STREAM" /\ Ext[name] = "m2ts"
         /\ Clip[name] # None -> <<"m2ts", Clip[name]>>
      [] /\ Len(path) = 4 /\ up[1] = "BDMV" /\ up[2] = "STREAM" /\ up[3] = "SSIF"
         /\ Ext[name] = "ssif" /\ Clip[name] # None -> <<"m2ts", Clip[name]>>
      [] OTHER -> None

\* classify: the name flags of a stream, None for any other file.
Classify(path) ==
    LET up == [i \in DOMAIN path |-> Upper[path[i]]]
        name == path[Len(path)] IN
    CASE /\ Len(path) = 3 /\ up[1] = "BDMV" /\ up[2] = "STREAM" /\ Ext[name] = "m2ts"
         /\ Clip[name] # None -> <<"m2ts", Clip[name]>>
      [] /\ Len(path) = 4 /\ up[1] = "BDMV" /\ up[2] = "STREAM" /\ up[3] = "SSIF"
         /\ Ext[name] = "ssif" /\ Clip[name] # None -> <<"ssif", Clip[name]>>
      [] OTHER -> None

\* Mutant: names are hidden in every directory.
HiddenEverywhere(path) ==
    LET name == path[Len(path)] IN Upper[name] \in HiddenRootDirs \/ name = DSStore

\* Only the root hides its copy-protection directories.
Hidden(path) ==
    LET name == path[Len(path)] IN
    (Len(path) = 1 /\ Upper[name] \in HiddenRootDirs) \/ name = DSStore

DirNode(parent, e, path) ==
    [parent |-> parent, name |-> e.name, path |-> path, kind |-> "dir", flags |-> None,
     size |-> 0, data |-> 0, children |-> <<>>, entry |-> e]

FileNode(parent, e, path, size, data) ==
    [parent |-> parent, name |-> e.name, path |-> path,
     kind |-> IF Classify(path) = None THEN "passthrough" ELSE "encrypted",
     flags |-> Classify(path), size |-> size, data |-> data, children |-> <<>>, entry |-> e]

Frame(dir, entries) == [dir |-> dir, left |-> entries, children |-> <<>>]

NoClient == [op |-> "none", node |-> None, at |-> 0, got |-> <<>>, end |-> FALSE]

\* scan and scan_udf look for BDMV/index.bdmv first, on a raw device whatever it
\* is; the root has no parent.
IsBluRay == Find(disc, <<"BDMV", "index.bdmv">>).kind \in
                IF disc.mode = "udf" THEN {"file", "dir"} ELSE {"file"}

Init ==
    /\ disc \in Discs
    /\ nodes = [n \in {Root} |-> DirNode(Root, RootEntry, <<>>)]
    /\ lookup = <<>>
    /\ nextId = Root + 1
    /\ \/ IsBluRay /\ scan = "walking" /\ frames = <<Frame(Root, Entries(disc, RootEntry))>>
       \/ (~IsBluRay \/ "list" \in Failures) /\ scan = "failed" /\ frames = <<>>
    /\ skipped = {}
    /\ client = NoClient

Top      == Last(frames)
E        == Head(Top.left)
PathOf   == Append(nodes[Top.dir].path, E.name)
AtEntry  == scan = "walking" /\ Top.left # <<>>
NextUp   == [Top EXCEPT !.left = Tail(@)]
Rest     == ReplaceAt(frames, Len(frames), NextUp)

\* HashMap::insert.
Put(f, k, v) == [x \in DOMAIN f \cup {k} |-> IF x = k THEN v ELSE f[x]]

\* Mutant: the number is not used up.
InsertKeepsNumber(node) ==
    /\ nodes' = Put(nodes, nextId, node)
    /\ lookup' = Put(lookup, <<Top.dir, E.name>>, nextId)
    /\ UNCHANGED nextId

\* A new node below the directory of the frame.
Insert(node) ==
    /\ nodes' = Put(nodes, nextId, node)
    /\ lookup' = Put(lookup, <<Top.dir, E.name>>, nextId)
    /\ nextId' = nextId + 1

WithChild == ReplaceAt(frames, Len(frames), [NextUp EXCEPT !.children = Append(@, nextId)])

Hide ==
    /\ AtEntry /\ Hidden(PathOf)
    /\ frames' = Rest
    /\ UNCHANGED <<disc, nodes, lookup, nextId, scan, skipped, client>>

\* walk only: an entry that cannot be looked at is left out.
StatFails ==
    /\ AtEntry /\ ~Hidden(PathOf)
    /\ disc.mode = "volume" /\ "stat" \in Failures
    /\ frames' = Rest
    /\ skipped' = skipped \cup {<<Top.dir, E>>}
    /\ UNCHANGED <<disc, nodes, lookup, nextId, scan, client>>

\* Neither a file nor a directory takes a number, and no node.
AddSpecial ==
    /\ AtEntry /\ ~Hidden(PathOf) /\ E.kind = "special"
    /\ nextId' = nextId + 1
    /\ frames' = Rest
    /\ UNCHANGED <<disc, nodes, lookup, scan, skipped, client>>

\* file_size(..).unwrap_or(0) on the raw device, of the file that is found by the
\* path.
AddFile ==
    /\ AtEntry /\ ~Hidden(PathOf) /\ E.kind = "file"
    /\ \E size \in {disc.sizes[Find(disc, PathOf).icb]} \cup
                   (IF disc.mode = "udf" /\ "size" \in Failures THEN {0} ELSE {}) :
          Insert(FileNode(Top.dir, E, PathOf, size, disc.data[Find(disc, PathOf).icb]))
    /\ frames' = WithChild
    /\ UNCHANGED <<disc, scan, skipped, client>>

\* The walk goes on below; list_dir finds the directory by its path.
AddDir ==
    /\ AtEntry /\ ~Hidden(PathOf) /\ E.kind = "dir"
    /\ Insert(DirNode(Top.dir, E, PathOf))
    /\ frames' = Append(WithChild, Frame(nextId, Entries(disc, Find(disc, PathOf))))
    /\ UNCHANGED <<disc, scan, skipped, client>>

\* The end of a directory: only now has its node any children.
EndDir ==
    /\ scan = "walking" /\ Top.left = <<>>
    /\ nodes' = [nodes EXCEPT ![Top.dir].children = Top.children]
    /\ frames' = Front(frames)
    /\ scan' = IF Len(frames) = 1 THEN "done" ELSE "walking"
    /\ UNCHANGED <<disc, lookup, nextId, skipped, client>>

\* A directory that cannot be read ends the scan, and with it the mount.
ListFails ==
    /\ AtEntry /\ ~Hidden(PathOf) /\ E.kind = "dir"
    /\ "list" \in Failures \/ Find(disc, PathOf).kind # "dir"
    /\ scan' = "failed"
    /\ frames' = <<>>
    /\ UNCHANGED <<disc, nodes, lookup, nextId, skipped, client>>

Walk == Hide \/ StatFails \/ AddSpecial \/ AddFile \/ AddDir \/ EndDir \/ ListFails

-----------------------------------------------------------------------------
(* NFS *)

IsDir(n) == nodes[n].kind = "dir"

\* BdFs::lookup.
Lookup(dir, name) ==
    CASE dir \notin DOMAIN nodes -> "NOENT"
      [] dir \in DOMAIN nodes /\ ~IsDir(dir) -> "NOTDIR"
      [] OTHER -> CASE name = "." -> dir
                    [] name = ".." -> nodes[dir].parent
                    [] <<dir, name>> \in DOMAIN lookup -> lookup[<<dir, name>>]
                    [] OTHER -> "NOENT"

\* Mutant: the cookie is the entry to begin with.
PageFromCookie(dir, cookie, max) ==
    LET all   == nodes[dir].children
        start == IF cookie = 0 THEN 0 ELSE (CHOOSE i \in DOMAIN all : all[i] = cookie) - 1
        page  == SubSeq(all, start + 1, Min({start + max, Len(all)})) IN
    [entries |-> page, end |-> start + Len(page) >= Len(all)]

\* BdFs::readdir: a page behind the cookie, which is the last entry before it.
Page(dir, cookie, max) ==
    LET all   == nodes[dir].children
        start == IF cookie = 0 THEN 0 ELSE CHOOSE i \in DOMAIN all : all[i] = cookie
        page  == SubSeq(all, start + 1, Min({start + max, Len(all)})) IN
    [entries |-> page, end |-> start + Len(page) >= Len(all)]

\* DecryptEngine::read ends where the size of the file says, or before it where
\* its source does.
Ends(n) == Min({nodes[n].size, nodes[n].data})

\* Mutant: a file has not come to its end at its last byte.
ReplyEndPast(n, offset, count) ==
    LET len == Min({count, Max({Ends(n) - offset, 0})}) IN
    [len |-> len, end |-> offset + len > nodes[n].size]

\* BdFs::read, with as many bytes as DecryptEngine::read has of the range: the
\* end is told from these and from the size.
Reply(n, offset, count) ==
    LET len == Min({count, Max({Ends(n) - offset, 0})}) IN
    [len |-> len, end |-> offset + len >= nodes[n].size]

\* A client that is done, or never began, takes on a directory or a file.
Open(n) ==
    /\ scan = "done" /\ client.op = "none"
    /\ client' = [NoClient EXCEPT !.op = IF IsDir(n) THEN "list" ELSE "read", !.node = n]
    /\ UNCHANGED <<disc, treeVars>>

ReadDir(max) ==
    /\ client.op = "list" /\ ~client.end
    /\ LET page == Page(client.node, client.at, max) IN
       client' = [client EXCEPT
                    !.got = @ \o page.entries,
                    !.at  = IF page.entries = <<>> THEN @ ELSE Last(page.entries),
                    !.end = page.end]
    /\ UNCHANGED <<disc, treeVars>>

Read(count) ==
    /\ client.op = "read" /\ ~client.end
    /\ LET reply == Reply(client.node, client.at, count) IN
       client' = [client EXCEPT !.at = @ + reply.len, !.end = reply.end]
    /\ UNCHANGED <<disc, treeVars>>

\* NFS3ERR_IO: the engine has an error, or its task panicked.
ReadFails ==
    /\ client.op = "read" /\ ~client.end
    /\ "read" \in Failures
    /\ client' = [client EXCEPT !.op = "failed"]
    /\ UNCHANGED <<disc, treeVars>>

\* One that has had an error may ask again, from wherever it likes.
Close ==
    /\ client.end \/ client.op = "failed"
    /\ client' = NoClient
    /\ UNCHANGED <<disc, treeVars>>

Serve == (\E max \in 1..MaxPage : ReadDir(max)) \/ (\E count \in 1..MaxCount : Read(count))

Next == Walk \/ Serve \/ ReadFails \/ Close \/ \E n \in DOMAIN nodes : Open(n)

Spec == Init /\ [][Next]_vars

\* The walk goes on, and the kernel reads on; it need not begin.
FairSpec == Spec /\ WF_vars(Walk) /\ WF_vars(Serve)

-----------------------------------------------------------------------------
(* Properties *)

\* Every variable keeps to its type: numbers are given out once and in order,
\* and every name the walk has noted leads to a node below its directory.
TypeOK ==
    /\ nextId \in Nat /\ DOMAIN nodes \subseteq 1..(nextId - 1)
    /\ \A n \in DOMAIN nodes : nodes[n].parent \in DOMAIN nodes /\ ToSet(nodes[n].children) \subseteq DOMAIN nodes
    /\ \A key \in DOMAIN lookup : nodes[lookup[key]].parent = key[1] /\ nodes[lookup[key]].name = key[2]
    /\ scan \in {"walking", "done", "failed"} /\ (frames # <<>> <=> scan = "walking")
    /\ client.op \in {"none", "list", "read", "failed"} /\ client.node \in DOMAIN nodes \cup {None}
    /\ client.at \in Nat /\ client.end \in BOOLEAN

\* RawUdf::lookup may find another entry than the one a node was made of: one
\* before it that differs in case only, or a .DS_Store, which is no node.
Namesake(n) ==
    /\ n # Root /\ disc.mode = "udf"
    /\ \/ Upper[nodes[n].name] = Upper[DSStore]
       \/ \E m \in DOMAIN nodes \ {Root} : m < n /\ nodes[m].parent = nodes[n].parent
                                         /\ Upper[nodes[m].name] = Upper[nodes[n].name]

\* "The virtual tree mirrors the disc ... minus the copy-protection
\* directories": below each directory the names a client can look up, and those
\* it is listed, are those of the disc that are to be seen, each once, and `..`
\* leads back (DiscTree::walk, walk_udf, BdFs::lookup).  It is another one's
\* entries that a directory with a namesake before it has.
Visible(n) ==
    {e \in ToSet(disc.dirs[nodes[n].entry.icb]) :
        /\ e.kind \in {"dir", "file"} /\ <<n, e>> \notin skipped
        /\ e.name # DSStore /\ (n = Root => Upper[e.name] \notin HiddenRootDirs)}

Mirror ==
    scan = "done" => \A n \in {d \in DOMAIN nodes : IsDir(d) /\ ~Namesake(d)} :
        LET kids == nodes[n].children IN
        /\ Len(kids) = Cardinality(Visible(n))
        /\ \A e \in Visible(n) :
             /\ Lookup(n, e.name) \in ToSet(kids)
             /\ nodes[Lookup(n, e.name)].entry = e
             /\ e.kind = "dir" => Lookup(Lookup(n, e.name), "..") = n

\* A path leads to the entry its node was made of, so that what is listed, sized
\* and read through it is that directory or file, unless the node has a namesake
\* before it (RawUdf::lookup).
PathsLead == \A n \in DOMAIN nodes : ~Namesake(n) => Find(disc, nodes[n].path) = nodes[n].entry

\* Two streams have the same name flags, and with that the same keys in libmmbd
\* and in the cache, only when their names differ in case only (classify).
FlagsOwn ==
    \A m, n \in DOMAIN nodes :
        m # n /\ nodes[m].kind = "encrypted" /\ nodes[m].flags = nodes[n].flags
            => [i \in DOMAIN nodes[m].path |-> Upper[nodes[m].path[i]]] =
               [i \in DOMAIN nodes[n].path |-> Upper[nodes[n].path[i]]]

\* A listing that has come to its end gave every entry once and in order,
\* whatever the sizes of its pages; a file that has was read to its last byte,
\* whatever came short on the way (BdFs::readdir, BdFs::read).
ClientComplete ==
    client.end =>
        IF client.op = "list" THEN client.got = nodes[client.node].children
        ELSE client.at = nodes[client.node].size

\* Whatever a client begins comes to its end: no page and no reply leaves it
\* where it was for ever, unless it is answered with an error, or is where the
\* source of a file ends before the size it was given: there every reply is empty
\* and none says that the file is at its end (vfs.rs, `eof`).
Stranded ==
    client.op = "read" /\ client.at = nodes[client.node].data
                       /\ nodes[client.node].data < nodes[client.node].size

ClientEnds == client.op # "none" ~> client.end \/ client.op = "failed" \/ Stranded
=============================================================================
