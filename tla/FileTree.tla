--------------------------------- MODULE FileTree ---------------------------------
(*********************************************************************************)
(* What a FileSystem promises to the one who writes: a tree of folders, files and   *)
(* attributes under paths, which changes with every call and is made permanent, or  *)
(* taken back, as a whole.                                                          *)
(*********************************************************************************)
EXTENDS Integers, Sequences, SequencesExt, Functions, FiniteSetsExt, TLC

CONSTANTS
  Paths,                \* sequences of names; the root is <<>>
  LongNames,            \* names that no entry can have
  Attributes,           \* values of attributes
  LongValues,           \* those of them that no attribute can have
  Imports,              \* sequences of files and folders that come in together
  MaxHandles

VARIABLES
  entries,              \* path -> what is there
  committed,            \* the entries of the last commit
  writers, readers,     \* handle -> path and content; handle -> content
  answer                \* what the last call returned

vars == <<entries, committed, writers, readers, answer>>

IsFolder == [type |-> "Folder"]
Attribute(value) == [type |-> "Attribute", value |-> value]
File(content) == [type |-> "File", content |-> content]

No == <<>>
Yes == <<0>>
Handle(h) == <<h>>
Removed(n) == <<n>>
Said(kind, what) == <<-2, kind>> \o what
Shown(names) == <<-1>> \o names
Threw == <<-4>>
Equal == <<1, 1>>
NotEqual == <<1, 2>>
NotFound == <<1, 3>>

Above(p) == {SubSeq(p, 1, n) : n \in 1 .. Len(p) - 1}
At(p) == {q \in DOMAIN entries : IsPrefix(p, q)}
Present(p) == p = <<>> \/ p \in DOMAIN entries
EntryAt(p) == IF p = <<>> THEN IsFolder ELSE entries[p]
Type(p) == EntryAt(p).type
IsOther(p, type) == Present(p) /\ Type(p) # type

(* The folders above a path are made where they are missing. *)
Blocked(p) == \E q \in Above(p) : IsOther(q, "Folder")
WithFolders(p) == entries @@ [q \in Above(p) |-> IsFolder]

(* A name no entry can have throws, if the way down comes to it.                      *)
Before(p) == {SubSeq(p, 1, n) : n \in 1 .. Min({i \in DOMAIN p : p[i] \in LongNames}) - 1}
TooLong(p) == \E i \in DOMAIN p : p[i] \in LongNames
CreateThrows(p) == TooLong(p) /\ \A q \in Before(p) : ~IsOther(q, "Folder")
LookThrows(p) == TooLong(p) /\ \A q \in Before(p) : Present(q) /\ Type(q) = "Folder"

Look(a) == answer' = a /\ UNCHANGED <<entries, committed, writers, readers>>
Change(now, a) == answer' = a /\ entries' = now /\ UNCHANGED <<committed, writers, readers>>

Rollback(a) ==
  /\ answer' = a /\ writers' = <<>> /\ readers' = <<>>
  /\ entries' = committed /\ UNCHANGED committed

Open(h, p, content, now) ==
  /\ answer' = Handle(h) /\ entries' = now
  /\ writers' = writers @@ (h :> [path |-> p, content |-> content])
  /\ UNCHANGED <<committed, readers>>

CreateFile(h, p) ==
  IF CreateThrows(p) THEN Rollback(Threw)
  ELSE IF Blocked(p) \/ IsOther(p, "File") THEN Look(No)
  ELSE Open(h, p, <<>>, p :> File(<<>>) @@ WithFolders(p))

AppendFile(h, p) ==
  IF CreateThrows(p) THEN Rollback(Threw)
  ELSE IF Blocked(p) \/ IsOther(p, "File") THEN Look(No)
  ELSE IF Present(p) THEN Open(h, p, entries[p].content, entries)
  ELSE Open(h, p, <<>>, p :> File(<<>>) @@ WithFolders(p))

ReadFile(h, p) ==
  IF LookThrows(p) THEN Look(Threw)
  ELSE IF ~Present(p) \/ IsOther(p, "File") THEN Look(No)
  ELSE /\ answer' = Handle(h) /\ readers' = readers @@ (h :> entries[p].content)
       /\ UNCHANGED <<entries, committed, writers>>

Write(h, block) ==
  /\ answer' = Handle(h) /\ writers' = [writers EXCEPT ![h].content = Append(@, block)]
  /\ UNCHANGED <<entries, committed, readers>>

Close(h) ==
  /\ answer' = Handle(h)
  /\ entries' = [entries EXCEPT ![writers[h].path] = File(writers[h].content)]
  /\ writers' = Restrict(writers, DOMAIN writers \ {h})
  /\ UNCHANGED <<committed, readers>>

CloseReader(h) ==
  /\ answer' = Handle(h) /\ readers' = Restrict(readers, DOMAIN readers \ {h})
  /\ UNCHANGED <<entries, committed, writers>>

MakeSubFolder(p) ==
  IF CreateThrows(p) THEN Rollback(Threw)
  ELSE IF Blocked(p) \/ IsOther(p, "Folder") THEN Look(No)
  ELSE Change(WithFolders(p) @@ (p :> IsFolder), Yes)

(* Only the folders above a path; its last name is left as it is.  Those above a name  *)
(* no entry can have stay.                                                             *)
Parent(p) == SubSeq(p, 1, Len(p) - 1)
WayTo(p) == IF TooLong(Parent(p)) THEN Before(p) ELSE Above(p)
Arrived(p) == IF TooLong(Parent(p)) THEN Threw ELSE Yes
CreatePath(p) ==
  IF \E q \in WayTo(p) : IsOther(q, "Folder") THEN Look(No)
  ELSE Change(entries @@ [q \in WayTo(p) |-> IsFolder], Arrived(p))
ReducePath(p) ==
  Look(IF \E q \in WayTo(p) : ~Present(q) \/ Type(q) # "Folder" THEN No ELSE Arrived(p))

AddAttribute(p, value) ==
  IF CreateThrows(p) THEN Rollback(Threw)
  ELSE IF Blocked(p) THEN Look(No)
  ELSE IF value \in LongValues THEN Rollback(Threw)
  ELSE IF IsOther(p, "Attribute") THEN Look(No)
  ELSE Change((p :> Attribute(value)) @@ WithFolders(p), Yes)

(* A rename that is refused has still made the folders above the new path. *)
Rename(p, q) ==
  IF LookThrows(p) THEN Rollback(Threw)
  ELSE IF \E r \in Above(p) : ~Present(r) \/ Type(r) # "Folder" THEN Look(No)
  ELSE IF CreateThrows(q) THEN Rollback(Threw)
  ELSE IF Blocked(q) THEN Look(No)
  ELSE IF ~Present(p) \/ Present(q) THEN Change(WithFolders(q), No)
  ELSE LET moved == {q \o SubSeq(r, Len(p) + 1, Len(r)) : r \in At(p)}
       IN Change([m \in moved |-> entries[p \o SubSeq(m, Len(q) + 1, Len(m))]]
                   @@ Restrict(WithFolders(q), DOMAIN WithFolders(q) \ At(p)), Yes)

RemovePath(p) ==
  IF LookThrows(p) THEN Rollback(Threw)
  ELSE Change(Restrict(entries, DOMAIN entries \ At(p)), Removed(Cardinality(At(p))))

(* What is at a path, with the value of an attribute and the size of a file; the size  *)
(* of an open file.                                                                   *)
Ask(p) ==
  Look(IF LookThrows(p) THEN Threw
       ELSE IF ~Present(p) THEN No
       ELSE CASE Type(p) = "Folder" -> Said(1, <<>>)
              [] Type(p) = "Attribute" -> Said(2, entries[p].value)
              [] Type(p) = "File" -> Said(3, <<Len(entries[p].content)>>))
AskWriter(h) == Look(Said(4, <<Len(writers[h].content)>>))
AskReader(h) == Look(Said(4, <<Len(readers[h])>>))

(* The elements of a set in an order: each after as many as are before it. *)
Sorted(S, Lt(_, _)) ==
  [i \in 1 .. Cardinality(S) |-> CHOOSE x \in S : Cardinality({y \in S : Lt(y, x)}) = i - 1]

(* The names in a folder, in order; those from a path on; those with what they are. *)
NamesIn(p) == {Last(q) : q \in {r \in At(p) : Len(r) = Len(p) + 1}}
InOrder(names) == Sorted(names, LAMBDA m, n : m < n)
List(p) == Look(<<-3>> \o InOrder(NamesIn(p)))
Dir(p) ==
  Look(IF LookThrows(p) THEN Threw
       ELSE <<-3>> \o InOrder({n \in NamesIn(Parent(p)) : n >= Last(p)}))
ListFolder(p) ==
  LET names == InOrder(NamesIn(p))
      Shape(entry) ==
        CASE entry.type = "Folder" -> <<>>
          [] entry.type = "Attribute" -> Tail(entry.value)
          [] entry.type = "File" -> <<Len(entry.content)>>
  IN Present(p) /\ Type(p) = "Folder"
     /\ Look(<<-5>> \o FlattenSeq([i \in DOMAIN names |->
                                     <<names[i]>> \o Shape(entries[Append(p, names[i])])]))

(* The tree below p, from which each entry goes to a place below q. *)
Moved(p, q, r) == q \o SubSeq(r, Len(p) + 1, Len(r))
Preorder(r, s) ==
  \/ IsStrictPrefix(r, s)
  \/ \E i \in DOMAIN r \cap DOMAIN s : r[i] < s[i] /\ SubSeq(r, 1, i - 1) = SubSeq(s, 1, i - 1)
Tree(p) == At(p) \cup ({<<>>} \cap {p})
Walk(p) == Sorted(Tree(p), Preorder)

Visit(p) == Look(Shown([i \in DOMAIN Walk(p) |-> IF Walk(p)[i] = <<>> THEN 0 ELSE Last(Walk(p)[i])]))

(* The first entry that is missing or another one says how the trees compare. *)
Compare(p, q) ==
  LET Differ(r) == Type(r) # "Folder" /\ EntryAt(r) # EntryAt(Moved(p, q, r))
      Result(r) == IF ~Present(Moved(p, q, r)) THEN NotFound
                   ELSE IF Type(r) # Type(Moved(p, q, r)) \/ Differ(r) THEN NotEqual ELSE Equal
      bad == SelectSeq(Walk(p), LAMBDA r : Result(r) # Equal)
  IN Look(IF bad = <<>> THEN Equal ELSE Result(Head(bad)))

(* What can be copied: what meets nothing, or something of its kind, on the way down. *)
CopiedFrom(p, q) ==
  {r \in Tree(p) : \A s \in {u \in Tree(p) : IsPrefix(u, r)} :
                    Present(Moved(p, q, s)) => Type(s) = Type(Moved(p, q, s))}
Copy(p, q, a) ==
  LET from == CopiedFrom(p, q)
      to == {Moved(p, q, r) : r \in from} \ {<<>>}
      Origin(m) == p \o SubSeq(m, Len(q) + 1, Len(m))
  IN IF ~Present(p) \/ Blocked(q) THEN Look(IF a = Yes THEN a ELSE Removed(0))
     ELSE Change([m \in to |-> EntryAt(Origin(m))] @@ WithFolders(q),
                 IF a = Yes THEN a ELSE Removed(Cardinality(from)))

(* Of the folders that come in only those with something in them are made. *)
Import(q, all) ==
  LET files == {e \in ToSet(all) : e.kind = "File"}
      above == UNION {Above(q \o e.path) : e \in ToSet(all)}
      ContentOf(path) == (CHOOSE e \in files : q \o e.path = path).content
  IN Change([path \in {q \o e.path : e \in files} |-> File(ContentOf(path))]
              @@ entries @@ [r \in above |-> IsFolder], Yes)

(* Open files are closed first. *)
Commit ==
  LET paths == {writers[h].path : h \in DOMAIN writers}
      Content(p) == writers[CHOOSE h \in DOMAIN writers : writers[h].path = p].content
  IN /\ answer' = Yes /\ writers' = <<>> /\ readers' = <<>>
     /\ entries' = [p \in paths |-> File(Content(p))] @@ entries
     /\ committed' = entries'

Init ==
  /\ committed = entries /\ writers = <<>> /\ readers = <<>> /\ answer = No
  /\ \A p \in DOMAIN entries : \A q \in Above(p) : Present(q) /\ entries[q] = IsFolder

Next ==
  \/ \E h \in DOMAIN writers : Close(h) \/ AskWriter(h) \/ \E block \in 1 .. MaxHandles : Write(h, block)
  \/ \E h \in DOMAIN readers : CloseReader(h) \/ AskReader(h)
  \/ \E h \in 1 .. MaxHandles, p \in Paths : CreateFile(h, p) \/ AppendFile(h, p) \/ ReadFile(h, p)
  \/ \E p \in Paths : MakeSubFolder(p) \/ RemovePath(p) \/ Ask(p) \/ CreatePath(p) \/ ReducePath(p)
  \/ \E p \in Paths : Dir(p) \/ ListFolder(p)
  \/ \E p \in Paths : \E value \in Attributes : AddAttribute(p, value)
  \/ Commit \/ Rollback(Yes)
  \/ \E p \in Paths \cup {<<>>} : List(p) \/ Visit(p) \/ \E all \in Imports : Import(p, all)
  \/ \E p, q \in Paths : Rename(p, q)
  \/ \E p, q \in Paths \cup {<<>>} : Compare(p, q)
  \/ \E p, q \in Paths \cup {<<>>} : Copy(p, q, No) \/ Copy(p, q, Yes)

Spec == Init /\ [][Next]_vars
===================================================================================
