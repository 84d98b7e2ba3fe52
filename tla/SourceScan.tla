------------------------------ MODULE SourceScan ------------------------------
(***************************************************************************)
(* What a send announces: the two walks of FileScanner over each input     *)
(* path while other programs change the tree under them, and the check of  *)
(* SendService before it connects.  A directory is listed when a walk      *)
(* comes to it and its entries keep the kind they had then; sizes are read *)
(* and subdirectories opened when the walk gets there.                     *)
(***************************************************************************)
EXTENDS Integers, Sequences, FiniteSets, SequencesExt

CONSTANTS
  Word,         \* what paths are made of: arguments of the program and names
  Path,         \* the paths at and below the input paths: the input path, names
  BaseName,     \* BaseName[w]: last part of the input path w, "" if w is "dir/"
  Rank,         \* Rank[t]: the place of an announced path among the strings
  MaxChanges    \* bound of the model on what other programs change

VARIABLES
  tree,          \* the kind of each path: "none", "file", "directory", "link"
  changes,       \* the paths that were changed since the scan began
  inputs,        \* the request's paths
  index,         \* the one being walked
  walk,          \* "idle", "files", "directories", "accepted", "failed"
  opened,        \* whether the current walk has opened its input path
  todo,          \* entries the walk has still to visit, with their kinds
  found,         \* what the walk has found
  files,         \* entries: what was found, sorted within each input
  directories

scanVars == <<tree, changes, inputs, index, walk, opened, todo, found, files, directories>>

Kinds     == {"none", "file", "directory", "link"}
Root(p)   == Len(p) = 1
Inside(p) == {q \in Path : IsPrefix(p, q)}
KindOf(p) == IF p \in Path THEN tree[p] ELSE "none"

\* The path p is announced under.
Target(p) == [p EXCEPT ![1] = BaseName[@]]

\* A path has the directories it lies in with it.  Strings are ordered: no two
\* have the same place, and none comes before the directories it names.
ASSUME ScanAssumption ==
  /\ IsFiniteSet(Path) /\ Path \subseteq Seq(Word) \ {<<>>}
  /\ \A p \in Path : \A n \in 1..Len(p) : SubSeq(p, 1, n) \in Path
  /\ \A p, q \in Path :
       /\ Rank[Target(p)] \in Nat
       /\ Rank[Target(p)] = Rank[Target(q)] => Target(p) = Target(q)
       /\ IsPrefix(Target(p), Target(q)) => Rank[Target(p)] <= Rank[Target(q)]

\* What contains something is a directory.
Trees == {t \in [Path -> Kinds] :
           \A p \in Path : t[p] # "none" =>
             \A q \in Path : IsStrictPrefix(q, p) => t[q] = "directory"}

ScanInit ==
  /\ tree = [p \in Path |-> "none"] /\ changes = {}
  /\ inputs = <<>> /\ index = 1 /\ walk = "idle"
  /\ opened = FALSE /\ todo = {} /\ found = {}
  /\ files = <<>> /\ directories = <<>>

-----------------------------------------------------------------------------
\* The first look at the disk: any consistent tree; what is not inside an input
\* path is of no interest.
BeginScan(paths) ==
  /\ walk = "idle" /\ walk' = "files" /\ inputs' = paths
  /\ tree' \in {t \in Trees : \A p \in Path : Root(p) /\ p[1] \notin Range(paths) => t[p] = "none"}
  /\ UNCHANGED <<changes, index, opened, todo, found, files, directories>>

Scanning == walk \in {"files", "directories"} /\ index <= Len(inputs)
Current  == <<inputs[index]>>

Throws ==
  /\ walk' = "failed"
  /\ opened' = FALSE /\ todo' = {} /\ found' = {} /\ files' = <<>> /\ directories' = <<>>
  /\ UNCHANGED <<tree, changes, inputs, index>>

Listed(p) == {<<c, tree[c]>> : c \in {d \in Path : ~Root(d) /\ Front(d) = p /\ tree[d] # "none"}}

\* The walk goes on with these entries besides, and with p if it looks for kind.
Takes(p, kind, entries) ==
  /\ found' = IF (walk = "files") = (kind = "file") THEN found \cup {p} ELSE found
  /\ todo' = (todo \ {<<p, kind>>}) \cup entries
  /\ opened' = TRUE
  /\ UNCHANGED <<tree, changes, inputs, index, walk, files, directories>>

\* A path that does not exist, is a link or has no name is an error (without a
\* name it can only be a directory); a single file is one entry of the first
\* walk and none of the second.
OpenInput ==
  /\ Scanning /\ ~opened
  /\ \/ KindOf(Current) \in {"none", "link"} /\ Throws
     \/ Target(Current) = <<"">> /\ Throws
     \/ Target(Current) # <<"">> /\ KindOf(Current) = "file" /\ Takes(Current, "file", {})
     \/ Target(Current) # <<"">> /\ KindOf(Current) = "directory"
          /\ Takes(Current, "directory", Listed(Current))

\* Faulty variant: a link is passed over.
VisitPastLinks(p, kind) ==
  \/ kind = "link" /\ Takes(p, kind, {})
  \/ kind = "file" /\ walk = "files" /\ tree[p] # "file" /\ Throws
  \/ kind = "file" /\ (walk = "directories" \/ tree[p] = "file") /\ Takes(p, kind, {})
  \/ kind = "directory" /\ tree[p] # "directory" /\ Throws
  \/ kind = "directory" /\ tree[p] = "directory" /\ Takes(p, kind, Listed(p))

\* The next entry of the recursive iterator: file_size() and opening the
\* directory fail if the entry has become something else.
Visit(p, kind) ==
  \/ kind = "link" /\ Throws
  \/ kind = "file" /\ walk = "files" /\ tree[p] # "file" /\ Throws
  \/ kind = "file" /\ (walk = "directories" \/ tree[p] = "file") /\ Takes(p, kind, {})
  \/ kind = "directory" /\ tree[p] # "directory" /\ Throws
  \/ kind = "directory" /\ tree[p] = "directory" /\ Takes(p, kind, Listed(p))

VisitNext == Scanning /\ opened /\ \E entry \in todo : Visit(entry[1], entry[2])

Sorted(paths) ==
  CHOOSE list \in [1..Cardinality(paths) -> paths] :
    \A i, j \in DOMAIN list : i < j => Rank[Target(list[i])] < Rank[Target(list[j])]

\* The walk's result is sorted and appended; after the files of an input come
\* its directories, then the next input.
EndWalk ==
  /\ Scanning /\ opened /\ todo = {}
  /\ opened' = FALSE /\ found' = {}
  /\ \/ /\ walk = "files" /\ walk' = "directories"
        /\ files' = files \o Sorted(found) /\ UNCHANGED <<directories, index>>
     \/ /\ walk = "directories" /\ walk' = "files"
        /\ directories' = directories \o Sorted(found) /\ index' = index + 1
        /\ UNCHANGED files
  /\ UNCHANGED <<tree, changes, inputs, todo>>

Announced == directories \o files
Names(paths) == [i \in DOMAIN paths |-> Target(paths[i])]

\* Faulty variant: files and directories are only compared among themselves.
UniqueByKind == IsInjective(Names(directories)) /\ IsInjective(Names(files))

UniqueTargets == IsInjective(Names(Announced))

Validate ==
  /\ walk = "files" /\ index > Len(inputs)
  /\ \/ UniqueTargets /\ walk' = "accepted"
        /\ UNCHANGED <<tree, changes, inputs, index, opened, todo, found, files, directories>>
     \/ ~UniqueTargets /\ Throws

ScanStep == OpenInput \/ VisitNext \/ EndWalk \/ Validate

\* Another program creates, removes or replaces something at or below an input
\* path.  A link it makes leads nowhere.
ChangeTree ==
  /\ Scanning /\ Cardinality(changes) < MaxChanges
  /\ \E p \in Path : \E kind \in Kinds \ {tree[p]} :
       /\ Root(p) => p[1] \in Range(inputs)
       /\ ~Root(p) /\ kind # "none" => tree[Front(p)] = "directory"
       /\ tree' = [q \in Path |-> IF q = p THEN kind
                                  ELSE IF q \in Inside(p) THEN "none" ELSE tree[q]]
       /\ changes' = changes \cup Inside(p)
  /\ UNCHANGED <<inputs, index, walk, opened, todo, found, files, directories>>

-----------------------------------------------------------------------------
(* Properties. *)

\* Whatever other programs do to the rest of the tree meanwhile, everything they
\* leave alone is announced as what it is: the empty directories too, and never
\* the rest of a tree that has a link in it (FileScanner.cpp 22-103).
UntouchedIsAnnounced ==
  walk = "accepted" =>
    \A i \in DOMAIN inputs : \A p \in Inside(<<inputs[i]>>) \ changes :
      /\ tree[p] # "link"
      /\ tree[p] = "file" <=> p \in Range(files)
      /\ tree[p] = "directory" <=> p \in Range(directories)

\* No input path itself was made, removed or replaced since the scan began.
RootsKept == \A i \in DOMAIN inputs : <<inputs[i]>> \notin changes

\* The receiver refuses a target that exists, and makes the directories above
\* each target.  In an empty save directory no announced item may be refused
\* because of another one: none comes after itself or something inside it, and
\* nothing lies inside a file (SendService.cpp 30-47, FileScanner.cpp 14-18).
\* That is so whatever changes below the input paths; of two inputs of one name
\* a folder and the file that replaced it may both be announced.
AnnouncementIsCreatable ==
  walk = "accepted" /\ RootsKept =>
    \A i, j \in DOMAIN Announced :
      /\ i < j => ~IsPrefix(Target(Announced[j]), Target(Announced[i]))
      /\ i # j /\ i > Len(directories) => ~IsPrefix(Target(Announced[i]), Target(Announced[j]))
=============================================================================
