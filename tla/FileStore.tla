----------------------------- MODULE FileStore -----------------------------
(***************************************************************************)
(* The files kept in memory (src/src/main.h) and the directory in which a  *)
(* terminal looks for what is typed (src/src/main.c). There are no folders *)
(* but in the names: a folder is a beginning of a name that ends in "/".   *)
(***************************************************************************)
EXTENDS Naturals, Sequences, FiniteSets, SequencesExt, FiniteSetsExt

CONSTANTS
  Letters,    \* the characters of names
  Names,      \* full names a file can have: sequences of characters
  BootFiles,  \* the names of what is read from the disk at boot
  BootFolders,  \* those of folders, which are listed as files of no size
  Lines       \* what can be typed

FileStoreAssumption ==
  /\ BootFiles \subseteq Names /\ IsFiniteSet(BootFiles) /\ BootFolders \subseteq BootFiles
  /\ "/" \in Letters
  /\ Names \subseteq Seq(Letters) \ {<<>>} /\ Lines \subseteq Seq(Letters)
  /\ \A n \in Names : n[1] = "/" /\ Last(n) # "/"

Root == <<"/">>
Up == <<".", ".">>

VARIABLES
  files,             \* the list: a name, whether it has any contents, and
                     \* whether its blocks come from the allocator
  terminalDirectory

vars == <<files, terminalDirectory>>

(* A folder is added after all that is in it.                              *)
Orders ==
  {order \in SetToSeqs(BootFiles) :
     \A i, j \in DOMAIN order :
       order[j] \in BootFolders /\ IsPrefix(order[j] \o Root, order[i]) => i < j}

addFiles(order) ==
  [i \in 1 .. Len(order) |->
     [name |-> order[i], empty |-> order[i] \in BootFolders, owned |-> FALSE]]

Init ==
  /\ \E order \in Orders : files = addFiles(order)
  /\ terminalDirectory = Root

Stored(name) == {i \in DOMAIN files : files[i].name = name}

-----------------------------------------------------------------------------
(* Both writeFile and deleteFile return a file's blocks to the allocator,  *)
(* whose search has no end when they come from the disk.                   *)
writeFile(name, none) ==
  /\ \A i \in Stored(name) : files[i].owned
  /\ files' = LET new == [name |-> name, empty |-> none, owned |-> TRUE] IN
              IF Stored(name) = {} THEN Append(files, new)
              ELSE [files EXCEPT ![Min(Stored(name))] = new]
  /\ UNCHANGED terminalDirectory

deleteFile(name) ==
  /\ \A i \in Stored(name) : files[i].owned
  /\ files' = IF Stored(name) = {} THEN files ELSE RemoveAt(files, Min(Stored(name)))
  /\ UNCHANGED terminalDirectory

checkFile(name) == \E i \in Stored(name) : ~files[i].empty

checkFolder(name) == Last(name) = "/" /\ \E i \in DOMAIN files : IsPrefix(name, files[i].name)

Shown(root, recursive, name) ==
  /\ IsPrefix(root, name)
  /\ recursive \/ ~Contains(SubSeq(name, Len(root) + 1, Len(name)), "/")

(* The places of the files that are listed, which keep their order.        *)
getFiles(root, recursive) == {i \in DOMAIN files : Shown(root, recursive, files[i].name)}

(* What ".." leaves: up to the last "/" but one.                           *)
Parent(directory) ==
  SubSeq(directory, 1, Max({i \in 1 .. Len(directory) - 1 : directory[i] = "/"}))

(* Broken: whatever looks like a folder is one.                            *)
TypeUnchecked(line) ==
  /\ terminalDirectory' =
       IF Last(line) = "/" THEN terminalDirectory \o line ELSE terminalDirectory
  /\ Len(terminalDirectory \o line) <= 8
  /\ UNCHANGED files

(* A line typed at the terminal: a file is executed, or refused; a folder  *)
(* becomes the directory. Other commands do not change it.                 *)
Type(line) ==
  /\ LET path == terminalDirectory \o line IN
       terminalDirectory' =
         IF checkFile(path) THEN terminalDirectory
         ELSE IF checkFolder(path) THEN path
         ELSE IF line = Up /\ terminalDirectory # Root THEN Parent(terminalDirectory)
         ELSE terminalDirectory
  /\ UNCHANGED files

Next ==
  \/ \E name \in Names : deleteFile(name) \/ \E none \in BOOLEAN : writeFile(name, none)
  \/ \E line \in Lines : Type(line)

Spec == Init /\ [][Next]_vars

-----------------------------------------------------------------------------
Slashes(name) == {i \in DOMAIN name : name[i] = "/"}

(* The names' beginnings that end in "/".                                  *)
Folders == {Root} \cup UNION {{SubSeq(n, 1, i) : i \in Slashes(n)} : n \in Names}

TypeOK ==
  /\ files \in Seq([name : Names, empty : BOOLEAN, owned : BOOLEAN])
  /\ \A i, j \in DOMAIN files : files[i].name = files[j].name => i = j
  /\ terminalDirectory \in Folders

(* No line leads from a folder that has files to one that has none: only   *)
(* removing files leaves a terminal in a folder that is not there.         *)
StaysInFolders ==
  [][files' = files /\ checkFolder(terminalDirectory) => checkFolder(terminalDirectory)']_vars

(* The folder above is the one with a single name less.                    *)
UpIsOneUp ==
  terminalDirectory # Root =>
    LET up == Parent(terminalDirectory) IN
      /\ up \in Folders
      /\ Slashes(up) = Slashes(terminalDirectory) \ {Len(terminalDirectory)}

(* Listing every folder by itself shows every file exactly once.           *)
ListingsShowAll ==
  \A i \in DOMAIN files : \E home \in Folders : \A f \in Folders :
    checkFolder(f) /\ i \in getFiles(f, FALSE) <=> f = home

(* Every file can be reached, and every folder left, through the terminal. *)
Inv == TypeOK /\ UpIsOneUp /\ ListingsShowAll
=============================================================================
