--------------------------- MODULE Session_proof ---------------------------
(* What a program started by root writes belongs to the owner of the        *)
(* directory, and a yanked file holds its own fork or a stale one, for any  *)
(* catalog, any options and any world.                                      *)
(*                                                                          *)
(* The second part is about the commands: in a catalog in order, a path is  *)
(* found when its names lead somewhere, and a folder is listed with all its *)
(* children.  The third is about the summary, which counts what is there.   *)
EXTENDS Session, FiniteSetTheorems, SequenceTheorems, WellFoundedInduction, TLAPS

\* Before the privileges are dropped.
Started == {"options", "open", "find", "drop"}
Ended == {"exited", "crashed"}

\* Nothing is written before the privileges are dropped, what is written later is
\* written only when the command line asks for output, and then the program runs
\* as the owner of the directory.
Inductive ==
  /\ world.euid = "root" => \A o \in out : o.by = world.owner
  /\ at \in Started => euid = world.euid
  /\ at \notin Started \cup Ended /\ Outputs /\ world.euid = "root" => euid = world.owner
  /\ at \in {"yank", "lookup", "looking"} => "yank" \in options.mode
  /\ at = "request" => Requests[k] \in Wanted
  /\ k \in Nat

\* The next request is one of those that are left.
LEMMA NextRequest ==
  ASSUME NEW n \in Nat, Remaining(n) # {}
  PROVE  Min(Remaining(n)) \in Nat /\ Requests[Min(Remaining(n))] \in Wanted
<1> DEFINE s == Remaining(n)
<1>1. s \subseteq 1..10 /\ \A m \in s : Requests[m] \in Wanted
  BY DEF Remaining, Requests
<1>2. s # {}
  OBVIOUS
<1> HIDE DEF s
<1>3. \E m \in s : \A l \in s : m <= l
  <2>1. PICK l \in s : l \in 1..10
    BY <1>1, <1>2
  <2>2. 1 \in s \/ 2 \in s \/ 3 \in s \/ 4 \in s \/ 5 \in s \/ 6 \in s \/ 7 \in s
        \/ 8 \in s \/ 9 \in s \/ 10 \in s
    BY <2>1
  <2> QED
    BY <1>1, <2>2
<1>4. Min(s) \in s
  BY <1>3 DEF Min
<1> QED
  BY <1>1, <1>4 DEF s

LEMMA ProceedKeeps ==
  ASSUME Inductive, Proceed, UNCHANGED options
  PROVE  /\ at' \in {"done", "request"} /\ k' \in Nat
         /\ at' = "request" => Requests'[k'] \in Wanted'
<1>1. CASE Remaining(k) = {}
  BY <1>1 DEF Proceed, Inductive
<1>2. CASE Remaining(k) # {}
  <2>1. at' = "request" /\ k' = Min(Remaining(k))
    BY <1>2 DEF Proceed
  <2>2. k' \in Nat /\ Requests[k'] \in Wanted
    BY <1>2, <2>1, NextRequest DEF Inductive
  <2> QED
    BY <2>1, <2>2 DEF Wanted, Requests
<1> QED
  BY <1>1, <1>2

\* An action that writes nothing and keeps the user, between two steps of main
\* behind the drop of the privileges.
LEMMA QuietKeeps ==
  ASSUME Inductive, at \notin Started \cup Ended, UNCHANGED <<options, world, euid, out>>,
         at' \notin Started, at' \notin {"yank", "lookup", "looking"}, k' \in Nat,
         at' = "request" => Requests'[k'] \in Wanted'
  PROVE  Inductive'
BY DEF Inductive, Outputs, Started, Ended

LEMMA WrittenBy ==
  ASSUME NEW S
  PROVE  \A o \in Written(S) : o.by = euid
BY DEF Written

\* Options, device and file system: nothing is written, and the user stays.
LEMMA BeforeDrop ==
  ASSUME Inductive,
         Usage \/ Options \/ OpenDevice \/ OpenRaw \/ OpenFails \/ Find \/ NoDirectory
  PROVE  Inductive'
<1>1. /\ at \in Started /\ at' \in Started \cup Ended /\ UNCHANGED <<options, world, k, euid, out>>
  BY DEF Usage, Options, OpenDevice, OpenRaw, OpenFails, Find, NoDirectory, Started, Ended,
         Exit, Given
<1> QED
  BY <1>1 DEF Inductive, Started, Ended

\* The user becomes the owner of the directory exactly if output is asked for.
LEMMA DropKeeps ==
  ASSUME Inductive, Drop
  PROVE  Inductive'
<1>1. /\ at = "drop" /\ UNCHANGED <<options, world, k, out>>
      /\ euid' = IF euid # "root" THEN euid ELSE IF Outputs THEN world.owner ELSE "nobody"
      /\ at' = IF "yank" \in options.mode THEN "yank" ELSE "info"
  BY DEF Drop, Given
<1>2. euid = world.euid
  BY <1>1 DEF Inductive, Started
<1>3. at' \in {"yank", "info"} /\ (at' = "yank" => "yank" \in options.mode)
  BY <1>1
<1> QED
  BY <1>1, <1>2, <1>3 DEF Inductive, Outputs, Started, Ended

\* The steps of the yank: the files it writes are the owner's.
LEMMA YankKeeps ==
  ASSUME Inductive,
         YankBlocked \/ YankForks \/ BeginLookup \/ Looking \/ LookupFound \/ LookupMissing
  PROVE  Inductive'
<1>1. CASE YankBlocked
  <2>1. at' \in Ended /\ at = "yank" /\ UNCHANGED <<options, world, k, euid, out>>
    BY <1>1 DEF YankBlocked, Given, Exit, Crash, Ended
  <2> QED
    BY <2>1 DEF Inductive, Started, Ended
<1>2. CASE YankForks
  <2> DEFINE files == {Header} \cup {f \in Range(SpecialFiles) : HasLength(f)}
  <2>1. /\ at = "yank" /\ at' = "lookup" /\ k' = 1 /\ UNCHANGED <<options, world, euid>>
        /\ out' = Written(files)
    BY <1>2 DEF YankForks, Given
  <2> HIDE DEF files
  <2>2. \A o \in out' : o.by = euid
    BY <2>1, WrittenBy
  <2>3. "yank" \in options.mode /\ Outputs /\ (world.euid = "root" => euid = world.owner)
    BY <2>1 DEF Inductive, Outputs, Started, Ended
  <2> QED
    BY <2>1, <2>2, <2>3 DEF Inductive, Started, Outputs
<1>3. CASE BeginLookup
  BY <1>3 DEF BeginLookup, Given, Inductive, Started, Ended, Outputs
<1>4. CASE Looking
  BY <1>4 DEF Looking, mainVars, Inductive, Started, Ended, Outputs, Wanted, Requests
<1>5. CASE LookupFound
  <2>1. at = "looking" /\ AfterLookup /\ UNCHANGED <<options, world, euid, out>>
    BY <1>5 DEF LookupFound, Given
  <2>2. at' \in {"lookup", "info"} /\ k' \in Nat
    BY <2>1 DEF AfterLookup, CatalogFiles, Inductive
  <2> QED
    BY <2>1, <2>2 DEF Inductive, Started, Ended, Outputs
<1>6. CASE LookupMissing
  <2> DEFINE files == {[file |-> CatalogFiles[k], holds |-> record]}
  <2>1. /\ at = "looking" /\ AfterLookup /\ UNCHANGED <<options, world, euid>>
        /\ out' = out \cup Written(files)
    BY <1>6 DEF LookupMissing, Given
  <2> HIDE DEF files
  <2>2. at' \in {"lookup", "info"} /\ k' \in Nat
    BY <2>1 DEF AfterLookup, CatalogFiles, Inductive
  <2>3. "yank" \in options.mode /\ Outputs /\ (world.euid = "root" => euid = world.owner)
    BY <2>1 DEF Inductive, Outputs, Started, Ended
  <2>4. world.euid = "root" => \A o \in out' : o.by = world.owner
    BY <2>1, <2>3, WrittenBy DEF Inductive
  <2> QED
    BY <2>1, <2>2, <2>3, <2>4 DEF Inductive, Started, Outputs
<1> QED
  BY <1>1, <1>2, <1>3, <1>4, <1>5, <1>6

\* The requests that print write nothing.
LEMMA PrintingKeeps ==
  ASSUME Inductive,
         \/ Info \/ ShowStored \/ Journal
         \/ Summarise \/ Summarising \/ SummaryEnds
         \/ BeginCommand \/ Commanding \/ CommandEnds \/ CatalogCrashes
         \/ PrintTree
  PROVE  Inductive'
<1>1. at \in {"info", "request", "summary", "command", "looking"}
  BY DEF Info, ShowStored, Journal, Summarise, Summarising, SummaryEnds, BeginCommand,
         Commanding, CommandEnds, CatalogCrashes, PrintTree, AtRequest
<1>2. UNCHANGED <<options, world, euid, out>>
  BY DEF Info, ShowStored, Journal, Summarise, Summarising, SummaryEnds, BeginCommand,
         Commanding, CommandEnds, CatalogCrashes, PrintTree, Given, mainVars
<1>3. \/ Proceed
      \/ k' = k /\ at' \in {"exited", "crashed", "summary", "command"}
  BY DEF Info, ShowStored, Journal, Summarise, Summarising, SummaryEnds, BeginCommand,
         Commanding, CommandEnds, CatalogCrashes, PrintTree, Exit, Crash, mainVars
<1>4. /\ k' \in Nat
      /\ at' \in {"exited", "crashed", "summary", "command", "done", "request"}
      /\ at' = "request" => Requests'[k'] \in Wanted'
  <2>1. CASE Proceed
    BY <2>1, <1>2, ProceedKeeps
  <2>2. CASE k' = k /\ at' \in {"exited", "crashed", "summary", "command"}
    BY <2>2 DEF Inductive
  <2> QED
    BY <1>3, <2>1, <2>2
<1> QED
  BY <1>1, <1>2, <1>4, QuietKeeps DEF Started, Ended

\* The output of a tree, which is the last request.
LEMMA OutputKeeps ==
  ASSUME Inductive, OutputTree \/ OutputHotFiles \/ OutputNothing
  PROVE  Inductive'
<1>1. /\ at = "request" /\ Requests[k] = "output" /\ at' \in {"done"} \cup Ended /\ k' = k
      /\ UNCHANGED <<options, world, euid>>
  BY DEF OutputTree, OutputHotFiles, OutputNothing, AtRequest, Finish, Exit, Crash, Given, Ended
<1>2. Outputs /\ (world.euid = "root" => euid = world.owner)
  BY <1>1 DEF Inductive, Wanted, Outputs, Started, Ended
<1>3. world.euid = "root" => \A o \in out' : o.by = world.owner
  <2> DEFINE files == {[file |-> "output", holds |-> TreeFile]}
  <2>1. out' = out \/ out' = out \cup Written(files)
    BY DEF OutputTree, OutputHotFiles, OutputNothing
  <2> HIDE DEF files
  <2> QED
    BY <2>1, <1>2, WrittenBy DEF Inductive
<1> QED
  BY <1>1, <1>2, <1>3 DEF Inductive, Started, Ended, Outputs

\* Inductive holds through every run of main.
THEOREM InductiveHolds == SessionSpec => []Inductive
<1>1. SessionInit => Inductive
  BY DEF SessionInit, Inductive, Started, Ended
<1>2. Inductive /\ [SessionNext]_allVars => Inductive'
  <2> SUFFICES ASSUME Inductive, [SessionNext]_allVars PROVE Inductive'
    OBVIOUS
  <2>1. CASE SessionNext
    BY <2>1, BeforeDrop, DropKeeps, YankKeeps, PrintingKeeps, OutputKeeps DEF SessionNext
  <2>2. CASE UNCHANGED allVars
    BY <2>2 DEF allVars, mainVars, Inductive, Outputs, Wanted, Requests
  <2> QED
    BY <2>1, <2>2
<1> QED
  BY <1>1, <1>2, PTL DEF SessionSpec

\* Whatever main writes for root, yanked forks and the output of a tree, belongs
\* to the owner of the directory.
THEOREM WrittenByOwnerHolds == SessionSpec => []WrittenByOwner
<1>1. Inductive => WrittenByOwner
  BY DEF Inductive, WrittenByOwner
<1> QED
  BY InductiveHolds, <1>1, PTL

-----------------------------------------------------------------------------
(***************************************************************************)
(* The yank                                                                *)
(***************************************************************************)

RootKey == <<kHFSRootFolderID, 0>>
FileKey(n) == <<kHFSRootFolderID, NameOf[CatalogFiles[n]]>>
Over == Started \cup Ended \cup {"yank"}

\* What is known of the lookup of the n-th file while it goes on.
Lookup(n) ==
  /\ command.path = <<0, NameOf[CatalogFiles[n]]>>
  /\ pc \in {"path", "show", "missing", "crashed"}
  /\ pc = "path" => parentID = kHFSRootFolderID /\ (i = 1 \/ (i = 2 /\ Found(RootKey) # {}))
  /\ pc = "show" => spec = FileKey(n) /\ Found(RootKey) # {}
  /\ pc = "missing" => Found(RootKey) = {} \/ Found(FileKey(n)) = {}

\* A record that is kept is that of a file before the n-th, and where one was
\* found the thread of the root folder can be.
Kept(n) == record # 0 => Found(RootKey) # {} /\ \E m \in 1..n - 1 : record \in Own(CatalogFiles[m])

Owned == \A o \in out : o.file # "output" => o.holds \in Own(o.file) \/ Stale(o)

AllWritten == \A f \in Range(SpecialFiles) : HasLength(f) => \E o \in out : o.file = f.file

\* The files written so far hold what they should, and the ones written next will:
\* nothing is known of a record before the first lookup, then only ones of the
\* catalog files before.
Yanking ==
  /\ Owned
  /\ at \notin Over /\ "yank" \in options.mode => AllWritten
  /\ at \in Started \cup {"yank"} => record = 0
  /\ at \in {"lookup", "looking"} => k \in 1..3
  /\ \A n \in 1..3 : at \in {"lookup", "looking"} /\ k = n => Kept(n)
  /\ \A n \in 1..3 : at = "looking" /\ k = n => Lookup(n)

\* No command changes the catalog, so what can be found in it stays.
LEMMA SameCatalog ==
  ASSUME UNCHANGED catalog
  PROVE  /\ \A key : Found(key)' = Found(key)
         /\ \A file : Own(file)' = Own(file)
         /\ \A o : Stale(o)' = Stale(o)
<1>1. \A key : Found(key)' = Found(key)
  BY DEF Found, KeyOf
<1>2. \A file : Own(file)' = Own(file)
  BY DEF Own, Records, KeyOf
<1>3. \A o : Stale(o)' = Stale(o)
  BY <1>1, <1>2 DEF Stale
<1> QED
  BY <1>1, <1>2, <1>3

\* Every step leaves the catalog alone.
LEMMA CatalogStays ==
  ASSUME [SessionNext]_allVars
  PROVE  UNCHANGED catalog
<1>1. CASE Looking \/ Commanding
  BY <1>1 DEF Looking, Commanding, LookupStep, ShowStep, ListStep, PathMissing, PathStep,
              Aborted, ShowMissing, Follow, Show, BeginList, ListBreaks, Row, EndList, Fixed
<1>2. CASE BeginLookup \/ BeginCommand
  BY <1>2 DEF BeginLookup, BeginCommand, Give
<1>3. CASE UNCHANGED catalogVars
  BY <1>3 DEF catalogVars
<1>4. SessionNext => Looking \/ Commanding \/ BeginLookup \/ BeginCommand \/ UNCHANGED catalogVars
  BY DEF SessionNext, Usage, Options, OpenDevice, OpenRaw, OpenFails, Find, Drop, NoDirectory,
         YankBlocked, YankForks, LookupFound, LookupMissing, Info, ShowStored, Journal,
         Summarise, Summarising, SummaryEnds, CommandEnds, CatalogCrashes, PrintTree,
         OutputTree, OutputHotFiles, OutputNothing, Elsewhere
<1>5. UNCHANGED allVars => UNCHANGED catalogVars
  BY DEF allVars
<1> QED
  BY <1>1, <1>2, <1>3, <1>4, <1>5

\* A step that writes no file but an "output", and is not one of the lookups.
LEMMA OtherStep ==
  ASSUME Yanking, UNCHANGED catalog, UNCHANGED options, UNCHANGED world, UNCHANGED record,
         out \subseteq out', \A o \in out' \ out : o.file = "output",
         at' \notin {"lookup", "looking"},
         at' \in Started \cup {"yank"} => at \in Started \cup {"yank"},
         at' \notin Over /\ "yank" \in options.mode => at \notin Over
  PROVE  Yanking'
<1>1. Owned'
  BY SameCatalog DEF Yanking, Owned
<1>2. at' \notin Over /\ "yank" \in options.mode => AllWritten'
  BY DEF Yanking, AllWritten, HasLength, SpecialFiles
<1>3. at' \in Started \cup {"yank"} => record' = 0
  BY DEF Yanking
<1> QED
  BY <1>1, <1>2, <1>3 DEF Yanking

\* The header blocks and the special files are written under their own names.
LEMMA ForksAreOwn ==
  ASSUME NEW S, S \subseteq {Header} \cup Range(SpecialFiles)
  PROVE  /\ \A o \in Written(S) : o.holds \in Own(o.file)
         /\ \A f \in S : \E o \in Written(S) : o.file = f.file
<1>1. ASSUME NEW o \in Written(S) PROVE o.holds \in Own(o.file)
  <2>1. PICK f \in S : o = [file |-> f.file, holds |-> f.holds, by |-> euid]
    BY <1>1 DEF Written
  <2>2. o.file = f.file /\ o.holds = f.holds
    BY <2>1
  <2>3. f.holds \in Own(f.file)
    BY <2>1 DEF Own
  <2> QED
    BY <2>2, <2>3
<1>2. ASSUME NEW f \in S PROVE \E o \in Written(S) : o.file = f.file
  <2> DEFINE o == [file |-> f.file, holds |-> f.holds, by |-> euid]
  <2>1. o \in Written(S) /\ o.file = f.file
    BY DEF Written
  <2> QED
    BY <2>1
<1> QED
  BY <1>1, <1>2

LEMMA YankForksOwn ==
  ASSUME Inductive, Yanking, YankForks
  PROVE  Yanking'
<1> DEFINE S == {Header} \cup {f \in Range(SpecialFiles) : HasLength(f)}
<1>1. /\ at = "yank" /\ at' = "lookup" /\ k' = 1 /\ out' = Written(S)
      /\ UNCHANGED <<catalog, options, world, record>>
  BY DEF YankForks, Given, Elsewhere, catalogVars
<1>2. /\ \A o \in Written(S) : o.holds \in Own(o.file)
      /\ \A f \in S : \E o \in Written(S) : o.file = f.file
  <2>1. S \subseteq {Header} \cup Range(SpecialFiles)
    OBVIOUS
  <2> HIDE DEF S
  <2> QED
    BY <2>1, ForksAreOwn
<1>3. \A f \in Range(SpecialFiles) : HasLength(f) => f \in S
  OBVIOUS
<1> HIDE DEF S
<1>4. Owned'
  BY <1>1, <1>2, SameCatalog DEF Owned
<1>5. AllWritten'
  <2>1. \A f \in Range(SpecialFiles) : HasLength(f)' <=> HasLength(f)
    BY <1>1 DEF HasLength
  <2>2. \A f \in Range(SpecialFiles) : HasLength(f) => \E o \in out' : o.file = f.file
    BY <1>1, <1>2, <1>3
  <2> QED
    BY <2>1, <2>2 DEF AllWritten
<1>6. record' = 0
  BY <1>1 DEF Yanking
<1>7. \A n \in 1..3 : Kept(n)'
  BY <1>6 DEF Kept
<1> QED
  BY <1>1, <1>4, <1>5, <1>6, <1>7 DEF Yanking, Started

LEMMA BeginLookupOwn ==
  ASSUME Inductive, Yanking, BeginLookup
  PROVE  Yanking'
<1>1. /\ at = "lookup" /\ at' = "looking" /\ UNCHANGED <<catalog, options, world, record, k, out>>
      /\ pc' = "path" /\ i' = 1 /\ parentID' = kHFSRootFolderID
  BY DEF BeginLookup, Give, Given
<1>2. command'.path = <<0, NameOf[CatalogFiles[k]]>>
  BY DEF BeginLookup, Give
<1>3. Owned' /\ AllWritten'
  <2>1. Owned /\ AllWritten
    BY <1>1 DEF Inductive, Yanking, Over, Started, Ended
  <2>2. Owned'
    BY <1>1, <2>1, SameCatalog DEF Owned
  <2>3. AllWritten'
    BY <1>1, <2>1 DEF AllWritten, HasLength
  <2> QED
    BY <2>2, <2>3
<1>4. k' \in 1..3
  BY <1>1 DEF Yanking
<1>5. \A n \in 1..3 : k' = n => Kept(n)'
  <2> SUFFICES ASSUME NEW n \in 1..3, k' = n PROVE Kept(n)'
    OBVIOUS
  <2>1. Kept(n)
    BY <1>1 DEF Yanking
  <2> QED
    BY <1>1, <2>1, SameCatalog DEF Kept
<1>6. \A n \in 1..3 : k' = n => Lookup(n)'
  BY <1>1, <1>2 DEF Lookup
<1> QED
  BY <1>1, <1>3, <1>4, <1>5, <1>6 DEF Yanking, Started

\* A step of the lookup keeps what is known of it: the empty segment leaves the
\* root folder the parent, so the second search is for the file.
LEMMA LookupStepKeeps ==
  ASSUME NEW n \in 1..3, Lookup(n), LookupStep
  PROVE  Lookup(n)'
<1>1. UNCHANGED <<catalog, command>> /\ pc = "path"
  BY DEF LookupStep, PathMissing, PathStep, Aborted, Fixed
<1>2. \A key : Found(key)' = Found(key)
  BY <1>1, SameCatalog
<1>3. command.path = <<0, NameOf[CatalogFiles[n]]>> /\ command'.path = command.path
  BY <1>1 DEF Lookup
<1>4. /\ i = 1 => Segment = 0 /\ Searched = RootKey
      /\ i = 2 => Segment = NameOf[CatalogFiles[n]] /\ Searched = FileKey(n)
      /\ Len(command.path) = 2
  BY <1>1, <1>3 DEF Lookup, Segment, Searched, RootKey, FileKey
<1>5. i = 1 \/ (i = 2 /\ Found(RootKey) # {})
  BY <1>1 DEF Lookup
<1>6. CASE PathMissing
  <2>1. pc' = "missing" /\ Found(Searched) = {}
    BY <1>6 DEF PathMissing
  <2>2. Found(RootKey) = {} \/ Found(FileKey(n)) = {}
    BY <2>1, <1>4, <1>5
  <2> QED
    BY <2>1, <2>2, <1>2, <1>3 DEF Lookup
<1>7. CASE PathStep
  <2>1. PICK r \in Found(Searched) :
          /\ parentID' = IF Segment = 0 THEN parentID ELSE Descended(r)
          /\ pc' = IF i = Len(command.path) \/ (Segment # 0 /\ r.type = "file") THEN "show" ELSE "path"
    BY <1>7 DEF PathStep
  <2>2. spec' = Searched /\ i' = i + 1
    BY <1>7 DEF PathStep
  <2>3. CASE i = 1
    <3>1. pc' = "path" /\ parentID' = kHFSRootFolderID /\ i' = 2 /\ Found(RootKey) # {}
      BY <2>1, <2>2, <2>3, <1>1, <1>4 DEF Lookup
    <3> QED
      BY <3>1, <1>2, <1>3 DEF Lookup
  <2>4. CASE i = 2
    <3>1. pc' = "show" /\ spec' = FileKey(n) /\ Found(RootKey) # {}
      BY <2>1, <2>2, <2>4, <1>4, <1>5
    <3> QED
      BY <3>1, <1>2, <1>3 DEF Lookup
  <2> QED
    BY <2>3, <2>4, <1>5
<1>8. CASE Aborted
  <2>1. pc' = "crashed"
    BY <1>8 DEF Aborted
  <2> QED
    BY <2>1, <1>3 DEF Lookup
<1> QED
  BY <1>6, <1>7, <1>8 DEF LookupStep

LEMMA LookingOwn ==
  ASSUME Inductive, Yanking, Looking
  PROVE  Yanking'
<1>1. at = "looking" /\ LookupStep /\ UNCHANGED mainVars /\ UNCHANGED catalog
  BY DEF Looking, LookupStep, PathMissing, PathStep, Aborted, Fixed
<1>2. UNCHANGED <<options, world, at, k, out, record>>
  BY <1>1 DEF mainVars
<1>3. Owned'
  BY <1>1, <1>2, SameCatalog DEF Yanking, Owned
<1>4. at' \notin Over /\ "yank" \in options'.mode => AllWritten'
  BY <1>2 DEF Yanking, AllWritten, HasLength
<1>5. at' \in Started \cup {"yank"} => record' = 0
  BY <1>2 DEF Yanking
<1>6. at' \in {"lookup", "looking"} => k' \in 1..3
  BY <1>2 DEF Yanking
<1>7. \A n \in 1..3 : k' = n => Kept(n)'
  <2> SUFFICES ASSUME NEW n \in 1..3, k' = n PROVE Kept(n)'
    OBVIOUS
  <2>1. Kept(n)
    BY <1>1, <1>2 DEF Yanking
  <2> QED
    BY <1>1, <1>2, <2>1, SameCatalog DEF Kept
<1>8. \A n \in 1..3 : k' = n => Lookup(n)'
  <2> SUFFICES ASSUME NEW n \in 1..3, k' = n PROVE Lookup(n)'
    OBVIOUS
  <2>1. Lookup(n)
    BY <1>1, <1>2 DEF Yanking
  <2> QED
    BY <1>1, <2>1, LookupStepKeeps
<1> QED
  BY <1>3, <1>4, <1>5, <1>6, <1>7, <1>8 DEF Yanking

\* The record that is found is the file's own.
LEMMA LookupFoundOwn ==
  ASSUME Inductive, Yanking, LookupFound
  PROVE  Yanking'
<1>1. /\ at = "looking" /\ pc = "show" /\ record' \in {r.id : r \in Found(spec)} /\ AfterLookup
      /\ UNCHANGED <<catalog, options, world, out>>
  BY DEF LookupFound, Given, Elsewhere, catalogVars
<1>2. k \in 1..3 /\ Lookup(k)
  BY <1>1 DEF Yanking
<1>3. Found(RootKey) # {}
  BY <1>1, <1>2 DEF Lookup
<1>4. PICK n \in 1..3 : n = k
  BY <1>2
<1>5. record' \in Own(CatalogFiles[n])
  <2>1. spec = FileKey(n)
    BY <1>1, <1>2, <1>4 DEF Lookup
  <2>2. PICK r \in Found(FileKey(n)) : record' = r.id
    BY <1>1, <2>1
  <2>3. r \in Records /\ KeyOf(r) = FileKey(n)
    BY <2>2 DEF Found, Records
  <2>4. CatalogFiles[n] \in Range(CatalogFiles)
    <3>1. n \in DOMAIN CatalogFiles
      BY DEF CatalogFiles
    <3> QED
      BY <3>1 DEF Range
  <2> QED
    BY <2>2, <2>3, <2>4 DEF Own, FileKey
<1>6. \/ n < 3 /\ at' = "lookup" /\ k' = n + 1
      \/ at' = "info" /\ k' = 0
  BY <1>1, <1>4 DEF AfterLookup, CatalogFiles
<1>7. Owned' /\ AllWritten'
  <2>1. Owned /\ AllWritten
    BY <1>1 DEF Inductive, Yanking, Over, Started, Ended
  <2>2. Owned'
    BY <1>1, <2>1, SameCatalog DEF Owned
  <2>3. AllWritten'
    BY <1>1, <2>1 DEF AllWritten, HasLength
  <2> QED
    BY <2>2, <2>3
<1>8. \A m \in 1..3 : m = n + 1 => Kept(m)'
  <2> SUFFICES ASSUME NEW m \in 1..3, m = n + 1 PROVE Kept(m)'
    OBVIOUS
  <2>1. Found(RootKey)' # {} /\ record' \in Own(CatalogFiles[n])' /\ n \in 1..m - 1
    BY <1>1, <1>3, <1>5, SameCatalog
  <2> QED
    BY <2>1 DEF Kept
<1> QED
  BY <1>6, <1>7, <1>8 DEF Yanking, Started

\* Where the file is not found, the record kept from before is another file's,
\* or there is none.
LEMMA LookupMissingOwn ==
  ASSUME Inductive, Yanking, LookupMissing
  PROVE  Yanking'
<1> DEFINE S == {[file |-> CatalogFiles[k], holds |-> record]}
<1>1. /\ at = "looking" /\ pc = "missing" /\ AfterLookup /\ out' = out \cup Written(S)
      /\ UNCHANGED <<catalog, options, world, record>>
  BY DEF LookupMissing, Given, Elsewhere, catalogVars
<1>2. k \in 1..3 /\ Lookup(k) /\ Kept(k)
  BY <1>1 DEF Yanking
<1>3. PICK n \in 1..3 : n = k
  BY <1>2
<1>4. \A o \in Written(S) : o.file = CatalogFiles[n] /\ o.holds = record
  BY <1>3 DEF Written
<1> HIDE DEF S
<1>5. \/ n < 3 /\ at' = "lookup" /\ k' = n + 1
      \/ at' = "info" /\ k' = 0
  BY <1>1, <1>3 DEF AfterLookup, CatalogFiles
<1>6. \A o \in Written(S) : o.holds \in Own(o.file) \/ Stale(o)
  <2> SUFFICES ASSUME NEW o \in Written(S) PROVE o.holds \in Own(o.file) \/ Stale(o)
    OBVIOUS
  <2>1. CASE record = 0
    BY <2>1, <1>4 DEF Own
  <2>2. CASE record # 0
    <3>1. PICK m \in 1..n - 1 : record \in Own(CatalogFiles[m])
      BY <1>2, <1>3, <2>2 DEF Kept
    <3>2. Found(FileKey(n)) = {}
      BY <1>1, <1>2, <1>3, <2>2 DEF Kept, Lookup
    <3>3. m \in 1..3 /\ m < n /\ DOMAIN CatalogFiles = 1..3
      BY DEF CatalogFiles
    <3> QED
      BY <1>4, <2>2, <3>1, <3>2, <3>3 DEF Stale, FileKey
  <2> QED
    BY <2>1, <2>2
<1>7. Owned' /\ AllWritten'
  <2>1. Owned /\ AllWritten
    BY <1>1 DEF Inductive, Yanking, Over, Started, Ended
  <2>2. Owned'
    BY <1>1, <1>6, <2>1, SameCatalog DEF Owned
  <2>3. AllWritten'
    BY <1>1, <2>1 DEF AllWritten, HasLength
  <2> QED
    BY <2>2, <2>3
<1>8. \A m \in 1..3 : m = n + 1 => Kept(m)'
  <2> SUFFICES ASSUME NEW m \in 1..3, m = n + 1 PROVE Kept(m)'
    OBVIOUS
  <2>1. CASE record = 0
    BY <2>1, <1>1 DEF Kept
  <2>2. CASE record # 0
    <3>1. Found(RootKey) # {} /\ \E l \in 1..n - 1 : record \in Own(CatalogFiles[l])
      BY <1>2, <1>3, <2>2 DEF Kept
    <3>2. \A l \in 1..n - 1 : l \in 1..m - 1
      OBVIOUS
    <3> QED
      BY <1>1, <3>1, <3>2, SameCatalog DEF Kept
  <2> QED
    BY <2>1, <2>2
<1> QED
  BY <1>5, <1>7, <1>8 DEF Yanking, Started

\* The other steps of main.
LEMMA OthersOwn ==
  ASSUME Inductive, Yanking, [SessionNext]_allVars,
         ~(YankForks \/ BeginLookup \/ Looking \/ LookupFound \/ LookupMissing)
  PROVE  Yanking'
<1>0. UNCHANGED catalog
  BY CatalogStays
<1>1. CASE UNCHANGED allVars
  <2>1. UNCHANGED <<catalog, options, world, record, out, at, k>> /\ UNCHANGED <<command, pc, i, parentID, spec>>
    BY <1>1 DEF allVars, mainVars, catalogVars
  <2>2. Owned' /\ \A n \in 1..3 : (Kept(n)' <=> Kept(n)) /\ (Lookup(n)' <=> Lookup(n))
    BY <2>1, SameCatalog DEF Owned, Yanking, Kept, Lookup
  <2>3. at' \notin Over /\ "yank" \in options'.mode => AllWritten'
    BY <2>1 DEF Yanking, AllWritten, HasLength
  <2> QED
    BY <2>1, <2>2, <2>3 DEF Yanking
<1>2. CASE \/ Usage \/ Options \/ OpenDevice \/ OpenRaw \/ OpenFails \/ Find \/ Drop \/ NoDirectory
           \/ YankBlocked
  <2>1. UNCHANGED <<options, world, record, out>>
    BY <1>2 DEF Usage, Options, OpenDevice, OpenRaw, OpenFails, Find, Drop, NoDirectory, YankBlocked, Given
  <2>2. /\ at \in Started \cup {"yank"}
        /\ at' \in Over \/ (at' = "info" /\ "yank" \notin options.mode)
    BY <1>2 DEF Usage, Options, OpenDevice, OpenRaw, OpenFails, Find, Drop, NoDirectory, YankBlocked,
                Exit, Crash, Over, Started, Ended
  <2>3. at' \notin {"lookup", "looking"}
    BY <2>2 DEF Over, Started, Ended
  <2> QED
    BY <1>0, <2>1, <2>2, <2>3, OtherStep
<1>3. CASE \/ Info \/ ShowStored \/ Journal \/ Summarise \/ Summarising \/ SummaryEnds
           \/ BeginCommand \/ Commanding \/ CommandEnds \/ CatalogCrashes
           \/ PrintTree \/ OutputTree \/ OutputHotFiles \/ OutputNothing
  <2>1. UNCHANGED <<options, world, record>>
    BY <1>3 DEF Info, ShowStored, Journal, Summarise, Summarising, SummaryEnds, BeginCommand,
         Commanding, CommandEnds, CatalogCrashes, PrintTree, OutputTree, OutputHotFiles,
         OutputNothing, Given, mainVars
  <2>2. out \subseteq out' /\ \A o \in out' \ out : o.file = "output"
    <3>1. UNCHANGED out \/ out' = out \cup Written({[file |-> "output", holds |-> TreeFile]})
      BY <1>3 DEF Info, ShowStored, Journal, Summarise, Summarising, SummaryEnds, BeginCommand,
         Commanding, CommandEnds, CatalogCrashes, PrintTree, OutputTree, OutputHotFiles,
         OutputNothing, mainVars
    <3>2. \A o \in Written({[file |-> "output", holds |-> TreeFile]}) : o.file = "output"
      BY DEF Written
    <3> QED
      BY <3>1, <3>2
  <2>3. /\ at \in {"info", "request", "summary", "command", "looking"}
        /\ at = "looking" => at' = "crashed"
    BY <1>3 DEF Info, ShowStored, Journal, Summarise, Summarising, SummaryEnds, BeginCommand,
         Commanding, CommandEnds, CatalogCrashes, PrintTree, OutputTree, OutputHotFiles,
         OutputNothing, AtRequest, Crash
  <2>4. at' \in {"info", "request", "summary", "command", "done"} \cup Ended
    BY <1>3, <2>3 DEF Info, ShowStored, Journal, Summarise, Summarising, SummaryEnds, BeginCommand,
         Commanding, CommandEnds, CatalogCrashes, PrintTree, OutputTree, OutputHotFiles,
         OutputNothing, Proceed, Finish, Exit, Crash, mainVars, Ended
  <2>5. at' \notin {"lookup", "looking"} /\ at' \notin Started \cup {"yank"} /\ at \notin Over
    BY <2>3, <2>4 DEF Over, Started, Ended
  <2> QED
    BY <1>0, <2>1, <2>2, <2>5, OtherStep
<1> QED
  BY <1>1, <1>2, <1>3 DEF SessionNext

THEOREM YankingHolds == SessionSpec => []Yanking
<1>1. SessionInit => Yanking
  BY DEF SessionInit, Yanking, Owned, Over, Started, Ended
<1>2. Inductive /\ Yanking /\ [SessionNext]_allVars => Yanking'
  BY YankForksOwn, BeginLookupOwn, LookingOwn, LookupFoundOwn, LookupMissingOwn, OthersOwn
<1> QED
  BY <1>1, <1>2, InductiveHolds, PTL DEF SessionSpec

\* A yanked file never holds the fork of another, apart from one that was not
\* found in the catalog after another was, and no special file with a length is
\* left out.
THEOREM YankHoldsItsForksHolds == SessionSpec => []YankHoldsItsForks
<1>1. Yanking => YankHoldsItsForks
  BY DEF Yanking, YankHoldsItsForks, Owned, AllWritten, Over, Started, Ended
<1> QED
  BY YankingHolds, <1>1, PTL

-----------------------------------------------------------------------------
(***************************************************************************)
(* Catalogs in order                                                       *)
(***************************************************************************)

\* What every catalog is, in order or not.
Leaves ==
  /\ catalog.leaves \in Seq(Seq(CatalogRecords)) \ {<<>>}
  /\ \A n \in DOMAIN catalog.leaves : \A r \in Range(catalog.leaves[n]) :
       r.type = "file" => r.id \in DOMAIN FileInfo

\* The fields of a record.
LEMMA RecordIs ==
  ASSUME NEW r \in CatalogRecords
  PROVE  r.parent \in Nat /\ r.name \in Nat /\ r.id \in Nat /\ r.toParent \in Nat /\ r.toName \in Nat
BY DEF CatalogRecords

\* Every place has a record, and every record a place.
LEMMA PlacesAre ==
  ASSUME Leaves
  PROVE  /\ Len(catalog.leaves) \in Nat \ {0} /\ DOMAIN catalog.leaves = 1..Len(catalog.leaves)
         /\ \A n \in DOMAIN catalog.leaves : /\ Len(catalog.leaves[n]) \in Nat
                                             /\ DOMAIN catalog.leaves[n] = 1..Len(catalog.leaves[n])
         /\ \A n \in DOMAIN catalog.leaves : \A m \in DOMAIN catalog.leaves[n] :
              <<n, m>> \in Places /\ catalog.leaves[n][m] \in Records
         /\ \A p \in Places : /\ p = <<p[1], p[2]>> /\ p[1] \in DOMAIN catalog.leaves
                              /\ p[2] \in DOMAIN catalog.leaves[p[1]]
                              /\ p[1] \in Nat /\ p[2] \in Nat
                              /\ At(p) \in Records
         /\ \A r \in Records : r \in CatalogRecords /\ \E p \in Places : At(p) = r
<1> DEFINE ls == catalog.leaves
<1>1. ls \in Seq(Seq(CatalogRecords)) /\ ls # <<>>
  BY DEF Leaves
<1> HIDE DEF ls
<1>2. Len(ls) \in Nat \ {0} /\ DOMAIN ls = 1..Len(ls)
  BY <1>1
<1>3. \A n \in DOMAIN ls : ls[n] \in Seq(CatalogRecords)
  BY <1>1
<1>4. \A n \in DOMAIN ls : Len(ls[n]) \in Nat /\ DOMAIN ls[n] = 1..Len(ls[n])
  BY <1>3
<1>5. \A n \in DOMAIN ls : \A m \in DOMAIN ls[n] : ls[n][m] \in CatalogRecords
  BY <1>3, <1>4
<1>6. \A n \in DOMAIN ls : \A m \in DOMAIN ls[n] : <<n, m>> \in Places /\ ls[n][m] \in Records
  BY DEF Places, Records, Range, ls
<1>7. ASSUME NEW p \in Places
      PROVE  p = <<p[1], p[2]>> /\ p[1] \in DOMAIN ls /\ p[2] \in DOMAIN ls[p[1]]
  <2>1. PICK n \in DOMAIN ls : p \in {n} \X (DOMAIN ls[n])
    BY <1>7 DEF Places, ls
  <2> QED
    BY <2>1
<1>8. ASSUME NEW r \in Records PROVE r \in CatalogRecords /\ \E p \in Places : At(p) = r
  <2>1. PICK n \in DOMAIN ls : r \in Range(ls[n])
    BY <1>8 DEF Records, ls
  <2>2. PICK m \in DOMAIN ls[n] : r = ls[n][m]
    BY <2>1 DEF Range
  <2>3. <<n, m>> \in Places /\ At(<<n, m>>) = r
    BY <1>6, <2>2 DEF At, ls
  <2> QED
    BY <1>5, <2>2, <2>3
<1>9. \A p \in Places : p[1] \in Nat /\ p[2] \in Nat /\ At(p) \in Records
  <2> SUFFICES ASSUME NEW p \in Places PROVE p[1] \in Nat /\ p[2] \in Nat /\ At(p) \in Records
    OBVIOUS
  <2>1. p[1] \in DOMAIN ls /\ p[2] \in DOMAIN ls[p[1]]
    BY <1>7
  <2>2. At(p) = ls[p[1]][p[2]]
    BY DEF At, ls
  <2>3. p[1] \in Nat
    BY <1>2, <2>1
  <2>4. p[2] \in Nat
    BY <1>4, <2>1
  <2> QED
    BY <1>6, <2>1, <2>2, <2>3, <2>4
<1> QED
  BY <1>2, <1>4, <1>6, <1>7, <1>8, <1>9 DEF ls

\* A key is in the catalog once.
LEMMA OneKey ==
  ASSUME Leaves, Sound, NEW r \in Records, NEW s \in Records, KeyOf(r) = KeyOf(s)
  PROVE  r = s
<1>1. PICK p \in Places : At(p) = r
  BY PlacesAre
<1>2. PICK q \in Places : At(q) = s
  BY PlacesAre
<1>3. p[1] \in Nat /\ p[2] \in Nat /\ q[1] \in Nat /\ q[2] \in Nat /\ p = <<p[1], p[2]>> /\ q = <<q[1], q[2]>>
  BY PlacesAre
<1>4. r.parent \in Nat /\ r.name \in Nat
  BY PlacesAre, RecordIs
<1>5. ~Less(KeyOf(r), KeyOf(s))
  <2>1. KeyOf(r)[1] = r.parent /\ KeyOf(r)[2] = r.name
    BY DEF KeyOf
  <2>2. ~Less(KeyOf(r), KeyOf(r))
    BY <1>4, <2>1 DEF Less
  <2> QED
    BY <2>2
<1>6. ~Less(p, q) /\ ~Less(q, p)
  <2>1. Less(p, q) => Less(KeyOf(r), KeyOf(s))
    BY <1>1, <1>2 DEF Sound
  <2>2. Less(q, p) => Less(KeyOf(s), KeyOf(r))
    BY <1>1, <1>2 DEF Sound
  <2> QED
    BY <1>5, <2>1, <2>2
<1>7. p[1] = q[1] /\ p[2] = q[2]
  BY <1>3, <1>6 DEF Less
<1> QED
  BY <1>1, <1>2, <1>3, <1>7

\* Every leaf can be loaded, so a search finds what is there.
LEMMA FoundIs ==
  ASSUME Sound, NEW key
  PROVE  Found(key) = {r \in Records : KeyOf(r) = key}
BY DEF Sound, Found, Records

\* A key leads to one record.
LEMMA FoundOne ==
  ASSUME Leaves, Sound, NEW r \in Records
  PROVE  Found(KeyOf(r)) = {r} /\ Child(r.parent, r.name) = {r}
<1>1. Found(KeyOf(r)) = {s \in Records : KeyOf(s) = KeyOf(r)}
  BY FoundIs
<1>2. Child(r.parent, r.name) = {s \in Records : KeyOf(s) = KeyOf(r)}
  BY DEF Child, KeyOf
<1>3. \A s \in Records : KeyOf(s) = KeyOf(r) => s = r
  BY OneKey
<1> QED
  BY <1>1, <1>2, <1>3

\* The thread of a file or folder leads back to it.
LEMMA ThreadOf ==
  ASSUME Leaves, Sound, NEW r \in Records, ~IsThread(r)
  PROVE  /\ r.type \in {"file", "folder"} /\ r.name # 0
         /\ \E t \in Records : /\ KeyOf(t) = <<r.id, 0>> /\ IsThread(t)
                               /\ t.type = IF r.type = "folder" THEN "folderThread" ELSE "fileThread"
                               /\ Child(t.toParent, t.toName) = {r}
<1>1. /\ r.type \in {"file", "folder"} /\ r.name # 0
      /\ \E t \in Records : /\ KeyOf(t) = <<r.id, 0>> /\ <<t.toParent, t.toName>> = KeyOf(r)
                            /\ t.type = IF r.type = "folder" THEN "folderThread" ELSE "fileThread"
  BY DEF Sound
<1>2. PICK t \in Records : /\ KeyOf(t) = <<r.id, 0>> /\ <<t.toParent, t.toName>> = KeyOf(r)
                           /\ t.type = IF r.type = "folder" THEN "folderThread" ELSE "fileThread"
  BY <1>1
<1>3. t.toParent = r.parent /\ t.toName = r.name
  BY <1>2 DEF KeyOf
<1>4. Child(t.toParent, t.toName) = {r}
  BY <1>3, FoundOne
<1>5. IsThread(t)
  BY <1>1, <1>2 DEF IsThread
<1> QED
  BY <1>1, <1>2, <1>4, <1>5

\* A CNID has one thread, so it is the CNID of one file or folder.
LEMMA OneId ==
  ASSUME Leaves, Sound, NEW r \in Records, NEW s \in Records, ~IsThread(r), ~IsThread(s), r.id = s.id
  PROVE  r = s
<1>1. PICK t \in Records : KeyOf(t) = <<r.id, 0>> /\ Child(t.toParent, t.toName) = {r}
  BY ThreadOf
<1>2. PICK u \in Records : KeyOf(u) = <<s.id, 0>> /\ Child(u.toParent, u.toName) = {s}
  BY ThreadOf
<1>3. t = u
  BY <1>1, <1>2, OneKey
<1> QED
  BY <1>1, <1>2, <1>3

-----------------------------------------------------------------------------
(***************************************************************************)
(* Recursion and induction                                                 *)
(***************************************************************************)

\* A set of numbers has a least one.
LEMMA LeastNumber ==
  ASSUME NEW T, T \subseteq Nat, T # {}
  PROVE  \E x \in T : \A y \in T : x <= y
<1> DEFINE R == OpToRel(<, Nat)
<1>1. IsWellFoundedOn(R, Nat)
  BY NatLessThanWellFounded, Zenon
<1>2. \A x, y \in Nat : <<y, x>> \in R <=> y < x
  BY DEF OpToRel
<1> HIDE DEF R
<1>3. PICK x \in T : \A y \in T : ~ (<<y, x>> \in R)
  BY <1>1, WFMin, Zenon
<1>4. \A y \in T : ~ (y < x)
  BY <1>2, <1>3, Zenon
<1> QED
  BY <1>4

\* Induction from one number up to another, about the numbers in a set.
LEMMA UpFrom ==
  ASSUME NEW m \in Nat, NEW N \in Nat, m <= N, NEW P, m \in P,
         \A n \in m + 1..N : n - 1 \in P => n \in P
  PROVE  \A n \in m..N : n \in P
<1> DEFINE T == {n \in m..N : n \notin P}
<1>1. CASE T = {}
  BY <1>1
<1>2. CASE T # {}
  <2>1. T \subseteq Nat
    OBVIOUS
  <2>2. PICK n \in T : \A l \in T : n <= l
    <3> HIDE DEF T
    <3> QED
      BY <1>2, <2>1, LeastNumber
  <2>3. n \in m + 1..N /\ n \notin P
    BY <2>2
  <2>4. n - 1 \in m..N /\ n - 1 \notin T
    BY <2>2, <2>3
  <2> QED
    BY <2>3, <2>4
<1> QED
  BY <1>1, <1>2

\* A recursion over the numbers up to N has a value at each of them.
LEMMA Recursive ==
  ASSUME NEW S, NEW a \in S, NEW N \in Nat, NEW g \in [1..N -> [S -> S]]
  PROVE  \E f \in [0..N -> S] : f[0] = a /\ \A n \in 1..N : f[n] = g[n][f[n - 1]]
<1> DEFINE Computes(f, m) == f[0] = a /\ \A n \in 1..m : f[n] = g[n][f[n - 1]]
           P == {m \in 0..N : \E f \in [0..m -> S] : Computes(f, m)}
<1>1. 0 \in P
  <2> DEFINE f == [n \in 0..0 |-> a]
  <2>1. f \in [0..0 -> S] /\ Computes(f, 0)
    OBVIOUS
  <2> HIDE DEF f, Computes
  <2> QED
    BY <2>1
<1>2. ASSUME NEW m \in 1..N, m - 1 \in P PROVE m \in P
  <2>1. PICK f \in [0..(m - 1) -> S] : Computes(f, m - 1)
    BY <1>2
  <2> DEFINE h == [n \in 0..m |-> IF n = m THEN g[m][f[m - 1]] ELSE f[n]]
  <2>2. h \in [0..m -> S]
    OBVIOUS
  <2>3. h[0] = a
    BY <2>1
  <2>4. ASSUME NEW n \in 1..m PROVE h[n] = g[n][h[n - 1]]
    <3>1. n - 1 \in 0..m /\ n - 1 # m
      OBVIOUS
    <3>2. h[n - 1] = f[n - 1]
      BY <3>1
    <3>3. CASE n = m
      BY <3>2, <3>3
    <3>4. CASE n # m
      <4>1. n \in 1..(m - 1)
        BY <3>4
      <4> QED
        BY <2>1, <3>2, <4>1
    <3> QED
      BY <3>3, <3>4
  <2> HIDE DEF h
  <2>5. Computes(h, m)
    BY <2>3, <2>4
  <2> HIDE DEF Computes
  <2> QED
    BY <2>2, <2>5
<1> HIDE DEF P
<1>3. 0 \in Nat /\ 0 <= N /\ \A n \in 1..N : n - 1 \in P => n \in P
  BY <1>2
<1> DEFINE zero == 0
<1>4. \A n \in zero..N : n \in P
  <2>1. zero \in Nat /\ zero <= N /\ zero \in P /\ \A n \in zero + 1..N : n - 1 \in P => n \in P
    BY <1>1, <1>3
  <2> HIDE DEF zero
  <2> QED
    BY <2>1, UpFrom
<1>5. N \in P
  BY <1>4
<1> QED
  BY <1>5 DEF P

-----------------------------------------------------------------------------
(***************************************************************************)
(* Paths                                                                   *)
(***************************************************************************)

Roots == {r \in Records : r.type = "folder" /\ r.id = kHFSRootFolderID}
Onward(s, name) == UNION {IF r.type = "file" THEN {r} ELSE Child(r.id, name) : r \in s}

\* The sets of Walk, one after the other.
Walked ==
  Len(command.path) \in Nat =>
    /\ Walk[0] = Roots
    /\ \A n \in 1..Len(command.path) :
         Walk[n] = IF command.path[n] = 0 THEN Walk[n - 1] ELSE Onward(Walk[n - 1], command.path[n])

\* They are, as a recursion over the names has a value at each of them.
LEMMA WalkedHolds == Walked
<1> SUFFICES ASSUME Len(command.path) \in Nat PROVE Walked
  BY DEF Walked
<1> DEFINE L == Len(command.path)
           S == SUBSET Records
           value(f, n) == IF n = 0 THEN Roots
                          ELSE IF command.path[n] = 0 THEN f[n - 1] ELSE Onward(f[n - 1], command.path[n])
           g == [n \in 1..L |-> [s \in S |-> IF command.path[n] = 0 THEN s ELSE Onward(s, command.path[n])]]
           chosen == CHOOSE f : f = [n \in 0..L |-> value(f, n)]
<1>1. Roots \in S
  BY DEF Roots
<1>2. g \in [1..L -> [S -> S]]
  <2>1. ASSUME NEW s \in S, NEW name PROVE Onward(s, name) \in S
    <3>1. \A r \in s : (IF r.type = "file" THEN {r} ELSE Child(r.id, name)) \subseteq Records
      BY DEF Child
    <3> QED
      BY <3>1 DEF Onward
  <2> QED
    BY <2>1
<1>3. PICK f \in [0..L -> S] : f[0] = Roots /\ \A n \in 1..L : f[n] = g[n][f[n - 1]]
  <2> HIDE DEF g, S, L
  <2>1. L \in Nat
    BY DEF L
  <2> QED
    BY <1>1, <1>2, <2>1, Recursive
<1>4. f = [n \in 0..L |-> value(f, n)]
  <2>1. ASSUME NEW n \in 0..L PROVE f[n] = value(f, n)
    <3>1. CASE n = 0
      BY <1>3, <3>1
    <3>2. CASE n # 0
      <4>1. n \in 1..L /\ n - 1 \in 0..L
        BY <3>2
      <4>2. f[n - 1] \in S
        <5> HIDE DEF S
        <5> QED
          BY <4>1
      <4>3. f[n] = g[n][f[n - 1]]
        BY <1>3, <4>1
      <4> HIDE DEF S
      <4> QED
        BY <3>2, <4>1, <4>2, <4>3
    <3> QED
      BY <3>1, <3>2
  <2> HIDE DEF value, S
  <2> QED
    BY <2>1
<1>5. chosen = [n \in 0..L |-> value(chosen, n)]
  <2> HIDE DEF value
  <2> QED
    BY <1>4, Zenon
<1>6. Walk = chosen
  BY Zenon DEF Walk, Roots, Onward
<1> HIDE DEF chosen
<1>7. \A n \in 0..L : Walk[n] = value(Walk, n)
  <2> HIDE DEF value
  <2> QED
    BY <1>5, <1>6
<1>8. Walk[0] = Roots
  <2>1. 0 \in 0..L
    OBVIOUS
  <2> QED
    BY <1>7, <2>1
<1>9. \A n \in 1..L : Walk[n] = IF command.path[n] = 0 THEN Walk[n - 1] ELSE Onward(Walk[n - 1], command.path[n])
  <2> SUFFICES ASSUME NEW n \in 1..L
               PROVE  Walk[n] = IF command.path[n] = 0 THEN Walk[n - 1] ELSE Onward(Walk[n - 1], command.path[n])
    OBVIOUS
  <2>1. n \in 0..L /\ n # 0
    OBVIOUS
  <2> QED
    BY <1>7, <2>1
<1> QED
  BY <1>8, <1>9 DEF Walked

\* Where the names lead stays when each of them stays there.
LEMMA WalkStays ==
  ASSUME Walked, Len(command.path) \in Nat, NEW m \in 0..Len(command.path),
         \A name : Onward(Walk[m], name) = Walk[m]
  PROVE  Designates = Walk[m]
<1> DEFINE L == Len(command.path)
           P == {n \in m..L : Walk[n] = Walk[m]}
<1>1. m \in P /\ L \in Nat /\ m \in Nat /\ m <= L
  OBVIOUS
<1>2. ASSUME NEW n \in m + 1..L, n - 1 \in P PROVE n \in P
  <2>1. n \in 1..L /\ Walk[n - 1] = Walk[m]
    BY <1>2
  <2>2. Walk[n] = IF command.path[n] = 0 THEN Walk[n - 1] ELSE Onward(Walk[n - 1], command.path[n])
    BY <2>1 DEF Walked
  <2> QED
    BY <2>1, <2>2
<1> HIDE DEF P
<1>3. \A n \in m..L : n \in P
  BY <1>1, <1>2, UpFrom
<1>4. L \in P
  BY <1>1, <1>3
<1> QED
  BY <1>4 DEF P, Designates

\* Where a name leads from one record, and from none.
LEMMA OnwardFrom ==
  ASSUME NEW r, NEW name
  PROVE  /\ Onward({r}, name) = IF r.type = "file" THEN {r} ELSE Child(r.id, name)
         /\ Onward({}, name) = {}
BY DEF Onward

\* The root folder is the only one.
LEMMA OneRoot ==
  ASSUME Leaves, Sound
  PROVE  \E r \in Records : Roots = {r} /\ r.type = "folder" /\ r.id = kHFSRootFolderID
<1>1. PICK r \in Records : r.type = "folder" /\ r.id = kHFSRootFolderID
  BY DEF Sound
<1>2. \A s \in Roots : s = r
  <2> SUFFICES ASSUME NEW s \in Roots PROVE s = r
    OBVIOUS
  <2>1. s \in Records /\ ~IsThread(s) /\ ~IsThread(r) /\ s.id = r.id
    BY <1>1 DEF Roots, IsThread
  <2> QED
    BY <2>1, OneId
<1> QED
  BY <1>1, <1>2 DEF Roots

\* A path that is followed in a sound catalog is at the folder its names lead to
\* so far; what is shown in the end is what they lead to; and when a name is
\* missing they lead nowhere.
OnPath ==
  command.op = "path" =>
    /\ Len(command.path) \in Nat \ {0}
    /\ Sound =>
       /\ pc = "path" => /\ i \in 1..Len(command.path)
                         /\ \E r \in Records : Walk[i - 1] = {r} /\ r.type = "folder" /\ r.id = parentID
       /\ pc \in {"show", "list", "shown"} => \E r \in Records : Designates = {r} /\ Target(spec) = {r}
       /\ pc = "missing" => Designates = {}

\* What a search on the way finds.
LEMMA SegmentIs ==
  ASSUME Leaves, Sound, Walked, OnPath, command.op = "path", pc = "path"
  PROVE  /\ i \in 1..Len(command.path) /\ Len(command.path) \in Nat
         /\ \E r \in Records :
              /\ Walk[i - 1] = {r} /\ r.type = "folder" /\ r.id = parentID
              /\ Segment = 0 => Walk[i] = {r} /\ Target(Searched) = {r} /\ Found(Searched) # {}
              /\ Segment # 0 => Walk[i] = Found(Searched)
         /\ Segment # 0 => \A s \in Found(Searched) : /\ s \in Records /\ ~IsThread(s) /\ Found(Searched) = {s}
                                                      /\ Target(Searched) = {s}
<1>1. i \in 1..Len(command.path) /\ Len(command.path) \in Nat
  BY DEF OnPath
<1>2. PICK r \in Records : Walk[i - 1] = {r} /\ r.type = "folder" /\ r.id = parentID
  BY DEF OnPath
<1>3. Walk[i] = IF Segment = 0 THEN {r} ELSE Child(parentID, Segment)
  <2>1. Walk[i] = IF Segment = 0 THEN Walk[i - 1] ELSE Onward(Walk[i - 1], Segment)
    BY <1>1 DEF Walked, Segment
  <2> QED
    BY <1>2, <2>1, OnwardFrom
<1>4. Searched = <<parentID, Segment>>
  BY DEF Searched
<1>5. Segment = 0 => Target(Searched) = {r} /\ Found(Searched) # {}
  <2> SUFFICES ASSUME Segment = 0 PROVE Target(Searched) = {r} /\ Found(Searched) # {}
    OBVIOUS
  <2>1. ~IsThread(r)
    BY <1>2 DEF IsThread
  <2>2. PICK t \in Records : /\ KeyOf(t) = <<r.id, 0>> /\ IsThread(t) /\ Child(t.toParent, t.toName) = {r}
    BY <2>1, ThreadOf
  <2>3. Found(Searched) = {t}
    BY <1>2, <1>4, <2>2, FoundOne
  <2>4. Target(Searched) = {r}
    BY <2>2, <2>3 DEF Target
  <2> QED
    BY <2>3, <2>4
<1>6. Found(Searched) = Child(parentID, Segment)
  BY <1>4, FoundIs DEF Child
<1>7. Segment # 0 => \A s \in Found(Searched) : /\ s \in Records /\ ~IsThread(s) /\ Found(Searched) = {s}
                                                /\ Target(Searched) = {s}
  <2> SUFFICES ASSUME Segment # 0, NEW s \in Found(Searched)
               PROVE  s \in Records /\ ~IsThread(s) /\ Found(Searched) = {s} /\ Target(Searched) = {s}
    OBVIOUS
  <2>1. s \in Records /\ KeyOf(s) = Searched
    BY FoundIs
  <2>2. Found(Searched) = {s}
    BY <2>1, FoundOne
  <2>3. s.name # 0
    BY <1>4, <2>1 DEF KeyOf
  <2>4. ~IsThread(s)
    BY <2>1, <2>3 DEF Sound
  <2>5. Target(Searched) = {s}
    BY <2>2, <2>4 DEF Target
  <2> QED
    BY <2>1, <2>2, <2>4, <2>5
<1> QED
  BY <1>1, <1>2, <1>3, <1>5, <1>6, <1>7

\* The steps of main are the steps of a command, a new command, or none of the
\* catalog's.
LEMMA CatalogSteps ==
  ASSUME [SessionNext]_allVars
  PROVE  \/ UNCHANGED catalogVars
         \/ Give([op |-> "path", path |-> <<0, NameOf[CatalogFiles[k]]>>, parent |-> 0, name |-> 0, list |-> FALSE])
         \/ Give(CommandFor(Requests[k]))
         \/ LookupStep \/ ShowStep \/ ListStep
<1>1. SessionNext => Looking \/ Commanding \/ BeginLookup \/ BeginCommand \/ UNCHANGED catalogVars
  BY DEF SessionNext, Usage, Options, OpenDevice, OpenRaw, OpenFails, Find, Drop, NoDirectory,
         YankBlocked, YankForks, LookupFound, LookupMissing, Info, ShowStored, Journal,
         Summarise, Summarising, SummaryEnds, CommandEnds, CatalogCrashes, PrintTree,
         OutputTree, OutputHotFiles, OutputNothing, Elsewhere
<1>2. Looking => LookupStep
  BY DEF Looking
<1>3. Commanding => LookupStep \/ ShowStep \/ ListStep
  BY DEF Commanding
<1>4. UNCHANGED allVars => UNCHANGED catalogVars
  BY DEF allVars
<1>5. BeginLookup =>
        Give([op |-> "path", path |-> <<0, NameOf[CatalogFiles[k]]>>, parent |-> 0, name |-> 0, list |-> FALSE])
  BY DEF BeginLookup
<1>6. BeginCommand => Give(CommandFor(Requests[k]))
  BY DEF BeginCommand
<1> QED
  BY <1>1, <1>2, <1>3, <1>4, <1>5, <1>6

\* What the assumption says of each session.
Asked ==
  /\ Leaves
  /\ options.path \in Seq(Nat) \ {<<>>}

\* Every step leaves the options alone.
LEMMA OptionsStay ==
  ASSUME [SessionNext]_allVars
  PROVE  UNCHANGED options
BY DEF SessionNext, Usage, Options, OpenDevice, OpenRaw, OpenFails, Find, Drop, NoDirectory,
       YankBlocked, YankForks, BeginLookup, Looking, LookupFound, LookupMissing, Info, ShowStored, Journal,
       Summarise, Summarising, SummaryEnds, BeginCommand, Commanding, CommandEnds, CatalogCrashes, PrintTree,
       OutputTree, OutputHotFiles, OutputNothing, Given, mainVars, allVars

\* main never changes the catalog or what it was asked for.
THEOREM AskedHolds == SessionSpec => []Asked
<1>1. SessionInit => Asked
  BY SessionsAssumption DEF SessionInit, Asked, Leaves
<1>2. Asked /\ [SessionNext]_allVars => Asked'
  BY CatalogStays, OptionsStay DEF Asked, Leaves
<1> QED
  BY <1>1, <1>2, PTL DEF SessionSpec

\* The sets of Walk are the same in every state.
THEOREM WalkedAlways == []Walked
BY WalkedHolds, PTL

\* Without another catalog or command, all that is said of them stays.
LEMMA SameWalk ==
  ASSUME UNCHANGED catalog
  PROVE  /\ Sound' <=> Sound
         /\ Records' = Records /\ Roots' = Roots
         /\ \A key : Target(key)' = Target(key)
         /\ UNCHANGED command => Walk' = Walk /\ Designates' = Designates
<1>1. Sound' <=> Sound
  BY DEF Sound, Places, At, Records, KeyOf, IsThread, Less
<1>2. Records' = Records
  BY DEF Records
<1>3. \A folder, name : Child(folder, name)' = Child(folder, name)
  BY <1>2 DEF Child, KeyOf
<1>4. \A key : Target(key)' = Target(key)
  BY DEF Target, Found, KeyOf, IsThread, Child, Records
<1>5. UNCHANGED command => Walk' = Walk
  BY <1>2 DEF Walk, Child, KeyOf, Records
<1>6. UNCHANGED command => Designates' = Designates
  BY <1>5 DEF Designates
<1> QED
  BY <1>1, <1>2, <1>4, <1>5, <1>6 DEF Roots

\* A new command begins at the root folder.
LEMMA GiveOnPath ==
  ASSUME Asked, Asked', Walked', NEW c, Give(c), c.op = "path" => Len(c.path) \in Nat \ {0}
  PROVE  OnPath'
<1>1. UNCHANGED catalog /\ command' = c /\ i' = 1 /\ parentID' = kHFSRootFolderID
      /\ pc' = IF c.op = "path" THEN "path" ELSE "show"
  BY DEF Give
<1>2. SUFFICES ASSUME c.op = "path" PROVE OnPath'
  BY <1>1 DEF OnPath
<1>3. Len(command'.path) \in Nat \ {0} /\ pc' = "path"
  BY <1>1, <1>2
<1>4. ASSUME Sound PROVE \E r \in Records' : Walk'[i' - 1] = {r} /\ r.type = "folder" /\ r.id = parentID'
  <2>1. PICK r \in Records : Roots = {r} /\ r.type = "folder" /\ r.id = kHFSRootFolderID
    BY <1>4, OneRoot DEF Asked
  <2>2. Walk'[0] = Roots'
    BY <1>3 DEF Walked
  <2>3. i' - 1 = 0
    BY <1>1
  <2> QED
    BY <1>1, <2>1, <2>2, <2>3, SameWalk
<1>5. Sound' <=> Sound
  BY <1>1, SameWalk
<1>6. i' \in 1..Len(command'.path)
  BY <1>1, <1>3
<1> QED
  BY <1>3, <1>4, <1>5, <1>6 DEF OnPath

\* A search on the way.
LEMMA LookupOnPath ==
  ASSUME Asked, Walked, OnPath, LookupStep
  PROVE  OnPath'
<1>1. UNCHANGED <<catalog, command>> /\ pc = "path"
  BY DEF LookupStep, PathMissing, PathStep, Aborted, Fixed
<1>2. SUFFICES ASSUME command.op = "path", Sound PROVE OnPath'
  BY <1>1, SameWalk DEF OnPath
<1> DEFINE L == Len(command.path)
<1>3. L \in Nat /\ L # 0 /\ i \in 1..L
  BY <1>1, <1>2 DEF OnPath
<1>4. PICK r \in Records :
        /\ Walk[i - 1] = {r} /\ r.type = "folder" /\ r.id = parentID
        /\ Segment = 0 => Walk[i] = {r} /\ Target(Searched) = {r} /\ Found(Searched) # {}
        /\ Segment # 0 => Walk[i] = Found(Searched)
  BY <1>1, <1>2, SegmentIs DEF Asked
<1>5. Segment # 0 => \A s \in Found(Searched) : /\ s \in Records /\ ~IsThread(s) /\ Found(Searched) = {s}
                                                /\ Target(Searched) = {s}
  BY <1>1, <1>2, SegmentIs DEF Asked
<1>6. Records' = Records /\ Walk' = Walk /\ Designates' = Designates /\ L' = L
      /\ (\A key : Target(key)' = Target(key)) /\ (Sound' <=> Sound)
  BY <1>1, SameWalk
<1>7. CASE PathMissing
  <2>1. pc' = "missing" /\ Found(Searched) = {}
    BY <1>7 DEF PathMissing
  <2>2. Walk[i] = {}
    BY <1>4, <2>1
  <2>3. Designates = {}
    <3>1. i \in 0..L /\ \A name : Onward(Walk[i], name) = Walk[i]
      <4>1. \A name : Onward({}, name) = {}
        BY OnwardFrom
      <4>2. i \in 0..L
        BY <1>3
      <4> QED
        BY <2>2, <4>1, <4>2
    <3>2. Designates = Walk[i]
      BY <1>3, <3>1, WalkStays
    <3> QED
      BY <2>2, <3>2
  <2> QED
    BY <1>1, <1>3, <1>6, <2>1, <2>3 DEF OnPath
<1>8. CASE PathStep
  <2>1. PICK s \in Found(Searched) :
          /\ parentID' = IF Segment = 0 THEN parentID ELSE Descended(s)
          /\ pc' = IF i = L \/ (Segment # 0 /\ s.type = "file") THEN "show" ELSE "path"
    BY <1>8 DEF PathStep
  <2>2. spec' = Searched /\ i' = i + 1
    BY <1>8 DEF PathStep
  \* what the path has led to now
  <2>3. \E t \in Records : /\ Walk[i] = {t} /\ Target(Searched) = {t}
                           /\ Segment = 0 => t = r
                           /\ Segment # 0 => t = s
    BY <1>4, <1>5, <2>1
  <2>4. PICK t \in Records : /\ Walk[i] = {t} /\ Target(Searched) = {t}
                             /\ Segment = 0 => t = r
                             /\ Segment # 0 => t = s
    BY <2>3
  <2>5. CASE pc' = "path"
    <3>1. i # L /\ (Segment = 0 \/ s.type # "file")
      BY <2>1, <2>5
    <3>2. i' \in 1..L /\ i' - 1 = i
      BY <1>3, <2>2, <3>1
    <3>3. t.type = "folder" /\ t.id = parentID'
      <4>1. CASE Segment = 0
        BY <1>4, <2>1, <2>4, <4>1
      <4>2. CASE Segment # 0
        <5>1. ~IsThread(s) /\ s \in Records /\ s.type # "file"
          BY <1>5, <2>1, <3>1, <4>2
        <5>2. s.type = "folder"
          BY <1>2, <5>1 DEF Sound
        <5>3. Descended(s) = s.id
          BY <5>1, <5>2, Zenon DEF Descended, IsThread
        <5>4. parentID' = Descended(s) /\ t = s
          BY <2>1, <2>4, <4>2
        <5> QED
          BY <5>2, <5>3, <5>4
      <4> QED
        BY <4>1, <4>2
    <3> QED
      BY <1>1, <1>3, <1>6, <2>4, <2>5, <3>2, <3>3 DEF OnPath
  <2>6. CASE pc' = "show"
    <3>1. Designates = {t}
      <4>1. CASE i = L
        BY <2>4, <4>1 DEF Designates
      <4>2. CASE i # L
        <5>1. t.type = "file"
          BY <2>1, <2>4, <2>6, <4>2
        <5>2. i \in 0..L /\ \A name : Onward(Walk[i], name) = Walk[i]
          BY <1>3, <2>4, <5>1, OnwardFrom
        <5>3. Designates = Walk[i]
          BY <1>3, <5>2, WalkStays
        <5> QED
          BY <2>4, <5>3
      <4> QED
        BY <4>1, <4>2
    <3> QED
      BY <1>1, <1>3, <1>6, <2>2, <2>4, <2>6, <3>1 DEF OnPath
  <2> QED
    BY <2>1, <2>5, <2>6
<1>9. CASE Aborted
  <2>1. pc' = "crashed"
    BY <1>9 DEF Aborted
  <2> QED
    BY <1>1, <1>3, <1>6, <2>1 DEF OnPath
<1> QED
  BY <1>7, <1>8, <1>9 DEF LookupStep

\* Showing what was found.
LEMMA ShowOnPath ==
  ASSUME Asked, OnPath, ShowStep \/ ListStep
  PROVE  OnPath'
<1>1. UNCHANGED <<catalog, command>> /\ pc \in {"show", "list"}
  BY DEF ShowStep, ListStep, ShowMissing, Follow, Show, BeginList, Aborted, ListBreaks, Row, EndList, Fixed
<1>2. SUFFICES ASSUME command.op = "path", Sound PROVE OnPath'
  BY <1>1, SameWalk DEF OnPath
<1>3. PICK r \in Records : Designates = {r} /\ Target(spec) = {r}
  BY <1>1, <1>2 DEF OnPath
<1>4. Found(spec) # {}
  BY <1>3 DEF Target
<1>5. Records' = Records /\ Designates' = Designates
      /\ (\A key : Target(key)' = Target(key)) /\ (Sound' <=> Sound)
  BY <1>1, SameWalk
<1>6. pc' = "crashed" \/ (pc' \in {"show", "list", "shown"} /\ spec' = spec)
  <2>1. ~ShowMissing
    BY <1>4 DEF ShowMissing
  <2>2. ~Follow
    BY <1>2 DEF Follow
  <2>3. ~ListBreaks
    BY <1>2 DEF ListBreaks, Sound
  <2>4. Show \/ EndList => pc' = "shown" /\ spec' = spec
    BY DEF Show, EndList
  <2>5. Row => pc' = pc /\ spec' = spec
    BY DEF Row
  <2>6. BeginList => pc' \in {"list", "crashed"} /\ spec' = spec
    BY DEF BeginList
  <2>7. Aborted => pc' = "crashed"
    BY DEF Aborted
  <2> QED
    BY <1>1, <2>1, <2>2, <2>3, <2>4, <2>5, <2>6, <2>7 DEF ShowStep, ListStep
<1>7. Len(command.path) \in Nat \ {0}
  BY <1>2 DEF OnPath
<1> QED
  BY <1>1, <1>3, <1>5, <1>6, <1>7 DEF OnPath

\* HFSPlusGetCatalogInfoByPath never leaves the path, and showPathInfo shows its end.
THEOREM OnPathHolds == SessionSpec => []OnPath
<1>1. SessionInit => OnPath
  BY DEF SessionInit, CatalogInit, NoCommand, OnPath
<1>2. Asked /\ Asked' /\ Walked /\ Walked' /\ OnPath /\ [SessionNext]_allVars => OnPath'
  <2> SUFFICES ASSUME Asked, Asked', Walked, Walked', OnPath, [SessionNext]_allVars PROVE OnPath'
    OBVIOUS
  <2>1. CASE UNCHANGED catalogVars
    <3>1. UNCHANGED <<catalog, command, pc, i, parentID, spec>>
      BY <2>1 DEF catalogVars
    <3> QED
      BY <3>1, SameWalk DEF OnPath
  <2>2. CASE LookupStep
    BY <2>2, LookupOnPath
  <2>3. CASE ShowStep \/ ListStep
    BY <2>3, ShowOnPath
  <2> DEFINE lookup == [op |-> "path", path |-> <<0, NameOf[CatalogFiles[k]]>>, parent |-> 0, name |-> 0, list |-> FALSE]
             request == CommandFor(Requests[k])
  <2>4. CASE Give(lookup)
    <3>1. Len(lookup.path) \in Nat \ {0}
      OBVIOUS
    <3> HIDE DEF lookup
    <3> QED
      BY <2>4, <3>1, GiveOnPath
  <2>5. CASE Give(request)
    <3>1. request.op = "path" => request.path = options.path
      BY DEF CommandFor
    <3>2. Len(options.path) \in Nat \ {0}
      BY DEF Asked
    <3> HIDE DEF request
    <3> QED
      BY <2>5, <3>1, <3>2, GiveOnPath
  <2> HIDE DEF lookup, request
  <2>6. \/ UNCHANGED catalogVars \/ Give(lookup) \/ Give(request) \/ LookupStep \/ ShowStep \/ ListStep
    BY CatalogSteps DEF lookup, request
  <2> QED
    BY <2>1, <2>2, <2>3, <2>4, <2>5, <2>6
<1> QED
  BY <1>1, <1>2, AskedHolds, WalkedAlways, PTL DEF SessionSpec

\* In any catalog in order, a path is found exactly when its names lead somewhere,
\* and then what is shown is what they lead to.
THEOREM PathResolvesHolds == SessionSpec => []PathResolves
<1>1. OnPath => PathResolves
  BY DEF OnPath, PathResolves
<1> QED
  BY <1>1, OnPathHolds, PTL

-----------------------------------------------------------------------------
(***************************************************************************)
(* Listings                                                                *)
(***************************************************************************)

Here == <<node, recordID>>
There == <<NextNode, NextRecord>>
LeafCount == Len(catalog.leaves)

\* Pairs of numbers are ordered.
LEMMA Ordered ==
  ASSUME Leaves, NEW p \in Places, NEW q \in Places
  PROVE  p = q \/ Less(p, q) \/ Less(q, p)
<1>1. p[1] \in Nat /\ p[2] \in Nat /\ q[1] \in Nat /\ q[2] \in Nat /\ p = <<p[1], p[2]>> /\ q = <<q[1], q[2]>>
  BY PlacesAre
<1>2. p[1] = q[1] /\ p[2] = q[2] => p = q
  BY <1>1
<1> QED
  BY <1>1, <1>2 DEF Less

\* The leaves, and the header node behind them.
LEMMA NodesAre ==
  ASSUME Leaves
  PROVE  /\ \A n \in DOMAIN catalog.leaves : Nodes[n] = catalog.leaves[n]
         /\ Nodes[LeafCount + 1] = HeaderNode
<1> DEFINE ls == catalog.leaves
           header == HeaderNode
           S == Seq(CatalogRecords) \cup {header}
<1>1. ls \in Seq(Seq(CatalogRecords))
  BY DEF Leaves
<1>2. ls \in Seq(S) /\ header \in S
  BY <1>1
<1>3. Nodes = Append(ls, header)
  BY DEF Nodes
<1> HIDE DEF ls, header, S
<1>4. \A n \in DOMAIN ls : Append(ls, header)[n] = ls[n]
  BY <1>2
<1>5. Append(ls, header)[Len(ls) + 1] = header
  BY <1>2
<1> QED
  BY <1>3, <1>4, <1>5 DEF ls, header, LeafCount

\* The step from one place to the next.
LEMMA NextIs ==
  ASSUME Leaves, Sound, Here \in Places
  PROVE  \/ /\ There \in Places /\ NextNode \in DOMAIN catalog.leaves
            /\ Nodes[NextNode][NextRecord] = At(There)
            /\ Less(Here, There)
            /\ \A q \in Places : Less(q, There) <=> q = Here \/ Less(q, Here)
         \/ /\ NextNode = LeafCount + 1 /\ NextRecord = 1
            /\ \A q \in Places : q = Here \/ Less(q, Here)
<1> DEFINE ls == catalog.leaves
<1>1. Here[1] = node /\ Here[2] = recordID
  BY DEF Here
<1>2. /\ node \in 1..LeafCount /\ recordID \in 1..Len(ls[node]) /\ LeafCount \in Nat /\ Len(ls[node]) \in Nat
      /\ DOMAIN ls = 1..LeafCount
  BY <1>1, PlacesAre DEF LeafCount
<1>3. Nodes[node] = ls[node]
  BY <1>2, NodesAre
<1>4. AtEnd <=> recordID = Len(ls[node])
  BY <1>3 DEF AtEnd
<1>5. \A n \in 1..LeafCount : Len(ls[n]) \in Nat /\ Len(ls[n]) # 0 /\ DOMAIN ls[n] = 1..Len(ls[n])
  <2> SUFFICES ASSUME NEW n \in 1..LeafCount
               PROVE  Len(ls[n]) \in Nat /\ Len(ls[n]) # 0 /\ DOMAIN ls[n] = 1..Len(ls[n])
    OBVIOUS
  <2>1. ls[n] \in Seq(CatalogRecords) /\ ls[n] # <<>>
    <3>1. ls \in Seq(Seq(CatalogRecords))
      BY DEF Leaves
    <3>2. n \in DOMAIN ls /\ ls[n] # <<>>
      BY <1>2 DEF Sound
    <3> HIDE DEF ls
    <3> QED
      BY <3>1, <3>2
  <2> HIDE DEF ls
  <2> QED
    BY <2>1
<1>6. \A q \in Places : /\ q = <<q[1], q[2]>> /\ q[1] \in 1..LeafCount /\ q[1] \in Nat /\ q[2] \in Nat
                        /\ q[2] \in 1..Len(ls[q[1]])
  BY <1>2, PlacesAre
<1>7. There[1] = NextNode /\ There[2] = NextRecord
  BY DEF There
<1>8. CASE ~AtEnd
  <2>1. NextNode = node /\ NextRecord = recordID + 1
    BY <1>8 DEF NextNode, NextRecord
  <2>2. NextNode \in DOMAIN ls /\ NextRecord \in DOMAIN ls[NextNode]
    BY <1>2, <1>4, <1>5, <1>8, <2>1
  <2>3. There \in Places /\ Nodes[NextNode][NextRecord] = At(There)
    <3>1. There \in Places
      BY <2>2, PlacesAre DEF There
    <3>2. At(There) = ls[NextNode][NextRecord]
      BY <1>7 DEF At
    <3> QED
      BY <1>3, <2>1, <3>1, <3>2
  <2>4. Less(Here, There)
    BY <1>1, <1>2, <1>7, <2>1 DEF Less
  <2>5. ASSUME NEW q \in Places PROVE Less(q, There) <=> q = Here \/ Less(q, Here)
    <3>1. q = Here <=> q[1] = node /\ q[2] = recordID
      BY <1>6 DEF Here
    <3>2. q[1] \in Nat /\ q[2] \in Nat
      BY <1>6
    <3> QED
      BY <1>1, <1>2, <1>7, <2>1, <3>1, <3>2 DEF Less
  <2> QED
    BY <2>2, <2>3, <2>4, <2>5
<1>9. CASE AtEnd /\ node # LeafCount
  <2>1. NextNode = node + 1 /\ NextRecord = 1
    BY <1>9 DEF NextNode, NextRecord
  <2>2. NextNode \in DOMAIN ls /\ NextRecord \in DOMAIN ls[NextNode]
    BY <1>2, <1>5, <1>9, <2>1
  <2>3. There \in Places /\ Nodes[NextNode][NextRecord] = At(There)
    <3>1. There \in Places
      BY <2>2, PlacesAre DEF There
    <3>2. At(There) = ls[NextNode][NextRecord]
      BY <1>7 DEF At
    <3>3. Nodes[NextNode] = ls[NextNode]
      BY <2>2, NodesAre
    <3> QED
      BY <3>1, <3>2, <3>3
  <2>4. Less(Here, There)
    BY <1>1, <1>2, <1>7, <2>1 DEF Less
  <2>5. ASSUME NEW q \in Places PROVE Less(q, There) <=> q = Here \/ Less(q, Here)
    <3>1. q = Here <=> q[1] = node /\ q[2] = recordID
      BY <1>6 DEF Here
    <3>2. q[1] \in Nat /\ q[2] \in Nat /\ (q[1] = node => q[2] <= recordID) /\ ~(q[2] < 1)
      BY <1>2, <1>4, <1>6, <1>9
    <3> QED
      BY <1>1, <1>2, <1>7, <2>1, <3>1, <3>2 DEF Less
  <2> QED
    BY <2>2, <2>3, <2>4, <2>5
<1>10. CASE AtEnd /\ node = LeafCount
  <2>1. NextNode = LeafCount + 1 /\ NextRecord = 1
    BY <1>10 DEF NextNode, NextRecord
  <2>2. ASSUME NEW q \in Places PROVE q = Here \/ Less(q, Here)
    <3>1. q = Here <=> q[1] = node /\ q[2] = recordID
      BY <1>6 DEF Here
    <3>2. q[1] \in Nat /\ q[2] \in Nat /\ (q[1] = node => q[2] <= recordID) /\ q[1] <= node
      BY <1>2, <1>4, <1>6, <1>10
    <3> QED
      BY <1>1, <1>2, <3>1, <3>2 DEF Less
  <2> QED
    BY <2>1, <2>2
<1> QED
  BY <1>8, <1>9, <1>10

\* There are only so many places.
LEMMA PlacesFinite ==
  ASSUME Leaves
  PROVE  IsFiniteSet(Places)
<1> DEFINE ls == catalog.leaves
           row == [n \in DOMAIN ls |-> {n} \X (DOMAIN ls[n])]
           S == {row[n] : n \in DOMAIN ls}
<1>1. IsFiniteSet(DOMAIN ls)
  <2>1. DOMAIN ls = 1..Len(ls) /\ Len(ls) \in Int /\ 1 \in Int
    BY PlacesAre
  <2> QED
    BY <2>1, FS_Interval
<1>2. ASSUME NEW n \in DOMAIN ls PROVE IsFiniteSet(row[n])
  <2>1. DOMAIN ls[n] = 1..Len(ls[n]) /\ Len(ls[n]) \in Int /\ 1 \in Int
    BY PlacesAre
  <2>2. IsFiniteSet(DOMAIN ls[n])
    BY <2>1, FS_Interval
  <2>3. IsFiniteSet({n})
    BY FS_Singleton
  <2>4. IsFiniteSet({n} \X (DOMAIN ls[n]))
    BY <2>2, <2>3, FS_Product
  <2> QED
    BY <2>4
<1>3. Places = UNION S
  BY DEF Places
<1>4. row \in Surjection(DOMAIN ls, S)
  BY DEF Surjection
<1> HIDE DEF row
<1>5. IsFiniteSet(S)
  <2> HIDE DEF S
  <2> QED
    BY <1>1, <1>4, FS_Surjection
<1>6. \A T \in S : IsFiniteSet(T)
  BY <1>2
<1> HIDE DEF S
<1> QED
  BY <1>3, <1>5, <1>6, FS_UNION

\* The children up to the place of the listing have their rows, and nothing
\* else has.
RowsUpToHere ==
  /\ rows \in Seq(Nat) /\ Len(rows) = Cardinality(UpTo(Here))
  /\ \A p \in UpTo(Here) : rows[Cardinality(UpTo(p))] = At(p).id

RowsAreKids ==
  /\ \A p \in Kids : rows[Cardinality(UpTo(p))] = At(p).id
  /\ IF Astray THEN Len(rows) = Cardinality(Kids) + 1 /\ Last(rows) = 0
               ELSE Len(rows) = Cardinality(Kids)

\* A listing goes through the records of the folder, from its thread on, and in
\* the end through the first record of the header node, if it looks like one.
InFolder == Here \in Places /\ At(Here).parent = ListedFolder /\ RowsUpToHere
InHeader == /\ node = LeafCount + 1 /\ recordID = 1
            /\ catalog.rootNode = ListedFolder /\ \A r \in Records : r.parent <= ListedFolder
            /\ RowsAreKids

Listing ==
  Sound =>
    /\ pc \in {"path", "show"} => node = 0 /\ rows = <<>>
    /\ pc = "list" => ListedFolder \in Nat \ {0} /\ (InFolder \/ InHeader)
    /\ pc = "shown" /\ node # 0 => RowsAreKids

\* The children of the folder are at places, and only so many.
LEMMA UpToIs ==
  ASSUME Leaves
  PROVE  /\ Kids \subseteq Places
         /\ IsFiniteSet(Kids) /\ \A p : IsFiniteSet(UpTo(p)) /\ UpTo(p) \subseteq Kids
<1>1. Kids \subseteq Places /\ \A p : UpTo(p) \subseteq Kids
  BY DEF Kids, UpTo
<1>2. IsFiniteSet(Kids)
  BY <1>1, PlacesFinite, FS_Subset
<1>3. \A p : IsFiniteSet(UpTo(p))
  BY <1>1, <1>2, FS_Subset
<1> QED
  BY <1>1, <1>2, <1>3

\* The rank of a child among those up to another is a number of a row.
LEMMA RankIs ==
  ASSUME Leaves, NEW q \in Places, NEW p \in UpTo(q)
  PROVE  Cardinality(UpTo(p)) \in 1..Cardinality(UpTo(q))
<1>1. p \in Kids /\ p \in Places /\ (p = q \/ Less(p, q))
  BY UpToIs DEF UpTo
<1>2. UpTo(p) \subseteq UpTo(q)
  <2> SUFFICES ASSUME NEW r \in UpTo(p) PROVE r \in UpTo(q)
    OBVIOUS
  <2>1. r \in Kids /\ r \in Places /\ (r = p \/ Less(r, p))
    BY UpToIs DEF UpTo
  <2>2. Less(r, p) /\ Less(p, q) => Less(r, q)
    <3>1. r[1] \in Nat /\ r[2] \in Nat /\ p[1] \in Nat /\ p[2] \in Nat /\ q[1] \in Nat /\ q[2] \in Nat
      BY <1>1, <2>1, PlacesAre
    <3> QED
      BY <3>1 DEF Less
  <2> QED
    BY <1>1, <2>1, <2>2 DEF UpTo
<1>3. p \in UpTo(p)
  BY <1>1 DEF UpTo
<1>4. IsFiniteSet(UpTo(p)) /\ IsFiniteSet(UpTo(q))
  BY UpToIs
<1>5. Cardinality(UpTo(p)) \in Nat /\ Cardinality(UpTo(q)) \in Nat /\ Cardinality(UpTo(p)) <= Cardinality(UpTo(q))
  BY <1>2, <1>4, FS_Subset, FS_CardinalityType
<1>6. Cardinality(UpTo(p)) # 0
  BY <1>3, <1>4, FS_EmptySet
<1> QED
  BY <1>5, <1>6

\* The keys of a sound catalog are numbers, in the order of the places.
LEMMA KeysInOrder ==
  ASSUME Leaves, Sound, NEW p \in Places, NEW q \in Places, Less(p, q)
  PROVE  /\ At(p).parent \in Nat /\ At(q).parent \in Nat
         /\ At(p).parent <= At(q).parent
         /\ At(p).parent = At(q).parent => At(q).name # 0
<1>1. At(p) \in CatalogRecords /\ At(q) \in CatalogRecords
  BY PlacesAre
<1>2. At(p).parent \in Nat /\ At(q).parent \in Nat /\ At(p).name \in Nat /\ At(q).name \in Nat
  BY <1>1, RecordIs
<1>3. Less(KeyOf(At(p)), KeyOf(At(q)))
  BY DEF Sound
<1>4. /\ KeyOf(At(p))[1] = At(p).parent /\ KeyOf(At(p))[2] = At(p).name
      /\ KeyOf(At(q))[1] = At(q).parent /\ KeyOf(At(q))[2] = At(q).name
  BY DEF KeyOf
<1> QED
  BY <1>2, <1>3, <1>4 DEF Less

\* The thread of the folder is before all its children.
LEMMA NoKidsBefore ==
  ASSUME Leaves, Sound, NEW p \in Places, KeyOf(At(p)) = <<ListedFolder, 0>>
  PROVE  UpTo(p) = {}
<1>1. At(p).parent = ListedFolder /\ At(p).name = 0
  BY DEF KeyOf
<1>2. ASSUME NEW q \in UpTo(p) PROVE FALSE
  <2>1. q \in Kids /\ q \in Places /\ At(q).parent = ListedFolder /\ ~IsThread(At(q)) /\ (q = p \/ Less(q, p))
    BY UpToIs DEF UpTo, Kids
  <2>2. At(q) \in Records
    BY <2>1, PlacesAre
  <2>3. At(q).name # 0
    BY <2>1, <2>2, ThreadOf
  <2>4. Less(q, p)
    BY <1>1, <2>1, <2>3
  <2> QED
    BY <1>1, <2>1, <2>4, KeysInOrder
<1> QED
  BY <1>2

\* Behind a record of the folder, the first one that is not ends its children.
LEMMA AllKids ==
  ASSUME Leaves, Sound, Here \in Places, At(Here).parent = ListedFolder, There \in Places, Less(Here, There),
         \A q \in Places : Less(q, There) <=> q = Here \/ Less(q, Here),
         At(There).parent # ListedFolder
  PROVE  UpTo(Here) = Kids /\ ~Astray
<1>1. At(There).parent > ListedFolder /\ ListedFolder \in Nat /\ At(There).parent \in Nat
  BY KeysInOrder
<1>2. ASSUME NEW q \in Kids PROVE q \in UpTo(Here)
  <2>1. q \in Places /\ At(q).parent = ListedFolder
    BY DEF Kids
  <2>2. CASE Less(q, There)
    BY <2>1, <2>2 DEF UpTo
  <2>3. CASE q = There
    BY <2>1, <2>3
  <2>4. CASE Less(There, q)
    <3>1. At(There).parent <= At(q).parent
      BY <2>1, <2>4, KeysInOrder
    <3> QED
      BY <1>1, <2>1, <3>1
  <2> QED
    BY <2>1, <2>2, <2>3, <2>4, Ordered
<1>3. UpTo(Here) = Kids
  BY <1>2 DEF UpTo
<1>4. ~Astray
  <2>1. At(There) \in Records
    BY PlacesAre
  <2> QED
    BY <1>1, <2>1 DEF Astray
<1> QED
  BY <1>3, <1>4

\* A row more, for a child or for a thread that gets none.
LEMMA RowKeeps ==
  ASSUME Leaves, Sound, InFolder, Row, There \in Places, Less(Here, There),
         Nodes[NextNode][NextRecord] = At(There),
         \A q \in Places : Less(q, There) <=> q = Here \/ Less(q, Here)
  PROVE  InFolder'
<1>1. /\ At(There).parent = ListedFolder
      /\ rows' = IF At(There).type \in {"file", "folder"} THEN Append(rows, At(There).id) ELSE rows
      /\ node' = NextNode /\ recordID' = NextRecord /\ UNCHANGED <<catalog, spec>>
  BY DEF Row, Fixed
<1>2. Here' = There
  BY <1>1 DEF Here, There
<1>3. Places' = Places /\ ListedFolder' = ListedFolder /\ \A p : At(p)' = At(p) /\ UpTo(p)' = UpTo(p)
  <2>1. Places' = Places /\ \A p : At(p)' = At(p)
    BY <1>1 DEF Places, At
  <2>2. ListedFolder' = ListedFolder
    BY <1>1 DEF ListedFolder, FolderOf, Found, KeyOf
  <2>3. \A p : UpTo(p)' = UpTo(p)
    BY <1>1 DEF UpTo, Kids, Places, At, IsThread, Less, ListedFolder, FolderOf, Found, KeyOf
  <2> QED
    BY <2>1, <2>2, <2>3
<1>4. rows \in Seq(Nat) /\ Len(rows) = Cardinality(UpTo(Here))
      /\ \A p \in UpTo(Here) : rows[Cardinality(UpTo(p))] = At(p).id
  BY DEF InFolder, RowsUpToHere
<1>5. At(There) \in Records /\ At(There).id \in Nat
  BY PlacesAre, RecordIs
<1>6. UpTo(There) = UpTo(Here) \cup (IF There \in Kids THEN {There} ELSE {})
  BY UpToIs DEF UpTo
<1>7. There \in Kids <=> At(There).type \in {"file", "folder"}
  <2>1. IsThread(At(There)) => At(There).type \notin {"file", "folder"}
    BY DEF IsThread
  <2>2. ~IsThread(At(There)) => At(There).type \in {"file", "folder"}
    BY <1>5, ThreadOf
  <2> QED
    BY <1>1, <2>1, <2>2 DEF Kids
<1>8. There \notin UpTo(Here)
  <2>1. There \notin UpTo(Here) \/ There = Here \/ Less(There, Here)
    BY DEF UpTo
  <2>2. There[1] \in Nat /\ There[2] \in Nat /\ Here[1] \in Nat /\ Here[2] \in Nat
    BY PlacesAre DEF InFolder
  <2> QED
    BY <2>1, <2>2 DEF Less
<1>9. CASE There \in Kids
  <2>1. rows' = Append(rows, At(There).id)
    BY <1>1, <1>7, <1>9
  <2>2. UpTo(There) = UpTo(Here) \cup {There}
    BY <1>6, <1>9
  <2>3. Cardinality(UpTo(There)) = Cardinality(UpTo(Here)) + 1
    BY <1>8, <2>2, UpToIs, FS_AddElement
  <2>4. ASSUME NEW p \in UpTo(There) PROVE rows'[Cardinality(UpTo(p))] = At(p).id
    <3>1. CASE p = There
      <4>1. Cardinality(UpTo(p)) = Len(rows) + 1
        BY <1>4, <2>3, <3>1
      <4> QED
        BY <1>4, <1>5, <2>1, <3>1, <4>1
    <3>2. CASE p \in UpTo(Here)
      <4>1. Cardinality(UpTo(p)) \in 1..Len(rows)
        BY <1>4, <3>2, RankIs DEF InFolder
      <4>2. rows'[Cardinality(UpTo(p))] = rows[Cardinality(UpTo(p))]
        BY <1>4, <1>5, <2>1, <4>1
      <4> QED
        BY <1>4, <3>2, <4>2
    <3> QED
      BY <2>2, <3>1, <3>2
  <2>5. rows' \in Seq(Nat) /\ Len(rows') = Cardinality(UpTo(There))
    BY <1>4, <1>5, <2>1, <2>3
  <2>6. RowsUpToHere'
    BY <1>2, <1>3, <2>4, <2>5 DEF RowsUpToHere
  <2> QED
    BY <1>1, <1>2, <1>3, <2>6 DEF InFolder
<1>10. CASE There \notin Kids
  <2>1. rows' = rows /\ UpTo(There) = UpTo(Here)
    BY <1>1, <1>6, <1>7, <1>10
  <2>2. RowsUpToHere'
    BY <1>2, <1>3, <1>4, <2>1 DEF RowsUpToHere
  <2> QED
    BY <1>1, <1>2, <1>3, <2>2 DEF InFolder
<1> QED
  BY <1>9, <1>10

\* What a listing is compared with depends on the catalog and the key alone.
LEMMA SameKids ==
  ASSUME UNCHANGED <<catalog, spec>>
  PROVE  /\ Places' = Places /\ ListedFolder' = ListedFolder /\ LeafCount' = LeafCount
         /\ Kids' = Kids /\ (Astray' <=> Astray) /\ Records' = Records /\ (Sound' <=> Sound)
         /\ \A p : At(p)' = At(p) /\ UpTo(p)' = UpTo(p)
<1>1. Places' = Places /\ (\A p : At(p)' = At(p)) /\ LeafCount' = LeafCount /\ Records' = Records
  BY DEF Places, At, LeafCount, Records
<1>2. ListedFolder' = ListedFolder
  BY DEF ListedFolder, FolderOf, Found, KeyOf
<1>3. Kids' = Kids
  BY <1>1, <1>2 DEF Kids, IsThread
<1>4. \A p : UpTo(p)' = UpTo(p)
  BY <1>3 DEF UpTo, Less
<1>5. Astray' <=> Astray
  BY <1>1, <1>2 DEF Astray
<1> QED
  BY <1>1, <1>2, <1>3, <1>4, <1>5, SameWalk

\* A step that leaves the listing where it is.
LEMMA ListingStays ==
  ASSUME Listing, UNCHANGED <<catalog, spec, node, recordID, rows>>,
         pc' \in {"crashed", "missing"} \/ pc' = pc \/ (pc' = "shown" /\ node = 0)
  PROVE  Listing'
<1>1. SUFFICES ASSUME Sound' PROVE Listing'
  BY DEF Listing
<1>2. Sound
  BY <1>1, SameKids
<1>3. RowsAreKids => RowsAreKids'
  BY SameKids DEF RowsAreKids
<1>4. Here' = Here
  BY DEF Here
<1>5. RowsUpToHere => RowsUpToHere'
  BY <1>4, SameKids DEF RowsUpToHere
<1>6. InFolder => InFolder'
  BY <1>4, <1>5, SameKids DEF InFolder
<1>7. InHeader => InHeader'
  BY <1>3, SameKids DEF InHeader
<1> QED
  BY <1>2, <1>3, <1>6, <1>7, SameKids DEF Listing

\* Before a listing there are no rows.
LEMMA LookupListing ==
  ASSUME Listing, LookupStep \/ Follow
  PROVE  Listing'
<1>1. /\ pc \in {"path", "show"} /\ UNCHANGED <<catalog, node, rows>>
      /\ pc' \in {"path", "show", "missing", "crashed"}
  BY DEF LookupStep, PathMissing, PathStep, Aborted, Follow, Fixed
<1>2. Sound' <=> Sound
  BY <1>1, SameWalk
<1> QED
  BY <1>1, <1>2 DEF Listing

\* The listing begins at the thread of the folder.
LEMMA BeginListing ==
  ASSUME Asked, Listing, BeginList
  PROVE  Listing'
<1>1. pc = "show" /\ UNCHANGED <<catalog, spec, rows>>
  BY DEF BeginList, Fixed
<1>2. SUFFICES ASSUME Sound, pc' # "crashed" PROVE Listing'
  <2>1. pc' \in {"crashed", "list"}
    BY DEF BeginList
  <2> QED
    BY <1>1, <1>2, <2>1, SameKids DEF Listing
<1>3. rows = <<>>
  BY <1>1, <1>2 DEF Listing
<1>4. PICK r \in Found(spec) :
        /\ Lists(r) /\ pc' = "list"
        /\ \E n \in DOMAIN catalog.leaves :
             /\ node' = n
             /\ \E m \in DOMAIN catalog.leaves[n] :
                  /\ KeyOf(catalog.leaves[n][m]) = <<FolderOf(r), 0>>
                  /\ recordID' = m
  BY <1>2 DEF BeginList
<1>5. r \in Records /\ KeyOf(r) = spec /\ Found(spec) = {r}
  BY <1>2, <1>4, FoundIs, FoundOne DEF Asked
<1>6. ListedFolder = FolderOf(r)
  BY <1>5 DEF ListedFolder
<1>7. Here' \in Places /\ KeyOf(At(Here')) = <<ListedFolder, 0>>
  BY <1>4, <1>6, PlacesAre DEF Here, At, Asked
<1>8. At(Here').parent = ListedFolder
  BY <1>7 DEF KeyOf
<1>9. ListedFolder \in Nat \ {0}
  <2>1. At(Here') \in Records /\ At(Here') \in CatalogRecords
    BY <1>7, PlacesAre DEF Asked
  <2>2. At(Here').parent \in Nat
    BY <2>1, RecordIs
  <2>3. At(Here').parent > 0
    BY <1>2, <2>1 DEF Sound
  <2> QED
    BY <1>8, <2>2, <2>3
<1>10. UpTo(Here') = {}
  <2> DEFINE p == Here'
  <2> HIDE DEF p
  <2>1. UpTo(p) = {}
    BY <1>2, <1>7, NoKidsBefore DEF p, Asked
  <2> QED
    BY <2>1 DEF p
<1>11. InFolder'
  <2>1. Places' = Places /\ ListedFolder' = ListedFolder /\ \A p : At(p)' = At(p) /\ UpTo(p)' = UpTo(p)
    BY <1>1, SameKids
  <2>2. At(Here)' = At(Here')
    BY <1>1 DEF At
  <2>3. UpTo(Here)' = {}
    <3>1. UpTo(Here)' = UpTo(Here')
      BY <1>1, SameKids DEF UpTo
    <3> QED
      BY <1>10, <3>1
  <2>4. RowsUpToHere'
    <3>1. Cardinality({}) = 0
      BY FS_EmptySet
    <3>2. rows' = <<>>
      BY <1>1, <1>3
    <3> QED
      BY <2>3, <3>1, <3>2 DEF RowsUpToHere
  <2> QED
    BY <1>7, <1>8, <2>1, <2>2, <2>4 DEF InFolder
<1>12. ListedFolder' = ListedFolder /\ pc' = "list"
  BY <1>1, <1>4, SameKids
<1> QED
  BY <1>9, <1>11, <1>12 DEF Listing

\* The last record of the last leaf is of the folder: it is the last one.
LEMMA LastFolder ==
  ASSUME Leaves, Sound, Here \in Places, At(Here).parent = ListedFolder,
         \A q \in Places : q = Here \/ Less(q, Here)
  PROVE  UpTo(Here) = Kids /\ \A r \in Records : r.parent <= ListedFolder
<1>1. UpTo(Here) = Kids
  BY UpToIs DEF UpTo
<1>2. ASSUME NEW r \in Records PROVE r.parent <= ListedFolder
  <2>1. PICK q \in Places : At(q) = r
    BY PlacesAre
  <2>2. At(Here).parent \in Nat
    BY PlacesAre, RecordIs
  <2>3. CASE q = Here
    BY <2>1, <2>2, <2>3
  <2>4. CASE Less(q, Here)
    BY <2>1, <2>4, KeysInOrder
  <2> QED
    BY <2>3, <2>4
<1> QED
  BY <1>1, <1>2

\* The first record of the header node, and the second.
LEMMA HeaderIs ==
  /\ HeaderNode[1].parent = catalog.rootNode /\ HeaderNode[1].id = 0 /\ HeaderNode[2].parent = 0
  /\ Len(HeaderNode) = 2
  /\ HeaderNode[1].type \in {"file", "folder"} <=> catalog.treeDepth \in 1..2
<1> DEFINE type == CASE catalog.treeDepth = 1 -> "folder" [] catalog.treeDepth = 2 -> "file" [] OTHER -> "other"
<1>1. type \in {"file", "folder"} <=> catalog.treeDepth \in {1, 2}
  <2>1. CASE catalog.treeDepth = 1
    BY <2>1, Zenon
  <2>2. CASE catalog.treeDepth = 2
    <3>1. catalog.treeDepth # 1
      BY <2>2
    <3> QED
      BY <2>2, <3>1, Zenon
  <2>3. CASE catalog.treeDepth # 1 /\ catalog.treeDepth # 2
    <3>1. type = "other"
      BY <2>3, Zenon
    <3> QED
      BY <2>3, <3>1
  <2> QED
    BY <2>1, <2>2, <2>3
<1> DEFINE r == [parent |-> catalog.rootNode, name |-> 0, id |-> 0, toParent |-> 0, toName |-> 0, type |-> type]
           s == [parent |-> 0, name |-> 0, id |-> 0, toParent |-> 0, toName |-> 0, type |-> "other"]
<1>2. HeaderNode = <<r, s>>
  BY DEF HeaderNode
<1> HIDE DEF type
<1>3. r.parent = catalog.rootNode /\ r.id = 0 /\ r.type = type /\ s.parent = 0
  OBVIOUS
<1> HIDE DEF r, s
<1>4. 1..2 = {1, 2}
  OBVIOUS
<1> QED
  BY <1>1, <1>2, <1>3, <1>4

\* Where the next record is one of the header node.
LEMMA NextInHeader ==
  ASSUME Leaves, Sound
  PROVE  /\ NextNode = LeafCount + 1 /\ NextRecord = 1 => Nodes[NextNode][NextRecord] = HeaderNode[1]
         /\ InHeader => NextNode = LeafCount + 1 /\ NextRecord = 2 /\ Nodes[NextNode][NextRecord] = HeaderNode[2]
<1>1. Nodes[LeafCount + 1] = HeaderNode
  BY NodesAre
<1>2. InHeader => ~AtEnd
  BY <1>1, HeaderIs DEF InHeader, AtEnd
<1> QED
  BY <1>1, <1>2 DEF InHeader, NextNode, NextRecord

\* One row too many, or one record that gets none.
LEMMA RowInHeader ==
  ASSUME Leaves, Sound, InFolder, Row, NextNode = LeafCount + 1, NextRecord = 1,
         \A q \in Places : q = Here \/ Less(q, Here)
  PROVE  InHeader'
<1>1. Nodes[NextNode][NextRecord] = HeaderNode[1]
  BY NextInHeader
<1>2. UpTo(Here) = Kids /\ \A r \in Records : r.parent <= ListedFolder
  BY LastFolder DEF InFolder
<1>3. /\ catalog.rootNode = ListedFolder
      /\ rows' = IF catalog.treeDepth \in 1..2 THEN Append(rows, 0) ELSE rows
      /\ node' = LeafCount + 1 /\ recordID' = 1 /\ UNCHANGED <<catalog, spec>>
  <2>1. /\ HeaderNode[1].parent = ListedFolder
        /\ rows' = IF HeaderNode[1].type \in {"file", "folder"} THEN Append(rows, HeaderNode[1].id) ELSE rows
        /\ node' = LeafCount + 1 /\ recordID' = 1 /\ UNCHANGED <<catalog, spec>>
    BY <1>1 DEF Row, Fixed
  <2> QED
    BY <2>1, HeaderIs
<1>4. /\ rows \in Seq(Nat) /\ Len(rows) = Cardinality(Kids)
      /\ \A p \in Kids : rows[Cardinality(UpTo(p))] = At(p).id
  BY <1>2 DEF InFolder, RowsUpToHere
<1>5. Astray <=> catalog.treeDepth \in 1..2
  BY <1>2, <1>3 DEF Astray
<1>6. IF Astray THEN rows' = Append(rows, 0) ELSE rows' = rows
  BY <1>3, <1>5
<1>7. \A p \in Kids : rows'[Cardinality(UpTo(p))] = At(p).id
  <2> SUFFICES ASSUME NEW p \in Kids PROVE rows'[Cardinality(UpTo(p))] = At(p).id
    OBVIOUS
  <2>1. Cardinality(UpTo(p)) \in 1..Len(rows)
    BY <1>2, <1>4, RankIs DEF InFolder
  <2>2. rows'[Cardinality(UpTo(p))] = rows[Cardinality(UpTo(p))]
    BY <1>4, <1>6, <2>1
  <2> QED
    BY <1>4, <2>2
<1>8. Astray => Len(rows') = Cardinality(Kids) + 1 /\ Last(rows') = 0
  <2>1. 0 \in Nat
    OBVIOUS
  <2> QED
    BY <1>4, <1>6, <2>1 DEF Last
<1>9. ~Astray => Len(rows') = Cardinality(Kids)
  BY <1>4, <1>6
<1>10. RowsAreKids'
  BY <1>3, <1>7, <1>8, <1>9, SameKids DEF RowsAreKids
<1> QED
  BY <1>2, <1>3, <1>10, SameKids DEF InHeader

\* Where the listing ends, the folder has its rows.
LEMMA EndIsWhole ==
  ASSUME Leaves, Sound, InFolder \/ InHeader, EndList
  PROVE  RowsAreKids
<1>1. CASE InHeader
  BY <1>1 DEF InHeader
<1>2. CASE InFolder
  <2>1. UpTo(Here) = Kids /\ ~Astray
    <3>1. CASE /\ There \in Places /\ Nodes[NextNode][NextRecord] = At(There) /\ Less(Here, There)
               /\ \A q \in Places : Less(q, There) <=> q = Here \/ Less(q, Here)
      <4>1. At(There).parent # ListedFolder
        BY <3>1 DEF EndList
      <4> QED
        BY <1>2, <3>1, <4>1, AllKids DEF InFolder
    <3>2. CASE /\ NextNode = LeafCount + 1 /\ NextRecord = 1
               /\ \A q \in Places : q = Here \/ Less(q, Here)
      <4>1. UpTo(Here) = Kids
        BY <1>2, <3>2, LastFolder DEF InFolder
      <4>2. catalog.rootNode # ListedFolder
        BY <3>2, NextInHeader, HeaderIs DEF EndList
      <4> QED
        BY <4>1, <4>2 DEF Astray
    <3> QED
      BY <1>2, <3>1, <3>2, NextIs DEF InFolder
  <2> QED
    BY <1>2, <2>1 DEF InFolder, RowsUpToHere, RowsAreKids
<1> QED
  BY <1>1, <1>2

\* A step of the listing.
LEMMA ListListing ==
  ASSUME Asked, Listing, ListStep
  PROVE  Listing'
<1>1. pc = "list" /\ UNCHANGED <<catalog, spec>>
  BY DEF ListStep, ListBreaks, Row, EndList, Fixed
<1>2. SUFFICES ASSUME Sound PROVE Listing'
  BY <1>1, SameKids DEF Listing
<1>3. Leaves /\ ListedFolder \in Nat \ {0} /\ (InFolder \/ InHeader)
  BY <1>1, <1>2 DEF Listing, Asked
<1>4. ~ListBreaks
  BY <1>2 DEF ListBreaks, Sound
<1>5. CASE Row
  <2>1. ~InHeader
    <3>1. Nodes[NextNode][NextRecord].parent = ListedFolder
      BY <1>5 DEF Row
    <3> QED
      BY <1>2, <1>3, <3>1, NextInHeader, HeaderIs
  <2>2. InFolder /\ Here \in Places
    BY <1>3, <2>1 DEF InFolder
  <2>3. InFolder' \/ InHeader'
    <3>1. CASE /\ There \in Places /\ Nodes[NextNode][NextRecord] = At(There) /\ Less(Here, There)
               /\ \A q \in Places : Less(q, There) <=> q = Here \/ Less(q, Here)
      BY <1>2, <1>3, <1>5, <2>2, <3>1, RowKeeps
    <3>2. CASE /\ NextNode = LeafCount + 1 /\ NextRecord = 1
               /\ \A q \in Places : q = Here \/ Less(q, Here)
      BY <1>2, <1>3, <1>5, <2>2, <3>2, RowInHeader
    <3> QED
      BY <1>2, <1>3, <2>2, <3>1, <3>2, NextIs
  <2>4. pc' = "list"
    BY <1>1, <1>5 DEF Row
  <2>5. ListedFolder' \in Nat \ {0}
    BY <1>1, <1>3, SameKids
  <2> QED
    BY <2>3, <2>4, <2>5 DEF Listing
<1>6. CASE EndList
  <2>1. RowsAreKids
    BY <1>2, <1>3, <1>6, EndIsWhole
  <2>2. pc' = "shown" /\ UNCHANGED rows
    BY <1>6 DEF EndList
  <2>3. RowsAreKids'
    BY <1>1, <2>1, <2>2, SameKids DEF RowsAreKids
  <2> QED
    BY <2>2, <2>3 DEF Listing
<1> QED
  BY <1>4, <1>5, <1>6 DEF ListStep

\* At each place of PrintFolderListing the rows are the children met so far.
THEOREM ListingHolds == SessionSpec => []Listing
<1>1. SessionInit => Listing
  BY DEF SessionInit, CatalogInit, Listing
<1>2. Asked /\ Listing /\ [SessionNext]_allVars => Listing'
  <2> SUFFICES ASSUME Asked, Listing, [SessionNext]_allVars PROVE Listing'
    OBVIOUS
  <2> DEFINE lookup == [op |-> "path", path |-> <<0, NameOf[CatalogFiles[k]]>>, parent |-> 0, name |-> 0, list |-> FALSE]
             request == CommandFor(Requests[k])
  <2> HIDE DEF lookup, request
  <2>1. ASSUME NEW c, Give(c) PROVE Listing'
    <3>1. pc' \in {"path", "show"} /\ node' = 0 /\ rows' = <<>>
      BY <2>1 DEF Give
    <3> QED
      BY <3>1 DEF Listing
  <2>2. CASE UNCHANGED catalogVars
    <3>1. UNCHANGED <<catalog, spec, node, recordID, rows, pc>>
      BY <2>2 DEF catalogVars
    <3> QED
      BY <3>1, ListingStays
  <2>3. CASE LookupStep
    BY <2>3, LookupListing
  <2>4. CASE ShowStep
    <3>1. CASE Follow
      BY <3>1, LookupListing
    <3>2. CASE BeginList
      BY <3>2, BeginListing
    <3>3. CASE Aborted
      <4>1. /\ pc \in {"path", "show"} /\ UNCHANGED <<catalog, node, rows>> /\ pc' = "crashed"
        BY <3>3 DEF Aborted, Fixed
      <4> QED
        BY <4>1 DEF Listing
    <3>4. CASE ShowMissing
      <4>1. UNCHANGED <<catalog, spec, node, recordID, rows>> /\ pc' = "missing"
        BY <3>4 DEF ShowMissing, Fixed
      <4> QED
        BY <4>1, ListingStays
    <3>5. CASE Show
      <4>1. pc = "show" /\ UNCHANGED <<catalog, spec, node, recordID, rows>> /\ pc' = "shown"
        BY <3>5 DEF Show, Fixed
      <4>2. Sound => node = 0
        BY <4>1 DEF Listing
      <4>3. Sound' <=> Sound
        BY <4>1, SameWalk
      <4> QED
        BY <4>1, <4>2, <4>3 DEF Listing
    <3> QED
      BY <2>4, <3>1, <3>2, <3>3, <3>4, <3>5 DEF ShowStep
  <2>5. CASE ListStep
    BY <2>5, ListListing
  <2>6. \/ UNCHANGED catalogVars \/ Give(lookup) \/ Give(request) \/ LookupStep \/ ShowStep \/ ListStep
    BY CatalogSteps DEF lookup, request
  <2> QED
    BY <2>1, <2>2, <2>3, <2>4, <2>5, <2>6
<1> QED
  BY <1>1, <1>2, AskedHolds, PTL DEF SessionSpec

\* The rows of every folder of every sound catalog are its children, each once
\* and in order, over all its leaves; and the folder that gets a row too many is
\* the last one, if the number of the root node is its CNID.
THEOREM ListsChildrenHolds == SessionSpec => []ListsChildren
<1>1. Listing => ListsChildren
  BY DEF Listing, RowsAreKids, ListsChildren
<1> QED
  BY <1>1, ListingHolds, PTL

-----------------------------------------------------------------------------
(***************************************************************************)
(* The summary                                                             *)
(***************************************************************************)

ForkTotals == [count : Nat, fragmented : Nat, blocks : Nat, space : Nat,
               descriptors : Nat, listed : Nat, listedRecords : Nat]
Summaries == [nodes : Nat, records : Nat, folders : Nat, emptyFolders : Nat,
              files : [Kinds -> Nat], data : ForkTotals, rsrc : ForkTotals]

\* The forks of the counted files in a set of places, and their bytes.
ForksIn(which, S) == {p \in Counted \cap S : FileAt(p)[which].size # 0}
InPieces(which, S) == {p \in ForksIn(which, S) : FileAt(p)[which].inRecord > 1}
Bytes(which, S) == UNION {{p} \X (1..FileAt(p)[which].size) : p \in ForksIn(which, S)}
EmptyFolders == {p \in Folders : Valence[At(p).id] = 0}

ForksOf(forks, which, S) ==
  /\ forks \in ForkTotals
  /\ forks.count = Cardinality(ForksIn(which, S))
  /\ forks.fragmented = Cardinality(InPieces(which, S))
  /\ IsFiniteSet(Bytes(which, S)) /\ forks.space = Cardinality(Bytes(which, S))

\* The summary of a set of places.
SummaryOf(s, S) ==
  /\ s \in Summaries
  /\ s.records = Cardinality(S)
  /\ \A kind \in Kinds : s.files[kind] = Cardinality(OfKind(kind) \cap S)
  /\ s.folders = Cardinality(Folders \cap S)
  /\ s.emptyFolders = Cardinality(EmptyFolders \cap S)
  /\ ForksOf(s.data, "data", S) /\ ForksOf(s.rsrc, "rsrc", S)

\* One more of a finite set is in a part of it or not.
LEMMA OneMore ==
  ASSUME NEW S, IsFiniteSet(S), NEW q, q \notin S, NEW X
  PROVE  /\ IsFiniteSet(X \cap S) /\ Cardinality(X \cap S) \in Nat
         /\ q \in X => Cardinality(X \cap (S \cup {q})) = Cardinality(X \cap S) + 1
         /\ q \notin X => X \cap (S \cup {q}) = X \cap S
<1>1. IsFiniteSet(X \cap S) /\ Cardinality(X \cap S) \in Nat
  <2>1. X \cap S \in SUBSET S
    OBVIOUS
  <2> QED
    BY <2>1, FS_Subset, FS_CardinalityType
<1>2. q \in X => X \cap (S \cup {q}) = (X \cap S) \cup {q} /\ q \notin X \cap S
  OBVIOUS
<1>3. q \in X => Cardinality(X \cap (S \cup {q})) = Cardinality(X \cap S) + 1
  BY <1>1, <1>2, FS_AddElement
<1> QED
  BY <1>1, <1>3

\* A file that is not counted adds no forks, and a counted one with an empty
\* fork none of these.
LEMMA NoFork ==
  ASSUME NEW S, NEW q, NEW which, NEW forks, ForksOf(forks, which, S),
         q \notin Counted \/ FileAt(q)[which].size = 0
  PROVE  ForksOf(forks, which, S \cup {q})
<1>1. ForksIn(which, S \cup {q}) = ForksIn(which, S)
  BY DEF ForksIn
<1>2. InPieces(which, S \cup {q}) = InPieces(which, S)
  BY <1>1 DEF InPieces
<1>3. Bytes(which, S \cup {q}) = Bytes(which, S)
  BY <1>1 DEF Bytes
<1> QED
  BY <1>1, <1>2, <1>3 DEF ForksOf

\* generateForkSummary.
LEMMA OneFork ==
  ASSUME NEW S, IsFiniteSet(S), NEW q, q \notin S, q \in Counted, NEW which,
         FileAt(q)[which] \in ForkInfo,
         NEW forks, ForksOf(forks, which, S)
  PROVE  ForksOf(WithFork(forks, FileAt(q)[which]), which, S \cup {q})
<1> DEFINE fork == FileAt(q)[which]
           T == S \cup {q}
<1>1. CASE fork.size = 0
  BY <1>1, NoFork DEF WithFork
<1>2. CASE fork.size # 0
  <2>1. /\ forks.count \in Nat /\ forks.fragmented \in Nat /\ forks.blocks \in Nat /\ forks.space \in Nat
        /\ forks.descriptors \in Nat /\ forks.listed \in Nat /\ forks.listedRecords \in Nat
    BY DEF ForksOf, ForkTotals
  <2>2. fork.size \in Nat /\ fork.blocks \in Nat /\ fork.inRecord \in Nat /\ fork.extents \in Nat
    BY DEF ForkInfo
  <2>3. fork.extents \div Density \in Nat
    BY <2>2, DensityAssumption
  <2>4. ForksIn(which, T) = ForksIn(which, S) \cup {q} /\ q \notin ForksIn(which, S)
    BY <1>2 DEF ForksIn
  <2>5. IsFiniteSet(ForksIn(which, S)) /\ IsFiniteSet(InPieces(which, S))
    <3>1. ForksIn(which, S) \in SUBSET S /\ InPieces(which, S) \in SUBSET S
      BY DEF ForksIn, InPieces
    <3> QED
      BY <3>1, FS_Subset
  <2>6. Cardinality(ForksIn(which, T)) = forks.count + 1
    BY <2>4, <2>5, FS_AddElement DEF ForksOf
  <2>7. Cardinality(InPieces(which, T)) = forks.fragmented + IF fork.inRecord > 1 THEN 1 ELSE 0
    <3>1. CASE fork.inRecord > 1
      <4>1. InPieces(which, T) = InPieces(which, S) \cup {q} /\ q \notin InPieces(which, S)
        BY <2>4, <3>1 DEF InPieces
      <4> QED
        BY <2>5, <3>1, <4>1, FS_AddElement DEF ForksOf
    <3>2. CASE ~(fork.inRecord > 1)
      <4>1. InPieces(which, T) = InPieces(which, S)
        BY <2>4, <3>2 DEF InPieces
      <4> QED
        BY <2>1, <3>2, <4>1 DEF ForksOf
    <3> QED
      BY <3>1, <3>2
  <2>8. IsFiniteSet(Bytes(which, T)) /\ Cardinality(Bytes(which, T)) = forks.space + fork.size
    <3> DEFINE B == Bytes(which, S)
               C == {q} \X (1..fork.size)
    <3>1. Bytes(which, T) = B \cup C
      BY <2>4 DEF Bytes
    <3>2. B \cap C = {}
      BY <2>4 DEF Bytes
    <3>3. IsFiniteSet(C) /\ Cardinality(C) = fork.size
      <4>1. IsFiniteSet(1..fork.size) /\ Cardinality(1..fork.size) = fork.size
        <5> DEFINE one == 1
        <5>1. one \in Int /\ fork.size \in Int /\ fork.size >= one
          BY <1>2, <2>2
        <5>2. IsFiniteSet(one..fork.size) /\ Cardinality(one..fork.size) = fork.size - one + 1
          <6> HIDE DEF one, fork
          <6> QED
            BY <5>1, FS_Interval
        <5> QED
          BY <2>2, <5>2
      <4>2. IsFiniteSet({q}) /\ Cardinality({q}) = 1
        BY FS_Singleton
      <4>3. IsFiniteSet(C) /\ Cardinality(C) = 1 * fork.size
        <5> DEFINE one == {q}
                   D == 1..fork.size
        <5> HIDE DEF one, D
        <5>1. IsFiniteSet(one \X D) /\ Cardinality(one \X D) = Cardinality(one) * Cardinality(D)
          BY <4>1, <4>2, FS_Product DEF one, D
        <5> QED
          BY <4>1, <4>2, <5>1 DEF one, D
      <4> QED
        BY <2>2, <4>3
    <3>4. IsFiniteSet(B) /\ Cardinality(B) = forks.space
      BY DEF ForksOf
    <3>5. Cardinality(B \cap C) = 0
      BY <3>2, FS_EmptySet
    <3> HIDE DEF B, C, fork
    <3>6. IsFiniteSet(B \cup C) /\ Cardinality(B \cup C) = Cardinality(B) + Cardinality(C) - Cardinality(B \cap C)
      BY <3>3, <3>4, FS_Union
    <3>7. forks.space \in Nat /\ fork.size \in Nat
      BY <2>1, <2>2
    <3>8. Cardinality(B \cup C) = forks.space + fork.size
      BY <3>3, <3>4, <3>5, <3>6, <3>7
    <3> QED
      BY <3>1, <3>6, <3>8
  <2> DEFINE new == WithFork(forks, fork)
  <2>9. /\ new \in ForkTotals /\ new.count = forks.count + 1
        /\ new.fragmented = forks.fragmented + IF fork.inRecord > 1 THEN 1 ELSE 0
        /\ new.space = forks.space + fork.size
    BY <1>2, <2>1, <2>2, <2>3 DEF WithFork, ForkTotals
  <2> HIDE DEF new
  <2>10. ForksOf(new, which, T)
    BY <2>6, <2>7, <2>8, <2>9 DEF ForksOf
  <2> QED
    BY <2>10 DEF new
<1> QED
  BY <1>1, <1>2

FileRecord == [marks : SUBSET Range(Marks), data : ForkInfo, rsrc : ForkInfo]

\* A file has one kind, and only one with bytes is counted.
LEMMA KindIs ==
  ASSUME NEW file \in FileRecord
  PROVE  /\ Kind(file) \in Kinds
         /\ file.data.size \in Nat /\ file.rsrc.size \in Nat /\ Size(file) \in Nat
         /\ Kind(file) = "counted" => Size(file) # 0
<1>1. file.marks \subseteq Range(Marks) /\ file.data \in ForkInfo /\ file.rsrc \in ForkInfo
  BY DEF FileRecord
<1>2. file.data.size \in Nat /\ file.rsrc.size \in Nat /\ Size(file) \in Nat
  BY <1>1 DEF ForkInfo, Size
<1>3. CASE file.marks # {}
  <2> DEFINE T == {m \in DOMAIN Marks : Marks[m] \in file.marks}
  <2>1. DOMAIN Marks = 1..5 /\ Range(Marks) = {Marks[m] : m \in 1..5}
    BY DEF Marks, Range
  <2>2. T # {} /\ T \subseteq Nat
    BY <1>1, <1>3, <2>1
  <2>3. Min(T) \in T
    <3> HIDE DEF T
    <3> QED
      BY <2>2, LeastNumber DEF Min
  <2>4. Kind(file) = Marks[Min(T)]
    BY <1>3 DEF Kind
  <2>5. Kind(file) \in Range(Marks)
    <3> DEFINE m == Min(T)
    <3>1. m \in DOMAIN Marks
      BY <2>3
    <3> HIDE DEF m
    <3>2. Marks[m] \in Range(Marks)
      BY <2>1, <3>1
    <3> QED
      BY <2>4, <3>2 DEF m
  <2>6. "counted" \notin Range(Marks)
    BY DEF Marks, Range
  <2> QED
    BY <1>2, <2>5, <2>6 DEF Kinds
<1>4. CASE file.marks = {}
  BY <1>2, <1>4 DEF Kind, Kinds, Size
<1> QED
  BY <1>2, <1>3, <1>4

\* The types of a summary, field by field.
LEMMA SummaryIs ==
  ASSUME NEW s \in Summaries
  PROVE  /\ s.nodes \in Nat /\ s.records \in Nat /\ s.folders \in Nat /\ s.emptyFolders \in Nat
         /\ s.files \in [Kinds -> Nat] /\ s.data \in ForkTotals /\ s.rsrc \in ForkTotals
         /\ s = [nodes |-> s.nodes, records |-> s.records, folders |-> s.folders,
                 emptyFolders |-> s.emptyFolders, files |-> s.files, data |-> s.data, rsrc |-> s.rsrc]
BY DEF Summaries

\* A file is counted under its kind, and its forks if it is counted.
LEMMA FileAdded ==
  ASSUME NEW S, IsFiniteSet(S), NEW q, q \notin S, q \in Files, FileAt(q) \in FileRecord,
         NEW s, SummaryOf(s, S), NEW t,
         t.records = s.records + 1, t.folders = s.folders, t.emptyFolders = s.emptyFolders,
         t.nodes = s.nodes,
         t.files = [s.files EXCEPT ![Kind(FileAt(q))] = @ + 1],
         t.data = (IF q \in Counted THEN WithFork(s.data, FileAt(q)["data"]) ELSE s.data),
         t.rsrc = (IF q \in Counted THEN WithFork(s.rsrc, FileAt(q)["rsrc"]) ELSE s.rsrc),
         t = [nodes |-> t.nodes, records |-> t.records, folders |-> t.folders,
              emptyFolders |-> t.emptyFolders, files |-> t.files, data |-> t.data, rsrc |-> t.rsrc]
  PROVE  SummaryOf(t, S \cup {q})
<1> DEFINE T == S \cup {q}
           kind == Kind(FileAt(q))
<1>1. /\ s.nodes \in Nat /\ s.records \in Nat /\ s.folders \in Nat /\ s.emptyFolders \in Nat
      /\ s.files \in [Kinds -> Nat]
  BY SummaryIs DEF SummaryOf
<1>2. kind \in Kinds
  BY KindIs
<1>3. ForksOf(t.data, "data", T)
  <2>1. CASE q \in Counted
    <3>1. FileAt(q)["data"] \in ForkInfo
      BY DEF FileRecord
    <3>2. ForksOf(WithFork(s.data, FileAt(q)["data"]), "data", T)
      BY <2>1, <3>1, OneFork DEF SummaryOf
    <3> QED
      BY <2>1, <3>2
  <2>2. CASE q \notin Counted
    BY <2>2, NoFork DEF SummaryOf
  <2> QED
    BY <2>1, <2>2
<1>4. ForksOf(t.rsrc, "rsrc", T)
  <2>1. CASE q \in Counted
    <3>1. FileAt(q)["rsrc"] \in ForkInfo
      BY DEF FileRecord
    <3>2. ForksOf(WithFork(s.rsrc, FileAt(q)["rsrc"]), "rsrc", T)
      BY <2>1, <3>1, OneFork DEF SummaryOf
    <3> QED
      BY <2>1, <3>2
  <2>2. CASE q \notin Counted
    BY <2>2, NoFork DEF SummaryOf
  <2> QED
    BY <2>1, <2>2
<1>5. t.records = Cardinality(T)
  <2>1. Cardinality(T) = Cardinality(S) + 1
    BY FS_AddElement
  <2>2. s.records = Cardinality(S)
    BY DEF SummaryOf
  <2> QED
    BY <2>1, <2>2
<1>6. ASSUME NEW other \in Kinds PROVE t.files[other] = Cardinality(OfKind(other) \cap T)
  <2>1. s.files[other] = Cardinality(OfKind(other) \cap S)
    BY DEF SummaryOf
  <2>2. q \in OfKind(other) <=> other = kind
    BY DEF OfKind
  <2>3. CASE other = kind
    <3>1. Cardinality(OfKind(other) \cap T) = Cardinality(OfKind(other) \cap S) + 1
      <4> DEFINE X == OfKind(other)
      <4>1. q \in X
        BY <2>2, <2>3
      <4> HIDE DEF X, kind
      <4>2. Cardinality(X \cap (S \cup {q})) = Cardinality(X \cap S) + 1
        BY <4>1, OneMore
      <4> QED
        BY <4>2 DEF X
    <3>2. t.files[other] = s.files[other] + 1
      <4>1. t.files = [s.files EXCEPT ![kind] = @ + 1]
        OBVIOUS
      <4> HIDE DEF kind
      <4> QED
        BY <1>1, <1>2, <2>3, <4>1
    <3> QED
      BY <2>1, <3>1, <3>2
  <2>4. CASE other # kind
    <3>1. OfKind(other) \cap T = OfKind(other) \cap S
      BY <2>2, <2>4, OneMore
    <3>2. t.files[other] = s.files[other]
      <4>1. t.files = [s.files EXCEPT ![kind] = @ + 1]
        OBVIOUS
      <4> HIDE DEF kind
      <4> QED
        BY <1>1, <1>2, <2>4, <4>1
    <3> QED
      BY <2>1, <3>1, <3>2
  <2> QED
    BY <2>3, <2>4
<1>7. q \notin Folders /\ q \notin EmptyFolders
  BY DEF Files, Folders, EmptyFolders
<1>8. Folders \cap T = Folders \cap S /\ EmptyFolders \cap T = EmptyFolders \cap S
  BY <1>7
<1>9. t \in Summaries
  <2>1. t.files \in [Kinds -> Nat]
    BY <1>1, <1>2
  <2>2. t.data \in ForkTotals /\ t.rsrc \in ForkTotals
    BY <1>3, <1>4 DEF ForksOf
  <2>3. t.nodes \in Nat /\ t.records \in Nat /\ t.folders \in Nat /\ t.emptyFolders \in Nat
    BY <1>1
  <2> DEFINE a == t.nodes
             b == t.records
             c == t.folders
             d == t.emptyFolders
             e == t.files
             f == t.data
             g == t.rsrc
  <2>4. t = [nodes |-> a, records |-> b, folders |-> c, emptyFolders |-> d, files |-> e, data |-> f, rsrc |-> g]
    OBVIOUS
  <2>5. a \in Nat /\ b \in Nat /\ c \in Nat /\ d \in Nat /\ e \in [Kinds -> Nat] /\ f \in ForkTotals /\ g \in ForkTotals
    BY <2>1, <2>2, <2>3
  <2> HIDE DEF a, b, c, d, e, f, g
  <2> QED
    BY <2>4, <2>5 DEF Summaries
<1> QED
  BY <1>3, <1>4, <1>5, <1>6, <1>8, <1>9 DEF SummaryOf

\* A folder, and a record that is neither.
LEMMA OtherAdded ==
  ASSUME NEW S, IsFiniteSet(S), NEW q, q \notin S, q \notin Files,
         NEW s, SummaryOf(s, S), NEW t \in Summaries,
         t.records = s.records + 1, t.files = s.files, t.data = s.data, t.rsrc = s.rsrc,
         t.folders = s.folders + IF q \in Folders THEN 1 ELSE 0,
         t.emptyFolders = s.emptyFolders + IF q \in EmptyFolders THEN 1 ELSE 0
  PROVE  SummaryOf(t, S \cup {q})
<1> DEFINE T == S \cup {q}
<1>1. s.records \in Nat /\ s.folders \in Nat /\ s.emptyFolders \in Nat
  BY SummaryIs DEF SummaryOf
<1>2. q \notin Counted /\ \A kind : q \notin OfKind(kind)
  BY DEF Counted, OfKind
<1>3. ForksOf(t.data, "data", T) /\ ForksOf(t.rsrc, "rsrc", T)
  BY <1>2, NoFork DEF SummaryOf
<1>4. t.records = Cardinality(T)
  <2>1. Cardinality(T) = Cardinality(S) + 1
    BY FS_AddElement
  <2>2. s.records = Cardinality(S)
    BY DEF SummaryOf
  <2> QED
    BY <2>1, <2>2
<1>5. \A kind \in Kinds : t.files[kind] = Cardinality(OfKind(kind) \cap T)
  <2>1. \A kind \in Kinds : OfKind(kind) \cap T = OfKind(kind) \cap S
    BY <1>2
  <2> QED
    BY <2>1 DEF SummaryOf
<1>6. t.folders = Cardinality(Folders \cap T)
  <2>1. s.folders = Cardinality(Folders \cap S)
    BY DEF SummaryOf
  <2>2. CASE q \in Folders
    <3>1. Cardinality(Folders \cap T) = Cardinality(Folders \cap S) + 1
      BY <2>2, OneMore
    <3> QED
      BY <1>1, <2>1, <2>2, <3>1
  <2>3. CASE q \notin Folders
    <3>1. Folders \cap T = Folders \cap S
      BY <2>3
    <3> QED
      BY <1>1, <2>1, <2>3, <3>1
  <2> QED
    BY <2>2, <2>3
<1>7. t.emptyFolders = Cardinality(EmptyFolders \cap T)
  <2>1. s.emptyFolders = Cardinality(EmptyFolders \cap S)
    BY DEF SummaryOf
  <2>2. CASE q \in EmptyFolders
    <3>1. Cardinality(EmptyFolders \cap T) = Cardinality(EmptyFolders \cap S) + 1
      BY <2>2, OneMore
    <3> QED
      BY <1>1, <2>1, <2>2, <3>1
  <2>3. CASE q \notin EmptyFolders
    <3>1. EmptyFolders \cap T = EmptyFolders \cap S
      BY <2>3
    <3> QED
      BY <1>1, <2>1, <2>3, <3>1
  <2> QED
    BY <2>2, <2>3
<1> QED
  BY <1>3, <1>4, <1>5, <1>6, <1>7 DEF SummaryOf

Ranks == [measure : Nat, cnid : Nat]
RankOf(p) == [measure |-> Size(FileAt(p)), cnid |-> At(p).id]

\* The list of the largest of a set of places: it is sorted, it holds nothing
\* else, and what is not on it is no larger than its first.
RankingOf(list, S) ==
  /\ list \in [1..RankCount -> Ranks]
  /\ \A m, n \in 1..RankCount : m <= n => list[m].measure <= list[n].measure
  /\ \A n \in 1..RankCount : list[n] = NoRank \/ \E p \in Counted \cap S : list[n] = RankOf(p)
  /\ \A p \in Counted \cap S :
       (\E n \in 1..RankCount : list[n] = RankOf(p)) \/ RankOf(p).measure <= list[1].measure

\* What is in order from each to the next is in order.
LEMMA InOrder ==
  ASSUME NEW list, \A n \in 1..RankCount : list[n].measure \in Nat,
         \A n \in 1..RankCount - 1 : list[n].measure <= list[n + 1].measure,
         NEW m \in 1..RankCount, NEW n \in 1..RankCount, m <= n
  PROVE  list[m].measure <= list[n].measure
<1> DEFINE P == {j \in 1..RankCount : list[m].measure <= list[j].measure}
<1>1. m \in Nat /\ n \in Nat /\ RankCount \in Nat /\ m \in P
  BY RankAssumption
<1>2. ASSUME NEW j \in m + 1..n, j - 1 \in P PROVE j \in P
  <2>1. j - 1 \in 1..RankCount - 1 /\ j \in 1..RankCount /\ (j - 1) + 1 = j
    BY <1>1, <1>2
  <2>2. list[j - 1].measure <= list[j].measure
    BY <2>1
  <2>3. list[m].measure \in Nat /\ list[j - 1].measure \in Nat /\ list[j].measure \in Nat
    BY <1>1, <1>2, <2>1
  <2> QED
    BY <1>2, <2>1, <2>2, <2>3
<1>3. n \in P
  <2> HIDE DEF P
  <2>1. \A j \in m..n : j \in P
    BY <1>1, <1>2, UpFrom
  <2> QED
    BY <1>1, <2>1
<1> QED
  BY <1>3

\* A permutation meets every place.
LEMMA Everywhere ==
  ASSUME NEW p \in [1..RankCount -> 1..RankCount],
         \A m, n \in 1..RankCount : m # n => p[m] # p[n],
         NEW j \in 1..RankCount
  PROVE  \E n \in 1..RankCount : p[n] = j
<1> DEFINE D == 1..RankCount
<1>1. IsFiniteSet(D)
  BY RankAssumption, FS_Interval
<1>2. p \in Injection(D, D)
  BY DEF Injection, IsInjective
<1>3. p \in Surjection(D, D)
  <2> HIDE DEF D
  <2> QED
    BY <1>1, <1>2, FS_Injection
<1> QED
  BY <1>3 DEF Surjection

\* A file that is not counted is not on the list.
LEMMA NotRanked ==
  ASSUME NEW list, NEW S, RankingOf(list, S), NEW q, q \notin Counted
  PROVE  RankingOf(list, S \cup {q})
<1>1. Counted \cap (S \cup {q}) = Counted \cap S
  OBVIOUS
<1> QED
  BY <1>1 DEF RankingOf

\* A file that is counted, put on the list or left off it.
LEMMA RankAdded ==
  ASSUME NEW S, NEW q, q \in Counted, \A r \in Counted : RankOf(r) \in Ranks,
         RankingOf(largestFiles, S), NEW list \in Ranked(RankOf(q))
  PROVE  RankingOf(list, S \cup {q})
<1> DEFINE D == 1..RankCount
           rank == RankOf(q)
           files == largestFiles
           T == S \cup {q}
           replaced == [files EXCEPT ![1] = rank]
<1>1. 1 \in D /\ \A n \in D : n \in Nat /\ 1 <= n
  BY RankAssumption
<1>2. /\ files \in [D -> Ranks]
      /\ \A m, n \in D : m <= n => files[m].measure <= files[n].measure
      /\ \A n \in D : files[n] = NoRank \/ \E p \in Counted \cap S : files[n] = RankOf(p)
      /\ \A p \in Counted \cap S : (\E n \in D : files[n] = RankOf(p)) \/ RankOf(p).measure <= files[1].measure
  BY DEF RankingOf
<1>3. \A r \in Ranks : r.measure \in Nat
  BY DEF Ranks
<1>4. \A p \in Counted \cap T : p = q \/ p \in Counted \cap S
  OBVIOUS
<1>5. q \in Counted \cap T /\ Counted \cap S \subseteq Counted \cap T
  OBVIOUS
<1>6. CASE ~(files[1].measure < rank.measure)
  <2>1. list = files
    BY <1>6 DEF Ranked
  <2>2. rank.measure <= files[1].measure
    BY <1>1, <1>2, <1>3, <1>6
  <2>3. \A p \in Counted \cap T : (\E n \in D : files[n] = RankOf(p)) \/ RankOf(p).measure <= files[1].measure
    BY <1>2, <1>4, <2>2
  <2>4. RankingOf(list, T)
    <3> HIDE DEF T, rank
    <3> QED
      BY <1>2, <1>5, <2>1, <2>3 DEF RankingOf
  <2> QED
    BY <2>4
<1>7. CASE files[1].measure < rank.measure
  <2>1. PICK p \in [D -> D] : /\ \A m, n \in D : m # n => p[m] # p[n]
                              /\ list = [n \in D |-> replaced[p[n]]]
                              /\ \A n \in 1..RankCount - 1 : list[n].measure <= list[n + 1].measure
    BY <1>7 DEF Ranked
  <2>2. replaced \in [D -> Ranks] /\ replaced[1] = rank /\ \A n \in D : n # 1 => replaced[n] = files[n]
    BY <1>1, <1>2
  <2>3. \A n \in D : p[n] \in D /\ list[n] = replaced[p[n]]
    BY <2>1
  <2>4. list \in [D -> Ranks]
    <3> HIDE DEF replaced
    <3> QED
      BY <2>1, <2>2
  <2> HIDE DEF replaced
  <2>5. \A m, n \in D : m <= n => list[m].measure <= list[n].measure
    <3> SUFFICES ASSUME NEW m \in D, NEW n \in D, m <= n PROVE list[m].measure <= list[n].measure
      OBVIOUS
    <3>1. \A j \in D : list[j].measure \in Nat
      BY <1>3, <2>4
    <3> QED
      BY <2>1, <3>1, InOrder
  <2>6. \A n \in D : list[n] = NoRank \/ \E r \in Counted \cap T : list[n] = RankOf(r)
    <3> SUFFICES ASSUME NEW n \in D PROVE list[n] = NoRank \/ \E r \in Counted \cap T : list[n] = RankOf(r)
      OBVIOUS
    <3>1. CASE p[n] = 1
      BY <1>5, <2>2, <2>3, <3>1
    <3>2. CASE p[n] # 1
      <4>1. list[n] = files[p[n]] /\ p[n] \in D
        BY <2>2, <2>3, <3>2
      <4> HIDE DEF T, rank, files
      <4> QED
        BY <1>2, <1>5, <4>1
    <3> QED
      BY <3>1, <3>2
  \* what was the first is no larger than what is
  <2>7. files[1].measure <= list[1].measure
    <3>1. CASE p[1] = 1
      <4>1. list[1] = rank
        BY <1>1, <2>2, <2>3, <3>1
      <4> QED
        BY <1>1, <1>2, <1>3, <1>7, <4>1
    <3>2. CASE p[1] # 1
      <4>1. list[1] = files[p[1]] /\ p[1] \in D /\ 1 <= p[1]
        BY <1>1, <2>2, <2>3, <3>2
      <4> QED
        BY <1>1, <1>2, <4>1
    <3> QED
      BY <3>1, <3>2
  <2>8. \A r \in Counted \cap T : (\E n \in D : list[n] = RankOf(r)) \/ RankOf(r).measure <= list[1].measure
    <3> SUFFICES ASSUME NEW r \in Counted \cap T
                 PROVE (\E n \in D : list[n] = RankOf(r)) \/ RankOf(r).measure <= list[1].measure
      OBVIOUS
    <3>1. ASSUME NEW j \in D PROVE \E n \in D : list[n] = replaced[j]
      <4>1. PICK n \in D : p[n] = j
        BY <2>1, <3>1, Everywhere
      <4> QED
        BY <2>3, <4>1
    <3>2. CASE r = q
      BY <1>1, <2>2, <3>1, <3>2
    <3>3. CASE r \in Counted \cap S /\ \E n \in D : n # 1 /\ files[n] = RankOf(r)
      <4>1. PICK n \in D : n # 1 /\ files[n] = RankOf(r)
        BY <3>3
      <4>2. replaced[n] = RankOf(r)
        BY <2>2, <4>1
      <4> QED
        BY <3>1, <4>2
    <3>4. CASE RankOf(r).measure <= files[1].measure /\ RankOf(r).measure \in Nat
      <4>1. files[1].measure \in Nat /\ list[1].measure \in Nat
        BY <1>1, <1>2, <1>3, <2>4
      <4> QED
        BY <2>7, <3>4, <4>1
    <3>5. r = q \/ (r \in Counted \cap S /\ ((\E n \in D : files[n] = RankOf(r)) \/ RankOf(r).measure <= files[1].measure))
      BY <1>2, <1>4
    <3>6. files[1] = RankOf(r) => RankOf(r).measure <= files[1].measure
      BY <1>1, <1>2, <1>3
    <3>7. RankOf(r).measure \in Nat
      BY <1>3
    <3> QED
      BY <3>2, <3>3, <3>4, <3>5, <3>6, <3>7
  <2>9. RankingOf(list, T)
    <3> HIDE DEF T
    <3> QED
      BY <2>4, <2>5, <2>6, <2>8 DEF RankingOf
  <2> QED
    BY <2>9
<1> QED
  BY <1>6, <1>7

\* The records that the summary is past, and what it says of them.
Passed == {p \in Places : Less(p, <<leaf, rec>>)}

Counting ==
  /\ at = "summary" => leaf # 0
  /\ leaf # 0 =>
       /\ leaf \in 1..LeafCount /\ rec \in 0..Len(catalog.leaves[leaf]) + 1
       /\ summary.nodes = IF rec = 0 THEN leaf - 1 ELSE leaf
       /\ SummaryOf(summary, Passed)
       /\ RankingOf(largestFiles, Passed)

\* What is said of a set of places depends on the catalog alone.
LEMMA SameSummary ==
  ASSUME UNCHANGED catalog
  PROVE  /\ Places' = Places /\ LeafCount' = LeafCount /\ \A p : At(p)' = At(p)
         /\ \A s, S : SummaryOf(s, S)' <=> SummaryOf(s, S)
         /\ \A list, S : RankingOf(list, S)' <=> RankingOf(list, S)
<1>1. Places' = Places /\ LeafCount' = LeafCount /\ \A p : At(p)' = At(p)
  BY DEF Places, LeafCount, At
<1>2. Files' = Files /\ Folders' = Folders /\ EmptyFolders' = EmptyFolders /\ \A p : FileAt(p)' = FileAt(p)
  BY <1>1 DEF Files, Folders, EmptyFolders, FileAt
<1>3. (\A kind : OfKind(kind)' = OfKind(kind)) /\ Counted' = Counted
  BY <1>2 DEF OfKind, Counted, Kind, Marks
<1>4. \A which, S : ForksIn(which, S)' = ForksIn(which, S)
  BY <1>2, <1>3 DEF ForksIn
<1>5. \A which, S : InPieces(which, S)' = InPieces(which, S) /\ Bytes(which, S)' = Bytes(which, S)
  BY <1>2, <1>4 DEF InPieces, Bytes
<1>6. \A forks, which, S : ForksOf(forks, which, S)' <=> ForksOf(forks, which, S)
  BY <1>4, <1>5 DEF ForksOf, ForkTotals
<1>7. \A s, S : SummaryOf(s, S)' <=> SummaryOf(s, S)
  BY <1>2, <1>3, <1>6 DEF SummaryOf, Summaries, ForkTotals, Kinds, Marks
<1>8. \A p : RankOf(p)' = RankOf(p)
  BY <1>1, <1>2 DEF RankOf, Size
<1>9. \A list, S : RankingOf(list, S)' <=> RankingOf(list, S)
  BY <1>3, <1>8 DEF RankingOf, Ranks, NoRank
<1> QED
  BY <1>1, <1>7, <1>9

\* What is known of the files in the catalog.
LEMMA FilesKnown ==
  ASSUME Asked
  PROVE  /\ \A p \in Files : FileAt(p) \in FileRecord /\ Kind(FileAt(p)) \in Kinds
         /\ \A p \in Counted : RankOf(p) \in Ranks /\ RankOf(p).measure # 0
<1>1. ASSUME NEW p \in Files PROVE FileAt(p) \in FileRecord
  <2>1. p \in Places /\ At(p).type = "file"
    BY DEF Files
  <2>2. p[1] \in DOMAIN catalog.leaves /\ p[2] \in DOMAIN catalog.leaves[p[1]]
    BY <2>1, PlacesAre DEF Asked
  <2>3. At(p) \in Range(catalog.leaves[p[1]])
    BY <2>2 DEF At, Range
  <2>4. At(p).id \in DOMAIN FileInfo
    BY <2>1, <2>2, <2>3 DEF Asked, Leaves
  <2> QED
    BY <2>4, FilesAssumption DEF FileAt, FileRecord
<1>2. ASSUME NEW p \in Counted PROVE RankOf(p) \in Ranks /\ RankOf(p).measure # 0
  <2>1. p \in Files /\ p \in Places /\ Kind(FileAt(p)) = "counted"
    BY DEF Counted, OfKind, Files
  <2>2. Size(FileAt(p)) \in Nat /\ Size(FileAt(p)) # 0
    BY <1>1, <2>1, KindIs
  <2>3. At(p).id \in Nat
    BY <2>1, PlacesAre, RecordIs DEF Asked
  <2> QED
    BY <2>2, <2>3 DEF RankOf, Ranks
<1> QED
  BY <1>1, <1>2, KindIs

\* The record that is read is not passed yet.
LEMMA ReadIs ==
  ASSUME Leaves, leaf \in 1..LeafCount, rec \in 0..Len(catalog.leaves[leaf]) + 1
  PROVE  /\ IsFiniteSet(Passed)
         /\ leaf \in Nat /\ rec \in Nat /\ Len(catalog.leaves[leaf]) \in Nat /\ LeafCount \in Nat
         /\ leaf \in DOMAIN catalog.leaves
         /\ AtRecord => /\ rec # 0 /\ rec + 1 \in 0..Len(catalog.leaves[leaf]) + 1
                        /\ <<leaf, rec>> \in Places /\ <<leaf, rec>> \notin Passed
                        /\ At(<<leaf, rec>>) = Record
         /\ \A p \in Places : Less(p, <<leaf, rec + 1>>) <=> Less(p, <<leaf, rec>>) \/ p = <<leaf, rec>>
         /\ \A p \in Places : ~Less(p, <<1, 0>>) /\ (rec = 0 => p # <<leaf, rec>>)
         /\ LeafDone => \A p \in Places : Less(p, <<leaf + 1, 0>>) <=> Less(p, <<leaf, rec>>)
         /\ SummaryDone => Passed = Places
<1> DEFINE ls == catalog.leaves
<1>1. LeafCount \in Nat /\ DOMAIN ls = 1..LeafCount
  BY PlacesAre DEF LeafCount
<1>2. /\ leaf \in Nat /\ leaf \in DOMAIN ls /\ Len(ls[leaf]) \in Nat /\ DOMAIN ls[leaf] = 1..Len(ls[leaf])
      /\ rec \in Nat
  BY <1>1, PlacesAre
<1>3. IsFiniteSet(Passed)
  <2>1. Passed \in SUBSET Places
    BY DEF Passed
  <2> QED
    BY <2>1, PlacesFinite, FS_Subset
<1>4. \A p \in Places : /\ p = <<p[1], p[2]>> /\ p[1] \in 1..LeafCount /\ p[1] \in Nat /\ p[2] \in Nat
                        /\ p[2] \in 1..Len(ls[p[1]])
  BY <1>1, PlacesAre
<1>5. \A p \in Places : p = <<leaf, rec>> <=> p[1] = leaf /\ p[2] = rec
  BY <1>4
<1>6. ASSUME AtRecord
      PROVE  /\ rec # 0 /\ rec + 1 \in 0..Len(ls[leaf]) + 1
             /\ <<leaf, rec>> \in Places /\ <<leaf, rec>> \notin Passed
             /\ At(<<leaf, rec>>) = Record
  <2>1. rec \in 1..Len(ls[leaf])
    BY <1>2, <1>6 DEF AtRecord
  <2>2. <<leaf, rec>> \in Places
    BY <1>2, <2>1, PlacesAre
  <2>3. ~Less(<<leaf, rec>>, <<leaf, rec>>)
    BY <1>2 DEF Less
  <2> QED
    BY <1>2, <2>1, <2>2, <2>3 DEF Passed, At, Record
<1>7. ASSUME NEW p \in Places
      PROVE  Less(p, <<leaf, rec + 1>>) <=> Less(p, <<leaf, rec>>) \/ p = <<leaf, rec>>
  BY <1>2, <1>4, <1>5 DEF Less
<1>8. ASSUME NEW p \in Places PROVE ~Less(p, <<1, 0>>) /\ (rec = 0 => p # <<leaf, rec>>)
  BY <1>2, <1>4, <1>5 DEF Less
<1>9. ASSUME LeafDone, NEW p \in Places PROVE Less(p, <<leaf + 1, 0>>) <=> Less(p, <<leaf, rec>>)
  <2>1. p[1] = leaf => p[2] < rec
    BY <1>2, <1>4, <1>9 DEF LeafDone
  <2> QED
    BY <1>2, <1>4, <2>1 DEF Less
<1>10. ASSUME SummaryDone PROVE Passed = Places
  <2> SUFFICES ASSUME NEW p \in Places PROVE Less(p, <<leaf, rec>>)
    BY DEF Passed
  <2>1. p[1] = leaf => p[2] < rec
    BY <1>2, <1>4, <1>10 DEF SummaryDone, LeafDone
  <2>2. leaf = LeafCount
    BY <1>10 DEF SummaryDone, LeafCount
  <2> QED
    BY <1>2, <1>4, <2>1, <2>2 DEF Less
<1> QED
  BY <1>1, <1>2, <1>3, <1>6, <1>7, <1>8, <1>9, <1>10

\* The places that are passed behind a record, a leaf and the beginning of one.
LEMMA PassedNext ==
  ASSUME Leaves, leaf \in 1..LeafCount, rec \in 0..Len(catalog.leaves[leaf]) + 1, UNCHANGED catalog
  PROVE  /\ AtRecord /\ leaf' = leaf /\ rec' = rec + 1 => Passed' = Passed \cup {<<leaf, rec>>}
         /\ rec = 0 /\ leaf' = leaf /\ rec' = 1 => Passed' = Passed
         /\ LeafDone /\ leaf' = leaf + 1 /\ rec' = 0 => Passed' = Passed
<1>1. Passed' = {p \in Places : Less(p, <<leaf', rec'>>)}
  BY SameSummary DEF Passed, Less
<1>2. ASSUME AtRecord, leaf' = leaf, rec' = rec + 1 PROVE Passed' = Passed \cup {<<leaf, rec>>}
  <2>1. Passed' = {p \in Places : Less(p, <<leaf, rec + 1>>)}
    BY <1>1, <1>2
  <2>2. \A p \in Places : Less(p, <<leaf, rec + 1>>) <=> Less(p, <<leaf, rec>>) \/ p = <<leaf, rec>>
    BY ReadIs
  <2>3. <<leaf, rec>> \in Places
    BY <1>2, ReadIs
  <2> QED
    BY <2>1, <2>2, <2>3 DEF Passed
<1>3. ASSUME rec = 0, leaf' = leaf, rec' = 1 PROVE Passed' = Passed
  <2>1. Passed' = {p \in Places : Less(p, <<leaf, rec + 1>>)}
    BY <1>1, <1>3
  <2>2. \A p \in Places : (Less(p, <<leaf, rec + 1>>) <=> Less(p, <<leaf, rec>>) \/ p = <<leaf, rec>>) /\ p # <<leaf, rec>>
    BY <1>3, ReadIs
  <2> QED
    BY <2>1, <2>2 DEF Passed
<1>4. ASSUME LeafDone, leaf' = leaf + 1, rec' = 0 PROVE Passed' = Passed
  <2>1. Passed' = {p \in Places : Less(p, <<leaf + 1, 0>>)}
    BY <1>1, <1>4
  <2>2. \A p \in Places : Less(p, <<leaf + 1, 0>>) <=> Less(p, <<leaf, rec>>)
    BY <1>4, ReadIs
  <2> QED
    BY <2>1, <2>2 DEF Passed
<1> QED
  BY <1>2, <1>3, <1>4

\* Neither where a leaf begins nor where it ends is anything counted.
LEMMA LeafKeeps ==
  ASSUME Asked, Counting, leaf # 0, UNCHANGED catalog, EnterLeaf \/ NextLeaf
  PROVE  Counting'
<1>1. /\ leaf \in 1..LeafCount /\ rec \in 0..Len(catalog.leaves[leaf]) + 1
      /\ summary.nodes = IF rec = 0 THEN leaf - 1 ELSE leaf
      /\ SummaryOf(summary, Passed) /\ RankingOf(largestFiles, Passed)
  BY DEF Counting
<1>2. leaf \in Nat /\ rec \in Nat /\ Len(catalog.leaves[leaf]) \in Nat /\ LeafCount \in Nat
  BY <1>1, ReadIs DEF Asked
<1>3. LeafCount' = LeafCount
  BY SameSummary
<1>4. CASE EnterLeaf
  <2>1. /\ rec = 0 /\ leaf' = leaf /\ rec' = 1 /\ largestFiles' = largestFiles
        /\ summary' = [summary EXCEPT !.nodes = @ + 1]
    BY <1>4 DEF EnterLeaf
  <2>2. Passed' = Passed
    BY <1>1, <2>1, PassedNext DEF Asked
  <2> DEFINE s == summary
             S == Passed
             t == [s EXCEPT !.nodes = @ + 1]
  <2>3. SummaryOf(s, S) /\ s \in Summaries
    BY <1>1 DEF SummaryOf
  <2> HIDE DEF s, S
  <2>4. /\ t \in Summaries /\ t.nodes = s.nodes + 1 /\ t.records = s.records /\ t.files = s.files /\ t.folders = s.folders
        /\ t.emptyFolders = s.emptyFolders /\ t.data = s.data /\ t.rsrc = s.rsrc
    BY <2>3 DEF Summaries
  <2> HIDE DEF t
  <2>5. SummaryOf(t, S)
    BY <2>3, <2>4 DEF SummaryOf
  <2>6. SummaryOf(summary, Passed)'
    <3>1. summary' = t /\ Passed' = S
      BY <2>1, <2>2 DEF t, s, S
    <3> QED
      BY <2>5, <3>1, SameSummary
  <2>7. RankingOf(largestFiles, Passed)'
    BY <1>1, <2>1, <2>2, SameSummary
  <2>8. summary'.nodes = leaf'
    BY <1>1, <1>2, <2>1, <2>4 DEF t, s
  <2>9. rec' \in 0..Len(catalog'.leaves[leaf']) + 1 /\ leaf' \in 1..LeafCount'
    BY <1>1, <1>2, <1>3, <2>1
  <2> QED
    BY <2>1, <2>6, <2>7, <2>8, <2>9 DEF Counting
<1>5. CASE NextLeaf
  <2>1. LeafDone /\ leaf < LeafCount /\ leaf' = leaf + 1 /\ rec' = 0 /\ UNCHANGED <<summary, largestFiles>>
    BY <1>5 DEF NextLeaf, LeafCount
  <2>2. Passed' = Passed
    BY <1>1, <2>1, PassedNext DEF Asked
  <2>3. SummaryOf(summary, Passed)' /\ RankingOf(largestFiles, Passed)'
    BY <1>1, <2>1, <2>2, SameSummary
  <2>4. rec # 0
    BY <1>2, <2>1 DEF LeafDone
  <2>5. leaf' \in 1..LeafCount' /\ rec' \in 0..Len(catalog'.leaves[leaf']) + 1
    <3>1. leaf' \in 1..LeafCount
      BY <1>1, <1>2, <2>1
    <3>2. Len(catalog.leaves[leaf']) \in Nat
      BY <3>1, PlacesAre DEF Asked, LeafCount
    <3> QED
      BY <1>3, <2>1, <3>1, <3>2
  <2>6. leaf' # 0 /\ summary'.nodes = leaf' - 1
    BY <1>1, <1>2, <2>1, <2>4
  <2> QED
    BY <2>1, <2>3, <2>5, <2>6 DEF Counting
<1> QED
  BY <1>4, <1>5

\* What a record adds to the summary.
LEMMA SummaryAdds ==
  ASSUME Asked, NEW S, IsFiniteSet(S), SummaryOf(summary, S),
         AtRecord, At(<<leaf, rec>>) = Record, <<leaf, rec>> \in Places, <<leaf, rec>> \notin S,
         CountFile \/ CountFolder \/ CountOther
  PROVE  summary'.nodes = summary.nodes /\ SummaryOf(summary', S \cup {<<leaf, rec>>})
<1> DEFINE q == <<leaf, rec>>
           s == summary
           t == summary'
<1> HIDE DEF q, s, t
<1>1. SummaryOf(s, S) /\ q \notin S /\ q \in Places /\ At(q) = Record
  BY DEF q, s
<1>2. s \in Summaries
  BY <1>1 DEF SummaryOf
<1>3. CASE CountFile
  <2> DEFINE file == FileAt(q)
             kind == Kind(file)
             d == WithFork(s.data, file.data)
             e == WithFork(s.rsrc, file.rsrc)
             tallied == [s EXCEPT !.records = @ + 1]
             counted == [tallied EXCEPT !.files[kind] = @ + 1]
  <2>1. q \in Files /\ FileInfo[Record.id] = file
    BY <1>1, <1>3 DEF CountFile, Files, FileAt
  <2>2. t = IF kind # "counted" THEN counted ELSE [counted EXCEPT !.data = WithFork(@, file.data), !.rsrc = WithFork(@, file.rsrc)]
    BY <1>3, <2>1 DEF CountFile, Tallied, s, t
  <2>3. file \in FileRecord /\ kind \in Kinds
    BY <2>1, FilesKnown
  <2>4. q \in Counted <=> kind = "counted"
    BY <2>1 DEF Counted, OfKind
  <2> HIDE DEF file, kind, d, e
  <2>5. s.records \in Nat /\ s.files \in [Kinds -> Nat]
    BY <1>2, SummaryIs
  <2>6. /\ tallied.records = s.records + 1 /\ tallied.files = s.files /\ tallied.data = s.data /\ tallied.rsrc = s.rsrc
        /\ tallied.nodes = s.nodes /\ tallied.folders = s.folders /\ tallied.emptyFolders = s.emptyFolders
        /\ tallied \in Summaries
    BY <1>2, <2>5 DEF Summaries
  <2> HIDE DEF tallied
  <2>7. /\ counted.records = s.records + 1 /\ counted.files = [s.files EXCEPT ![kind] = @ + 1]
        /\ counted.data = s.data /\ counted.rsrc = s.rsrc
        /\ counted.nodes = s.nodes /\ counted.folders = s.folders /\ counted.emptyFolders = s.emptyFolders
        /\ counted \in Summaries
    BY <2>3, <2>5, <2>6 DEF Summaries
  <2> HIDE DEF counted
  <2>8. /\ t.records = s.records + 1 /\ t.files = [s.files EXCEPT ![kind] = @ + 1]
        /\ t.nodes = s.nodes /\ t.folders = s.folders /\ t.emptyFolders = s.emptyFolders
        /\ t.data = IF kind = "counted" THEN d ELSE s.data
        /\ t.rsrc = IF kind = "counted" THEN e ELSE s.rsrc
        /\ t = [nodes |-> t.nodes, records |-> t.records, folders |-> t.folders,
                emptyFolders |-> t.emptyFolders, files |-> t.files, data |-> t.data, rsrc |-> t.rsrc]
    <3>1. CASE kind # "counted"
      <4>1. t = counted
        BY <2>2, <3>1
      <4>2. t \in Summaries
        BY <2>7, <4>1
      <4> QED
        BY <2>7, <3>1, <4>1, <4>2, SummaryIs
    <3>2. CASE kind = "counted"
      <4>1. t = [counted EXCEPT !.data = d, !.rsrc = e]
        BY <2>2, <2>7, <3>2 DEF d, e
      <4>2. counted = [nodes |-> counted.nodes, records |-> counted.records, folders |-> counted.folders,
                       emptyFolders |-> counted.emptyFolders, files |-> counted.files, data |-> counted.data,
                       rsrc |-> counted.rsrc]
        BY <2>7, SummaryIs
      <4>3. t = [nodes |-> counted.nodes, records |-> counted.records, folders |-> counted.folders,
                 emptyFolders |-> counted.emptyFolders, files |-> counted.files, data |-> d, rsrc |-> e]
        BY <4>1, <4>2
      <4> QED
        BY <2>7, <3>2, <4>3
    <3> QED
      BY <3>1, <3>2
  <2>9. file.data = FileAt(q)["data"] /\ file.rsrc = FileAt(q)["rsrc"]
    BY DEF file
  <2> HIDE DEF d, e
  <2>10. /\ t.files = [s.files EXCEPT ![Kind(FileAt(q))] = @ + 1]
         /\ t.data = (IF q \in Counted THEN WithFork(s.data, FileAt(q)["data"]) ELSE s.data)
         /\ t.rsrc = (IF q \in Counted THEN WithFork(s.rsrc, FileAt(q)["rsrc"]) ELSE s.rsrc)
    <3>1. t.files = [s.files EXCEPT ![Kind(FileAt(q))] = @ + 1]
      BY <2>8 DEF kind, file
    <3>2. t.data = (IF q \in Counted THEN WithFork(s.data, FileAt(q)["data"]) ELSE s.data)
      BY <2>4, <2>8 DEF d, file
    <3>3. t.rsrc = (IF q \in Counted THEN WithFork(s.rsrc, FileAt(q)["rsrc"]) ELSE s.rsrc)
      BY <2>4, <2>8 DEF e, file
    <3> QED
      BY <3>1, <3>2, <3>3
  <2>11. FileAt(q) \in FileRecord
    BY <2>3 DEF file
  <2>12. SummaryOf(t, S \cup {q})
    BY <1>1, <2>1, <2>8, <2>10, <2>11, FileAdded
  <2> QED
    BY <2>8, <2>12 DEF q, s, t
<1>4. CASE CountFolder \/ CountOther
  <2> DEFINE a == IF q \in Folders THEN 1 ELSE 0
             b == IF q \in EmptyFolders THEN 1 ELSE 0
             tallied == [s EXCEPT !.records = @ + 1]
  <2>1. q \notin Files
    BY <1>1, <1>4 DEF CountFolder, CountOther, Files
  <2>2. tallied \in Summaries /\ tallied.records = s.records + 1 /\ tallied.files = s.files /\ tallied.data = s.data
        /\ tallied.rsrc = s.rsrc /\ tallied.nodes = s.nodes /\ tallied.folders = s.folders
        /\ tallied.emptyFolders = s.emptyFolders
    BY <1>2 DEF Summaries
  <2>3. s.folders \in Nat /\ s.emptyFolders \in Nat
    BY <1>2, SummaryIs
  <2>4. /\ t \in Summaries /\ t.records = s.records + 1 /\ t.files = s.files /\ t.data = s.data /\ t.rsrc = s.rsrc
        /\ t.nodes = s.nodes /\ t.folders = s.folders + a /\ t.emptyFolders = s.emptyFolders + b
    <3>1. CASE CountFolder
      <4>1. a = 1 /\ b = IF Valence[Record.id] = 0 THEN 1 ELSE 0
        BY <1>1, <3>1 DEF CountFolder, Folders, EmptyFolders
      <4> DEFINE new == IF Valence[Record.id] = 0 THEN 1 ELSE 0
      <4>2. new \in Nat
        OBVIOUS
      <4>3. t = [tallied EXCEPT !.folders = @ + 1, !.emptyFolders = @ + new]
        BY <3>1 DEF CountFolder, Tallied, s, t
      <4> HIDE DEF tallied, new
      <4>4. /\ t \in Summaries /\ t.records = tallied.records /\ t.files = tallied.files /\ t.data = tallied.data
            /\ t.rsrc = tallied.rsrc /\ t.nodes = tallied.nodes
            /\ t.folders = tallied.folders + 1 /\ t.emptyFolders = tallied.emptyFolders + new
        <5>1. tallied = [nodes |-> tallied.nodes, records |-> tallied.records, folders |-> tallied.folders,
                         emptyFolders |-> tallied.emptyFolders, files |-> tallied.files, data |-> tallied.data,
                         rsrc |-> tallied.rsrc]
          BY <2>2, SummaryIs
        <5>2. tallied.folders + 1 \in Nat /\ tallied.emptyFolders + new \in Nat
          BY <2>2, <2>3, <4>2
        <5>3. t = [nodes |-> tallied.nodes, records |-> tallied.records, folders |-> tallied.folders + 1,
                   emptyFolders |-> tallied.emptyFolders + new, files |-> tallied.files, data |-> tallied.data,
                   rsrc |-> tallied.rsrc]
          BY <4>3, <5>1
        <5> QED
          BY <2>2, <5>2, <5>3 DEF Summaries
      <4> QED
        BY <2>2, <4>1, <4>4 DEF new
    <3>2. CASE CountOther
      <4>1. a = 0 /\ b = 0
        BY <1>1, <3>2 DEF CountOther, Folders, EmptyFolders
      <4>2. t = tallied
        BY <3>2 DEF CountOther, Tallied, s, t
      <4> HIDE DEF tallied
      <4> QED
        BY <2>2, <2>3, <4>1, <4>2
    <3> QED
      BY <1>4, <3>1, <3>2
  <2>5. SummaryOf(t, S \cup {q})
    BY <1>1, <2>1, <2>4, OtherAdded
  <2> QED
    BY <2>4, <2>5 DEF q, s, t
<1> QED
  BY <1>3, <1>4

\* A record of the catalog is counted.
LEMMA RecordKeeps ==
  ASSUME Asked, Counting, leaf # 0, UNCHANGED catalog, CountFile \/ CountFolder \/ CountOther
  PROVE  Counting'
<1> DEFINE q == <<leaf, rec>>
           S == Passed
<1>1. /\ leaf \in 1..LeafCount /\ rec \in 0..Len(catalog.leaves[leaf]) + 1
      /\ summary.nodes = IF rec = 0 THEN leaf - 1 ELSE leaf
      /\ SummaryOf(summary, S) /\ RankingOf(largestFiles, S)
  BY DEF Counting
<1>2. AtRecord /\ leaf' = leaf /\ rec' = rec + 1
  BY DEF CountFile, CountFolder, CountOther
<1>3. /\ rec # 0 /\ rec + 1 \in 0..Len(catalog.leaves[leaf]) + 1 /\ q \in Places /\ q \notin S /\ At(q) = Record
      /\ IsFiniteSet(S) /\ leaf \in Nat /\ rec \in Nat
  BY <1>1, <1>2, ReadIs DEF Asked
<1>4. Passed' = S \cup {q}
  BY <1>1, <1>2, PassedNext DEF Asked
<1>5. LeafCount' = LeafCount
  BY SameSummary
<1>6. summary'.nodes = summary.nodes /\ SummaryOf(summary', S \cup {q})
  <2> HIDE DEF S
  <2> QED
    BY <1>1, <1>2, <1>3, SummaryAdds
<1>7. RankingOf(largestFiles', S \cup {q})
  <2>1. CASE CountFile /\ Kind(FileAt(q)) = "counted"
    <3>1. q \in Counted
      BY <1>3, <2>1 DEF CountFile, Counted, OfKind, Files
    <3>2. FileInfo[Record.id] = FileAt(q) /\ Record.id = At(q).id
      BY <1>3 DEF FileAt
    <3>3. largestFiles' \in Ranked(RankOf(q))
      BY <2>1, <3>2 DEF CountFile, RankOf
    <3>4. \A r \in Counted : RankOf(r) \in Ranks
      BY FilesKnown
    <3> HIDE DEF S, q
    <3> QED
      BY <1>1, <3>1, <3>3, <3>4, RankAdded
  <2>2. CASE ~(CountFile /\ Kind(FileAt(q)) = "counted")
    <3>1. largestFiles' = largestFiles /\ q \notin Counted
      <4>1. FileInfo[Record.id] = FileAt(q)
        BY <1>3 DEF FileAt
      <4>2. CASE CountFile
        BY <2>2, <4>1, <4>2 DEF CountFile, Counted, OfKind
      <4>3. CASE CountFolder \/ CountOther
        BY <1>3, <4>3 DEF CountFolder, CountOther, Counted, OfKind, Files
      <4> QED
        BY <4>2, <4>3
    <3> HIDE DEF S, q
    <3> QED
      BY <1>1, <3>1, NotRanked
  <2> QED
    BY <2>1, <2>2
<1>8. SummaryOf(summary, Passed)' /\ RankingOf(largestFiles, Passed)'
  BY <1>4, <1>6, <1>7, SameSummary
<1>9. leaf' \in 1..LeafCount' /\ rec' \in 0..Len(catalog'.leaves[leaf']) + 1
  BY <1>1, <1>2, <1>3, <1>5
<1>10. rec' # 0 /\ summary'.nodes = leaf'
  BY <1>1, <1>2, <1>3, <1>6
<1> QED
  BY <1>2, <1>8, <1>9, <1>10 DEF Counting

\* Nothing is passed where a summary begins.
LEMMA BeginKeeps ==
  ASSUME Asked, UNCHANGED catalog, BeginSummary
  PROVE  Counting'
<1> DEFINE none == [n \in 1..RankCount |-> NoRank]
<1>1. leaf' = 1 /\ rec' = 0 /\ summary' = NoSummary /\ largestFiles' = none
  BY DEF BeginSummary
<1>2. Passed' = {}
  <2>1. Passed' = {p \in Places : Less(p, <<leaf', rec'>>)}
    BY SameSummary DEF Passed, Less
  <2>2. ASSUME NEW p \in Places PROVE ~Less(p, <<1, 0>>)
    <3>1. p[1] \in Nat /\ p[2] \in Nat /\ p[1] \in 1..Len(catalog.leaves)
      BY PlacesAre DEF Asked
    <3> QED
      BY <3>1, PlacesAre DEF Less, Asked
  <2> QED
    BY <1>1, <2>1, <2>2
<1>3. Cardinality({}) = 0 /\ IsFiniteSet({})
  BY FS_EmptySet
<1>4. NoForks \in ForkTotals /\ NoForks.count = 0 /\ NoForks.fragmented = 0 /\ NoForks.space = 0
  BY DEF NoForks, ForkTotals
<1>5. ASSUME NEW which PROVE ForksOf(NoForks, which, {})
  <2>1. ForksIn(which, {}) = {}
    BY DEF ForksIn
  <2>2. InPieces(which, {}) = {} /\ Bytes(which, {}) = {}
    BY <2>1 DEF InPieces, Bytes
  <2> QED
    BY <1>3, <1>4, <2>1, <2>2 DEF ForksOf
<1>6. SummaryOf(NoSummary, {})
  <2>1. \A X : X \cap {} = {}
    OBVIOUS
  <2> DEFINE zeros == [kind \in Kinds |-> 0]
             forks == NoForks
  <2>2. zeros \in [Kinds -> Nat] /\ \A kind \in Kinds : zeros[kind] = 0
    OBVIOUS
  <2>3. NoSummary = [nodes |-> 0, records |-> 0, folders |-> 0, emptyFolders |-> 0,
                     files |-> zeros, data |-> forks, rsrc |-> forks]
    BY DEF NoSummary
  <2> HIDE DEF zeros, forks
  <2>4. NoSummary \in Summaries
    BY <1>4, <2>2, <2>3 DEF Summaries, forks
  <2>5. /\ NoSummary.records = 0 /\ NoSummary.folders = 0 /\ NoSummary.emptyFolders = 0
        /\ NoSummary.files = zeros /\ NoSummary.data = forks /\ NoSummary.rsrc = forks
    BY <2>3
  <2> QED
    BY <1>3, <1>5, <2>1, <2>2, <2>4, <2>5 DEF SummaryOf, forks
<1>7. RankingOf(none, {})
  <2>1. NoRank \in Ranks
    BY DEF NoRank, Ranks
  <2>2. NoRank.measure = 0
    BY DEF NoRank
  <2>3. none \in [1..RankCount -> Ranks] /\ \A n \in 1..RankCount : none[n] = NoRank
    BY <2>1
  <2> HIDE DEF none
  <2> QED
    BY <2>2, <2>3 DEF RankingOf
<1>8. SummaryOf(summary, Passed)' /\ RankingOf(largestFiles, Passed)'
  BY <1>1, <1>2, <1>6, <1>7, SameSummary
<1>9. leaf' \in 1..LeafCount' /\ rec' \in 0..Len(catalog'.leaves[leaf']) + 1 /\ summary'.nodes = leaf' - 1
  <2>1. LeafCount' \in Nat \ {0} /\ Len(catalog.leaves[1]) \in Nat
    BY PlacesAre, SameSummary DEF LeafCount, Asked
  <2>2. summary'.nodes = 0
    BY <1>1 DEF NoSummary
  <2> QED
    BY <1>1, <2>1, <2>2
<1> QED
  BY <1>1, <1>8, <1>9 DEF Counting

\* The steps of main are the steps of a summary, a new one, or none of it.
LEMMA SummarySteps ==
  ASSUME [SessionNext]_allVars
  PROVE  \/ UNCHANGED summaryVars /\ (at' = "summary" => at = "summary")
         \/ BeginSummary
         \/ at = "summary" /\ at' = at /\ SummaryStep
<1>1. CASE Summarise
  BY <1>1 DEF Summarise
<1>2. CASE Summarising
  BY <1>2 DEF Summarising, mainVars
<1>3. CASE SessionNext /\ ~Summarise /\ ~Summarising
  <2>1. UNCHANGED summaryVars
    BY <1>3 DEF SessionNext, Usage, Options, OpenDevice, OpenRaw, OpenFails, Find, Drop, NoDirectory,
           YankBlocked, YankForks, BeginLookup, Looking, LookupFound, LookupMissing, Info, ShowStored, Journal,
           SummaryEnds, BeginCommand, Commanding, CommandEnds, CatalogCrashes, PrintTree,
           OutputTree, OutputHotFiles, OutputNothing, Elsewhere
  <2>2. at' = "summary" => at = "summary"
    BY <1>3 DEF SessionNext, Usage, Options, OpenDevice, OpenRaw, OpenFails, Find, Drop, NoDirectory,
           YankBlocked, YankForks, BeginLookup, Looking, LookupFound, LookupMissing, Info, ShowStored, Journal,
           SummaryEnds, BeginCommand, Commanding, CommandEnds, CatalogCrashes, PrintTree,
           OutputTree, OutputHotFiles, OutputNothing, mainVars, Exit, Crash, Proceed, Finish, AfterLookup
  <2> QED
    BY <2>1, <2>2
<1>4. CASE UNCHANGED allVars
  BY <1>4 DEF allVars, mainVars
<1> QED
  BY <1>1, <1>2, <1>3, <1>4

\* At each place of the pass, the summary is that of the records passed so far.
THEOREM CountingHolds == SessionSpec => []Counting
<1>1. SessionInit => Counting
  BY DEF SessionInit, SummaryInit, Counting
<1>2. Asked /\ Counting /\ [SessionNext]_allVars => Counting'
  <2> SUFFICES ASSUME Asked, Counting, [SessionNext]_allVars PROVE Counting'
    OBVIOUS
  <2>1. UNCHANGED catalog
    BY CatalogStays
  <2>2. CASE UNCHANGED summaryVars /\ (at' = "summary" => at = "summary")
    <3>1. UNCHANGED <<leaf, rec, summary, largestFiles>>
      BY <2>2 DEF summaryVars
    <3>2. Passed' = Passed /\ LeafCount' = LeafCount
      BY <2>1, <3>1, SameSummary DEF Passed, Less
    <3>3. leaf # 0 => SummaryOf(summary, Passed)' /\ RankingOf(largestFiles, Passed)'
      BY <2>1, <3>1, <3>2, SameSummary DEF Counting
    <3> QED
      BY <2>1, <2>2, <3>1, <3>2, <3>3 DEF Counting
  <2>3. CASE BeginSummary
    BY <2>1, <2>3, BeginKeeps
  <2>4. CASE at = "summary" /\ at' = at /\ SummaryStep
    <3>1. leaf # 0
      BY <2>4 DEF Counting
    <3> QED
      BY <2>1, <2>4, <3>1, RecordKeeps, LeafKeeps DEF SummaryStep
  <2> QED
    BY <2>2, <2>3, <2>4, SummarySteps
<1> QED
  BY <1>1, <1>2, AskedHolds, PTL DEF SessionSpec

\* The counts of all places are what the catalog has.
LEMMA CountsOfAll ==
  ASSUME NEW s, s = summary, SummaryOf(s, Places), s.nodes = Len(catalog.leaves)
  PROVE  CountsAddUp
<1>1. \A kind : OfKind(kind) \cap Places = OfKind(kind)
  BY DEF OfKind, Files
<1>2. Folders \cap Places = Folders /\ EmptyFolders \cap Places = EmptyFolders
  BY DEF Folders, EmptyFolders
<1>3. Counted \cap Places = Counted
  BY <1>1 DEF Counted
<1>4. ASSUME NEW which, ForksOf(summary[which], which, Places) PROVE ForksAddUp(which)
  <2> DEFINE fork(p) == FileAt(p)[which]
             forks == {p \in Counted : fork(p).size # 0}
  <2>1. ForksIn(which, Places) = forks
    BY <1>3 DEF ForksIn
  <2>2. InPieces(which, Places) = {p \in forks : fork(p).inRecord > 1}
    BY <2>1 DEF InPieces
  <2>3. Bytes(which, Places) = UNION {{p} \X (1..fork(p).size) : p \in forks}
    BY <2>1 DEF Bytes
  <2> QED
    BY <1>4, <2>1, <2>2, <2>3 DEF ForksOf, ForksAddUp
<1>5. ForksAddUp("data") /\ ForksAddUp("rsrc")
  BY <1>4 DEF SummaryOf
<1>6. EmptyFolders = {p \in Folders : Valence[At(p).id] = 0}
  BY DEF EmptyFolders
<1> QED
  BY <1>1, <1>2, <1>5, <1>6 DEF SummaryOf, CountsAddUp

\* The largest of all places are printed.
LEMMA LargestOfAll ==
  ASSUME Asked, RankingOf(largestFiles, Places)
  PROVE  LargestArePrinted
<1> DEFINE D == 1..RankCount
           size(p) == Size(FileAt(p))
           cnids == {largestFiles[n].cnid : n \in Printed}
<1>1. Counted \cap Places = Counted
  BY DEF Counted, OfKind, Files
<1>2. /\ largestFiles \in [D -> Ranks]
      /\ \A m, n \in D : m <= n => largestFiles[m].measure <= largestFiles[n].measure
      /\ \A n \in D : largestFiles[n] = NoRank \/ \E p \in Counted : largestFiles[n] = RankOf(p)
      /\ \A p \in Counted : (\E n \in D : largestFiles[n] = RankOf(p)) \/ RankOf(p).measure <= largestFiles[1].measure
  BY <1>1 DEF RankingOf
<1>3. \A p : RankOf(p).cnid = At(p).id /\ RankOf(p).measure = size(p)
  BY DEF RankOf
<1>4. NoRank.measure = 0 /\ NoRank.cnid = 0
  BY DEF NoRank
<1>5. RankCount \in Nat /\ 1 \in D /\ 2..RankCount \subseteq D /\ \A n \in D : n \in Nat /\ 1 <= n
  BY RankAssumption
<1>6. ASSUME NEW n \in Printed PROVE \E p \in Counted : At(p).id = largestFiles[n].cnid /\ size(p) = largestFiles[n].measure
  <2>1. n \in D /\ largestFiles[n].cnid # 0
    BY <1>5 DEF Printed
  <2>2. PICK p \in Counted : largestFiles[n] = RankOf(p)
    BY <1>2, <1>4, <2>1
  <2> QED
    BY <1>3, <2>2
<1>7. ASSUME \A p \in Counted : At(p).id # 0, NEW p \in Counted, At(p).id \notin cnids
      PROVE  Cardinality(Printed) = RankCount - 1 /\ \A n \in Printed : size(p) <= largestFiles[n].measure
  <2>1. ASSUME NEW n \in D, largestFiles[n] = RankOf(p) PROVE n = 1
    <3>1. largestFiles[n].cnid = At(p).id /\ largestFiles[n].cnid # 0
      BY <1>3, <1>7, <2>1
    <3>2. n \notin Printed
      BY <1>7, <3>1
    <3> QED
      BY <1>5, <3>1, <3>2 DEF Printed
  <2>2. RankOf(p) \in Ranks /\ RankOf(p).measure # 0
    BY FilesKnown
  <2>3. \A r \in Ranks : r.measure \in Nat
    BY DEF Ranks
  <2>4. RankOf(p).measure <= largestFiles[1].measure
    BY <1>2, <1>5, <2>1, <2>2, <2>3
  <2>5. ASSUME NEW n \in D PROVE RankOf(p).measure <= largestFiles[n].measure /\ largestFiles[n].cnid # 0
    <3>1. largestFiles[1].measure <= largestFiles[n].measure
      BY <1>2, <1>5
    <3>2. largestFiles[1].measure \in Nat /\ largestFiles[n].measure \in Nat /\ RankOf(p).measure \in Nat
      BY <1>2, <1>5, <2>2, <2>3
    <3>3. RankOf(p).measure <= largestFiles[n].measure /\ largestFiles[n].measure # 0
      BY <2>2, <2>4, <3>1, <3>2
    <3>4. PICK q \in Counted : largestFiles[n] = RankOf(q)
      BY <1>2, <1>4, <3>3
    <3> QED
      BY <1>3, <1>7, <3>3, <3>4
  <2>6. Printed = 2..RankCount
    BY <1>5, <2>5 DEF Printed
  <2>7. Cardinality(Printed) = RankCount - 1
    <3> DEFINE two == 2
    <3>1. two \in Int /\ RankCount \in Int
      BY <1>5
    <3> HIDE DEF two
    <3>2. Cardinality(two..RankCount) = IF two > RankCount THEN 0 ELSE RankCount - two + 1
      BY <3>1, FS_Interval
    <3> QED
      BY <2>6, <3>2, RankAssumption DEF two
  <2>8. \A n \in Printed : size(p) <= largestFiles[n].measure
    BY <1>3, <1>5, <2>5 DEF Printed
  <2> QED
    BY <2>7, <2>8
<1> HIDE DEF size
<1> QED
  BY <1>6, <1>7 DEF LargestArePrinted, size

\* Whatever the catalog and its leaves, when a summary is done it says what is in
\* the catalog, and the largest of its files are printed.
THEOREM SummaryExactHolds == SessionSpec => []SummaryExact
<1>1. Asked /\ Counting => SummaryExact
  <2> SUFFICES ASSUME Asked, Counting, leaf # 0, SummaryDone PROVE CountsAddUp /\ LargestArePrinted
    BY DEF SummaryExact
  <2>1. /\ leaf \in 1..LeafCount /\ rec \in 0..Len(catalog.leaves[leaf]) + 1
        /\ summary.nodes = IF rec = 0 THEN leaf - 1 ELSE leaf
        /\ SummaryOf(summary, Passed) /\ RankingOf(largestFiles, Passed)
    BY DEF Counting
  <2>2. Passed = Places /\ Len(catalog.leaves[leaf]) \in Nat
    BY <2>1, ReadIs DEF Asked
  <2>3. summary.nodes = Len(catalog.leaves)
    BY <2>1, <2>2 DEF SummaryDone, LeafDone
  <2> QED
    BY <2>1, <2>2, <2>3, CountsOfAll, LargestOfAll
<1> QED
  BY <1>1, AskedHolds, CountingHolds, PTL
=============================================================================
