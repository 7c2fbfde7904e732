--------------------------- MODULE DirectoryWalk ----------------------------
(***************************************************************************)
(* FileEnumAlgorithm.cpp: a thread of its own counts the files of a        *)
(* directory and of those below it down to a depth, by a function that     *)
(* calls itself with two path buffers of 64 KB each on the stack: a stack  *)
(* of 1 MB has room for seven of these calls.                              *)
(***************************************************************************)
EXTENDS GatedProcess, Sequences

CONSTANTS
  Directory,    \* the directory that is given to the program, and those below
  Target,       \* the one that is given: szTargetDirectory
  Contents,     \* what FindFirstFileW and FindNextFileW list of each
  Level,        \* how deep each is
  Depths,       \* the second argument of the program may be one of these
  StackFrames   \* how many calls the stack has room for: seven

File == [kind |-> "file"]
Link == [kind |-> "link"]   \* a directory that is a reparse point
Subdirectory(d) == [kind |-> "directory", directory |-> d]

\* An entry is named by its directory and its index.
EntryId == UNION {{<<d, k>> : k \in 1..Len(Contents[d])} : d \in Directory}
EntryAt(e) == Contents[e[1]][e[2]]

\* The directories are a tree: but for its links, a file system has each of
\* them in one place.
IsTree ==
  /\ Target \in Directory
  /\ Contents \in [Directory -> Seq({File, Link} \cup {Subdirectory(d) : d \in Directory})]
  /\ Level \in [Directory -> Nat] /\ Level[Target] = 0
  /\ \A d \in Directory \ {Target} : \E e \in EntryId : EntryAt(e) = Subdirectory(d)
  /\ \A e \in EntryId, d \in Directory :
       EntryAt(e) = Subdirectory(d) => Level[d] = Level[e[1]] + 1
  /\ \A e1, e2 \in EntryId :
       EntryAt(e1).kind = "directory" /\ EntryAt(e1) = EntryAt(e2) => e1 = e2
  /\ Depths \subseteq Nat /\ StackFrames \in Nat \ {0}

\* The files down to a depth.
FilesDownTo(depth) == {e \in EntryId : EntryAt(e) = File /\ Level[e[1]] <= depth}

\* dwMaxDepth; the calls of FilesEnumStartForDirectory, each with its directory
\* and the next entry of it; g_FileCntr; and who has freed the parameters.
WalkMemory(depth) ==
  [maxDepth |-> depth, stack |-> <<>>, counted |-> 0, freed |-> {}]

Frame(directory) == [directory |-> directory, next |-> 1]
Top == mem.stack[Len(mem.stack)]
Current == Contents[Top.directory][Top.next]
Popped == SubSeq(mem.stack, 1, Len(mem.stack) - 1)
Passed == Append(Popped, [Top EXCEPT !.next = @ + 1])

\* The call for a directory ends at once if that cannot be opened; without room
\* on the stack it ends the process.
EnterDirectory(w, from, stack, directory) ==
  \/ /\ Len(stack) < StackFrames
     /\ Store(w, from, [mem EXCEPT !.stack = Append(stack, Frame(directory))], "walk")
  \/ Len(stack) = StackFrames /\ EndProcess(w, from, "failed")
  \/ /\ Go(w, from, "walk") /\ Fault("call") /\ mem' = [mem EXCEPT !.stack = stack]
     /\ UNCHANGED <<suspends, signaled, open, exit>>

\* FindNextFileW fails, and the call ends with the entries that it has; or the
\* path of an entry is too long, and that is left out.  The caller hears of
\* neither.
HasEntry == Top.next <= Len(Contents[Top.directory])
ListingFails(w) ==
  /\ mem.stack # <<>> /\ Go(w, "walk", "walk") /\ Fault("call")
  /\ \/ mem' = [mem EXCEPT !.stack = Popped]
     \/ HasEntry /\ mem' = [mem EXCEPT !.stack = Passed]
  /\ UNCHANGED <<suspends, signaled, open, exit>>

MayDescend(depth) == depth < mem.maxDepth

\* One entry, and the end of a directory; a link to a directory is not followed.
FilesEnumStartForDirectory(w) ==
  LET more == mem.stack # <<>> /\ HasEntry
      descends == Current.kind = "directory" /\ MayDescend(Len(mem.stack) - 1)
  IN  \/ /\ more /\ Current.kind = "file"
         /\ Store(w, "walk", [mem EXCEPT !.counted = @ + 1, !.stack = Passed], "walk")
      \/ /\ more /\ Current.kind # "file" /\ ~descends
         /\ Store(w, "walk", [mem EXCEPT !.stack = Passed], "walk")
      \/ more /\ descends /\ EnterDirectory(w, "walk", Passed, Current.directory)
      \/ /\ mem.stack # <<>> /\ ~more
         /\ Store(w, "walk", [mem EXCEPT !.stack = Popped], "walk")
      \/ ListingFails(w)

FileEnumThreadFunc(w) ==
  \/ EnterDirectory(w, "begin", <<>>, Target)
  \/ FilesEnumStartForDirectory(w)
  \/ mem.stack = <<>> /\ Store(w, "walk", [mem EXCEPT !.freed = @ \cup {w}], "done")

\* Before the thread has been created, the parameters are freed by main.
WalkMain ==
  \/ Call(Main, "alloc", "create")
  \/ CreateThread("create", "A", 0, "join")
  \/ /\ Go(Main, "create", "error") /\ Fault("call")
     /\ mem' = [mem EXCEPT !.freed = @ \cup {Main}]
     /\ UNCHANGED <<suspends, signaled, open, exit>>
  \/ EndProcess(Main, "error", "failed")
  \/ Await(Main, "join", {"A"}, "verdict")
  \/ Return("verdict", TRUE)
  \/ CheckFails(Main, {"alloc"})

Walk(t) ==
  \/ t = Main /\ WalkMain
  \/ t = "A" /\ FileEnumThreadFunc(t)
=============================================================================
