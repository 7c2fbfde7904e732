---------------------------- MODULE ThreadLocal -----------------------------
(***************************************************************************)
(* Two programs that run one worker after the other, each with a variable  *)
(* of its own: behind a TLS index (CreateThreadWithDynamicTLS.cpp), or     *)
(* declared thread-local (CreateThreadWithStaticTLS.cpp).                  *)
(***************************************************************************)
EXTENDS GatedProcess, Integers

CONSTANT Steps   \* how often a worker adds to its value

Pair == {"A", "B"}
InitialValue == -1
Parameter == [A |-> 0, B |-> 200]

\* The variable of each thread, behind a pointer or not; what a worker first
\* finds in it, and the steps it has made; whether the TLS index is allocated.
LocalMemory ==
  [own |-> [t \in Pair \cup {Main} |-> InitialValue],
   allocated |-> [t \in Pair \cup {Main} |-> FALSE],
   found |-> [w \in Pair |-> 0], steps |-> [w \in Pair |-> 0], index |-> FALSE]

\* What a worker finds, its parameter, and some steps.
Work(w) ==
  \/ Store(w, "find", [mem EXCEPT !.found[w] = mem.own[w]], "assign")
  \/ Store(w, "assign", [mem EXCEPT !.own[w] = Parameter[w]], "work")
  \/ /\ mem.steps[w] < Steps
     /\ Store(w, "work", [mem EXCEPT !.own[w] = @ + 10, !.steps[w] = @ + 1], "work")
  \/ mem.steps[w] = Steps /\ Call(w, "work", "free")

OneAfterTheOther(last) ==
  \/ CreateThread("create", "A", 0, "join")
  \/ Await(Main, "join", {"A"}, "createB")
  \/ CreateThread("createB", "B", 0, "joinB")
  \/ Await(Main, "joinB", {"B"}, last)
  \/ CheckFails(Main, {"alloc", "create", "createB"})
-----------------------------------------------------------------------------
(* CreateThreadWithDynamicTLS.cpp *)

\* A worker that has no memory for its variable, or no slot, returns -1.
DynamicWorker(w) ==
  \/ Store(w, "begin", [mem EXCEPT !.allocated[w] = TRUE], "find")
  \/ WorkerFails(w, "begin", "call")
  \/ Work(w)
  \/ Store(w, "free", [mem EXCEPT !.allocated[w] = FALSE], "done")

DynamicMain ==
  \/ Store(Main, "alloc", [mem EXCEPT !.index = TRUE], "create")
  \/ OneAfterTheOther("close")
  \/ Store(Main, "close", [mem EXCEPT !.index = FALSE], "verdict")
  \/ Return("verdict", TRUE)

Dynamic(t) ==
  \/ t = Main /\ DynamicMain
  \/ t \in Pair /\ DynamicWorker(t)
-----------------------------------------------------------------------------
(* CreateThreadWithStaticTLS.cpp *)

StaticWorker(w) ==
  \/ Call(w, "begin", "find")
  \/ Work(w)
  \/ Call(w, "free", "done")

StaticMain ==
  \/ Call(Main, "alloc", "create")
  \/ OneAfterTheOther("verdict")
  \/ Return("verdict", TRUE)

Static(t) ==
  \/ t = Main /\ StaticMain
  \/ t \in Pair /\ StaticWorker(t)
=============================================================================
