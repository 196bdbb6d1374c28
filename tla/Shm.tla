--------------------------------- MODULE Shm ---------------------------------
(***************************************************************************)
(* A session over a shared memory file: evering-ipc's main.rs, shm.rs and  *)
(* shm/boxed.rs, and the set-up of ipc-benchmark's evering.rs.             *)
(*                                                                         *)
(* A process of either kind is started to create the file or to open it.   *)
(* Who creates it gives it its size and writes the header: the ring        *)
(* offsets, the count of the two ends and the allocator.  Whoever opens it *)
(* does so by its name, at any time, or has it from its parent process.    *)
(* One client takes the allocator.  It leaves after its exit request is    *)
(* answered, the server after answering it, and the end that leaves last   *)
(* removes the name.  Any process may crash, and be started again.         *)
(*                                                                         *)
(* What a process does with the rings is the subject of Uring and Runtime. *)
(***************************************************************************)
EXTENDS Naturals, FiniteSets

CONSTANTS Server, Clients,
          Heirs,       \* those of them that are given a descriptor instead of a name
          MaxFiles     \* bound on the files ever created under the name

ASSUME ProcsAssumption == Server \notin Clients /\ IsFiniteSet(Clients)
ASSUME HeirsAssumption == Heirs \subseteq Clients \cup {Server}
ASSUME FilesAssumption == MaxFiles \in Nat

Procs == Clients \cup {Server}
Files == 1 .. MaxFiles
NoFile == 0

VARIABLES
  name,        \* the file that the name refers to
  created,     \* how many files there have been
  sized,       \* the files that ftruncate has given their size
  written,     \* the files whose header is written
  rc, taken,   \* Header::rc and allocator_taken
  exit,        \* the exit request of each file: "none", "sent" or "answered"
  pc, fd,      \* where a process is, and the file it has open
  takers,      \* history: who got the allocator of each file
  joined,      \* history: the files a server has started on
  rejoined,    \* history: those that a server has started on again
  blind,       \* history: files that someone used before the header was written
  crashed      \* history: files that lost a process that had started on them

files == <<name, created, sized, written>>
shared == <<rc, taken, exit>>
history == <<takers, joined, rejoined, blind, crashed>>
vars == <<files, shared, pc, fd, history>>

Attached(f) == {p \in Procs : fd[p] = f /\ pc[p] \in {"running", "leaving"}}

Init ==
  /\ name = NoFile /\ created = 0 /\ sized = {} /\ written = {}
  /\ rc = [f \in Files |-> 0] /\ taken = [f \in Files |-> FALSE]
  /\ exit = [f \in Files |-> "none"]
  /\ pc = [p \in Procs |-> "start"] /\ fd = [p \in Procs |-> NoFile]
  /\ takers = [f \in Files |-> {}] /\ joined = {} /\ rejoined = {}
  /\ blind = {} /\ crashed = {}

Goto(p, from, to) == pc[p] = from /\ pc' = [pc EXCEPT ![p] = to]

-----------------------------------------------------------------------------
(* From the start of main to the rings: --create. *)

AnyName == TRUE                  \* mutant: the name is removed first, whatever it refers to
NameFree == name = NoFile

\* shm_open with O_CREAT and O_EXCL
Create(p) ==
  /\ p \notin Heirs /\ NameFree /\ created < MaxFiles
  /\ Goto(p, "start", "created")
  /\ created' = created + 1 /\ name' = created' /\ fd' = [fd EXCEPT ![p] = created']
  /\ UNCHANGED <<sized, written, shared, history>>

CreateFails(p) ==
  /\ (p \in Heirs \/ ~NameFree) /\ Goto(p, "start", "failed")
  /\ UNCHANGED <<files, shared, fd, history>>

\* ftruncate: the file has its size, and reads as zeros.
Grow(p) ==
  /\ Goto(p, "created", "grown") /\ sized' = sized \cup {fd[p]}
  /\ UNCHANGED <<name, created, written, shared, fd, history>>

\* mmap, and the header.
WriteHeader(p) ==
  LET f == fd[p]
  IN  /\ Goto(p, "grown", "mapped") /\ written' = written \cup {f}
      /\ rc' = [rc EXCEPT ![f] = 2] /\ taken' = [taken EXCEPT ![f] = FALSE]
      /\ UNCHANGED <<name, created, sized, exit, fd, history>>

-----------------------------------------------------------------------------
(* The same without --create. *)

\* shm_open of a name that may not be there
Open(p) ==
  /\ p \notin Heirs
  /\ IF name = NoFile THEN Goto(p, "start", "failed") /\ UNCHANGED fd
                      ELSE Goto(p, "start", "opened") /\ fd' = [fd EXCEPT ![p] = name]
  /\ UNCHANGED <<files, shared, history>>

\* Shmfile::Fd: the parent has the file open, whatever has become of its name.
Inherit(p, f) ==
  /\ p \in Heirs /\ f <= created /\ Goto(p, "start", "opened") /\ fd' = [fd EXCEPT ![p] = f]
  /\ UNCHANGED <<files, shared, history>>

\* The assertion on fstat's size is all that open checks before mmap.
Map(p) ==
  /\ Goto(p, "opened", IF fd[p] \in sized THEN "mapped" ELSE "failed")
  /\ UNCHANGED <<files, shared, fd, history>>

\* A start on a header that is still zero: from here on anything may happen, and the process
\* is not followed any further.
StartBlind(p) ==
  /\ fd[p] \notin written /\ Goto(p, "mapped", "lost")
  /\ blind' = blind \cup {fd[p]}
  /\ UNCHANGED <<files, shared, fd, takers, joined, rejoined, crashed>>

-----------------------------------------------------------------------------
(* The server. *)

\* init_server, and from_raw, which takes no part in the count: a server that is started
\* again on the file is not noticed.
Serve ==
  LET f == fd[Server]
  IN  /\ f \in written /\ Goto(Server, "mapped", "running")
      /\ joined' = joined \cup {f} /\ rejoined' = rejoined \cup ({f} \cap joined)
      /\ UNCHANGED <<files, shared, fd, takers, blind, crashed>>

\* It takes the exit request and answers it.
AnswerExit ==
  /\ Goto(Server, "running", "leaving") /\ exit[fd[Server]] = "sent"
  /\ exit' = [exit EXCEPT ![fd[Server]] = "answered"]
  /\ UNCHANGED <<files, rc, taken, fd, history>>

-----------------------------------------------------------------------------
(* A client. *)

NotSet(f) == taken               \* mutant: load instead of swap
SetTaken(f) == [taken EXCEPT ![f] = TRUE]

\* init_client takes the allocator, or panics; then from_raw.
Start(c) ==
  LET f == fd[c]
  IN  /\ f \in written
      /\ Goto(c, "mapped", IF taken[f] THEN "failed" ELSE "running")
      /\ taken' = SetTaken(f)
      /\ takers' = IF taken[f] THEN takers ELSE [takers EXCEPT ![f] = @ \cup {c}]
      /\ UNCHANGED <<files, rc, exit, fd, joined, rejoined, blind, crashed>>

\* All its tasks are done: op::exit.
SendExit(c) ==
  /\ pc[c] = "running" /\ exit[fd[c]] = "none" /\ exit' = [exit EXCEPT ![fd[c]] = "sent"]
  /\ UNCHANGED <<files, rc, taken, pc, fd, history>>

Leave(c) ==
  /\ Goto(c, "running", "leaving") /\ exit[fd[c]] = "answered"
  /\ UNCHANGED <<files, shared, fd, history>>

-----------------------------------------------------------------------------
(* Either. *)

IsLastOff(n) == n = 0            \* mutant: compared with the new value
IsFirst(n) == n = 2              \* mutant: compared with the initial value
IsLast(n) == n = 1

\* dispose_raw().is_ok()
Dispose(p) ==
  LET f == fd[p]
  IN  /\ Goto(p, "leaving", IF IsLast(rc[f]) THEN "last" ELSE "ended")
      /\ rc' = [rc EXCEPT ![f] = @ - 1]
      /\ UNCHANGED <<files, taken, exit, fd, history>>

\* shm_unlink, by name; nothing for a descriptor
Unlink(p) ==
  /\ Goto(p, "last", "ended") /\ name' = IF p \in Heirs THEN name ELSE NoFile
  /\ UNCHANGED <<created, sized, written, shared, fd, history>>

Restart(p) ==
  /\ pc[p] \in {"ended", "failed", "crashed"} /\ pc' = [pc EXCEPT ![p] = "start"]
  /\ fd' = [fd EXCEPT ![p] = NoFile]
  /\ UNCHANGED <<files, shared, history>>

\* The process is killed, and never gets to dispose_raw.
Crash(p) ==
  /\ pc[p] \notin {"start", "ended", "failed", "crashed", "lost"}
  /\ pc' = [pc EXCEPT ![p] = "crashed"]
  /\ crashed' = crashed \cup {f \in {fd[p]} : pc[p] \notin {"opened", "mapped"}}
  /\ UNCHANGED <<files, shared, fd, takers, joined, rejoined, blind>>

-----------------------------------------------------------------------------
SetUp(p) == \/ Create(p) \/ CreateFails(p) \/ Grow(p) \/ WriteHeader(p)
            \/ Open(p) \/ Map(p) \/ StartBlind(p) \/ \E f \in Files : Inherit(p, f)
ServerStep == Serve \/ AnswerExit
ClientStep(c) == Start(c) \/ SendExit(c) \/ Leave(c)
EndStep(p) == Dispose(p) \/ Unlink(p)

Next == \/ ServerStep
        \/ \E c \in Clients : ClientStep(c)
        \/ \E p \in Procs : SetUp(p) \/ EndStep(p) \/ Restart(p) \/ Crash(p)

Spec == Init /\ [][Next]_vars

\* A process that has begun goes on, the client's tasks end (Runtime, ClientEnds), and
\* nobody has to start or to restart one.
FairSpec ==
  /\ Spec /\ WF_vars(ServerStep)
  /\ \A c \in Clients : WF_vars(ClientStep(c))
  /\ \A p \in Procs : /\ WF_vars(Grow(p)) /\ WF_vars(WriteHeader(p)) /\ WF_vars(Map(p))
                      /\ WF_vars(EndStep(p))

-----------------------------------------------------------------------------
(* Properties.  They hold for the files that nobody has used before the      *)
(* header was written; only the benchmark makes sure of that.                *)

TypeOK ==
  /\ name \in Files \cup {NoFile} /\ created \in 0 .. MaxFiles
  /\ sized \subseteq Files /\ written \subseteq sized
  /\ rc \in [Files -> 0 .. 2] /\ taken \in [Files -> BOOLEAN]
  /\ exit \in [Files -> {"none", "sent", "answered"}]
  /\ pc \in [Procs -> {"start", "created", "grown", "opened", "mapped", "running", "leaving",
                       "last", "ended", "failed", "crashed", "lost"}]
  /\ fd \in [Procs -> Files \cup {NoFile}]
  /\ takers \in [Files -> SUBSET Clients] /\ rejoined \subseteq joined
  /\ joined \subseteq Files /\ blind \subseteq Files /\ crashed \subseteq Files

\* "single-thread allocator": one process at most ever works with the allocator of a file,
\* and with the client's end of its rings, also when processes crash and are restarted.
OneTaker == \A f \in Files \ blind : Cardinality(takers[f]) <= 1

\* The count covers those who are attached, so it never goes below zero, and whoever sees
\* that it was the last is alone: it may drop the queues and remove the file.  Not so if a
\* server has been started on the file a second time, which nothing prevents.
LastIsAlone ==
  \A f \in Files \ (blind \cup rejoined) :
    /\ rc[f] >= Cardinality(Attached(f)) \/ f \notin written
    /\ \A p \in Procs : fd[p] = f /\ pc[p] = "last" => Attached(f) = {}

\* shm_unlink goes by name: when it is called the name still means the file that the
\* process has used, never a new one that another process has just created.  (This goes for
\* processes that have found a header; what one that has not may unlink is not modelled.)
UnlinksItsOwn == \A p \in Procs : pc[p] = "last" => name = fd[p] \/ p \in Heirs

\* The file is known by its name to those who use it.
ByName(f) == Heirs \cap (takers[f] \cup {Server}) = {}

\* If nobody crashes, a session that a server and a client have joined comes to its end,
\* and the name is free for the next one.
\* (A process that was given a descriptor leaves the name to who has given it.)
NameFreed ==
  \A f \in Files : takers[f] # {} /\ f \in joined /\ ByName(f)
                      ~> name # f \/ f \in crashed \cup blind
=============================================================================
