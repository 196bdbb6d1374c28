------------------------------ MODULE ShmProofs ------------------------------
(***************************************************************************)
(* The session keeps its promises for any number of clients, of heirs      *)
(* among them and of files, whoever crashes and is started again.          *)
(*                                                                         *)
(* The count in the header is a number of ends, and not of processes: each *)
(* end may be left once in the life of a file, the server's because the    *)
(* exit request is answered once, the client's because the allocator is    *)
(* taken once.  CountCovers says that the count covers the ends that may   *)
(* still be left; the other parts say when that is.                        *)
(***************************************************************************)
EXTENDS Shm, TLAPS, FiniteSetTheorems

\* A process knows only files that have been created, and so does the name.
FilesKnown ==
  /\ name <= created /\ \A f \in written : f <= created
  /\ \A p \in Procs : pc[p] \notin {"start", "ended", "failed", "crashed"} => fd[p] \in 1 .. created

\* Who creates a file is alone in doing so, and is the one who writes the header.
CreatorAlone ==
  /\ \A p \in Procs : pc[p] \in {"created", "grown"} => fd[p] \notin written
  /\ \A p, q \in Procs :
       pc[p] \in {"created", "grown"} /\ pc[q] \in {"created", "grown"} /\ fd[p] = fd[q] => p = q
  /\ \A p \in Procs : pc[p] = "grown" => fd[p] \in sized

\* Who is attached has found a header, and a client has taken the allocator.
StartedRight ==
  /\ \A p \in Procs : pc[p] \in {"running", "leaving", "last"} => fd[p] \in written
  /\ \A c \in Clients : pc[c] \in {"running", "leaving"} => c \in takers[fd[c]]

TakenOnce ==
  \A f \in Files : /\ f \notin written => takers[f] = {}
                   /\ f \in written => (taken[f] <=> takers[f] # {})
                   /\ \A c, d \in takers[f] : c = d

\* A server that serves a file for the first time has the exit request before it.
FirstServer ==
  /\ \A f \in Files \ joined : exit[f] # "answered"
  /\ pc[Server] = "running" => /\ fd[Server] \in joined
                               /\ exit[fd[Server]] = "answered" => fd[Server] \in rejoined
  /\ pc[Server] = "leaving" => exit[fd[Server]] = "answered"

\* The ends of a file that may still be left.
ServerMayEnd(f) == exit[f] # "answered" \/ (fd[Server] = f /\ pc[Server] = "leaving")
ClientMayEnd(f) ==
  takers[f] = {} \/ \E c \in takers[f] : fd[c] = f /\ pc[c] \in {"running", "leaving"}

CountCovers ==
  \A f \in written : /\ ServerMayEnd(f) /\ ClientMayEnd(f) => rc[f] = 2
                     /\ ServerMayEnd(f) \/ ClientMayEnd(f) => rc[f] >= 1

LastOne ==
  /\ \A p \in Procs : pc[p] = "last" => rc[fd[p]] = 0
  /\ \A p, q \in Procs : pc[p] = "last" /\ pc[q] = "last" /\ fd[p] = fd[q] => p = q

\* The name stays with a file until the last end has left, and that end finds it there.
NameStays ==
  /\ \A f \in 1 .. created : f \notin written \/ rc[f] > 0 => name = f
  /\ \A p \in Procs \ Heirs : pc[p] = "last" => name = fd[p]

IInv == /\ TypeOK /\ FilesKnown /\ CreatorAlone /\ StartedRight /\ TakenOnce
        /\ FirstServer /\ CountCovers /\ LastOne /\ NameStays

USE DEF Procs, Files, NoFile

-----------------------------------------------------------------------------
\* An end that is about to be left
\* is one of those that may be.
LEMMA EndsCounted ==
  ASSUME IInv, NEW p \in Procs, pc[p] = "leaving"
  PROVE  rc[fd[p]] >= 1
<1>1. fd[p] \in written
  BY DEF IInv, StartedRight
<1>2. ServerMayEnd(fd[p]) \/ ClientMayEnd(fd[p])
  BY DEF IInv, StartedRight, ServerMayEnd, ClientMayEnd
<1> QED  BY <1>1, <1>2 DEF IInv, CountCovers

LEMMA CreateStep ==
  ASSUME IInv, NEW p \in Procs, Create(p)
  PROVE  IInv'
<1>1. TypeOK'
  BY FilesAssumption DEF IInv, TypeOK, FilesKnown, Create, Goto, shared, history
<1>2. FilesKnown'
  BY DEF IInv, TypeOK, FilesKnown, Create, Goto
<1>3. CreatorAlone'
  <2>1. /\ fd' = [fd EXCEPT ![p] = created + 1] /\ pc' = [pc EXCEPT ![p] = "created"]
        /\ UNCHANGED <<sized, written>>
    BY DEF Create, Goto, files
  <2>2. created + 1 \notin written /\ created \in Nat
    BY FilesAssumption DEF IInv, TypeOK, FilesKnown
  <2>3. \A q \in Procs : pc[q] \in {"created", "grown"} => fd[q] # created + 1
    BY <2>2 DEF IInv, FilesKnown
  <2>4. \A q \in Procs : fd'[q] = IF q = p THEN created + 1 ELSE fd[q]
    BY <2>1 DEF IInv, TypeOK
  <2>5. \A q \in Procs : pc'[q] = IF q = p THEN "created" ELSE pc[q]
    BY <2>1 DEF IInv, TypeOK
  <2> QED  BY <2>1, <2>2, <2>3, <2>4, <2>5 DEF IInv, CreatorAlone
<1>4. StartedRight'
  BY DEF IInv, TypeOK, StartedRight, Create, Goto, history
<1>5. TakenOnce'
  BY DEF IInv, TypeOK, TakenOnce, Create, shared, history
<1>6. FirstServer'
  BY DEF IInv, TypeOK, FirstServer, Create, Goto, shared, history
<1>7. CountCovers'
  BY DEF IInv, TypeOK, CountCovers, ServerMayEnd, ClientMayEnd, Create, Goto, shared, history
<1>8. LastOne'
  BY DEF IInv, TypeOK, LastOne, Create, Goto, shared
<1>9. NameStays'
  BY DEF IInv, TypeOK, NameStays, FilesKnown, Create, NameFree, Goto, shared
<1> QED  BY <1>1, <1>2, <1>3, <1>4, <1>5, <1>6, <1>7, <1>8, <1>9 DEF IInv

LEMMA CreateFailsStep ==
  ASSUME IInv, NEW p \in Procs, CreateFails(p)
  PROVE  IInv'
<1>1. TypeOK'
  BY DEF IInv, TypeOK, CreateFails, Goto, files, shared, history
<1>2. FilesKnown'
  BY DEF IInv, TypeOK, FilesKnown, CreateFails, Goto, files
<1>3. CreatorAlone'
  BY DEF IInv, TypeOK, CreatorAlone, CreateFails, Goto, files
<1>4. StartedRight'
  BY DEF IInv, TypeOK, StartedRight, CreateFails, Goto, files, history
<1>5. TakenOnce'
  BY DEF IInv, TypeOK, TakenOnce, CreateFails, files, shared, history
<1>6. FirstServer'
  BY DEF IInv, TypeOK, FirstServer, CreateFails, Goto, shared, history
<1>7. CountCovers'
  BY DEF IInv, TypeOK, CountCovers, ServerMayEnd, ClientMayEnd, CreateFails, Goto, files,
         shared, history
<1>8. LastOne'
  BY DEF IInv, TypeOK, LastOne, CreateFails, Goto, shared
<1>9. NameStays'
  BY DEF IInv, TypeOK, NameStays, CreateFails, Goto, files, shared
<1> QED  BY <1>1, <1>2, <1>3, <1>4, <1>5, <1>6, <1>7, <1>8, <1>9 DEF IInv

LEMMA GrowStep ==
  ASSUME IInv, NEW p \in Procs, Grow(p)
  PROVE  IInv'
<1>1. TypeOK'
  <2>1. fd[p] \in Files
    BY FilesAssumption DEF IInv, TypeOK, FilesKnown, Grow, Goto
  <2>2. pc' \in [Procs -> {"start", "created", "grown", "opened", "mapped", "running", "leaving",
                          "last", "ended", "failed", "crashed", "lost"}]
    BY DEF IInv, TypeOK, Grow, Goto
  <2> QED  BY <2>1, <2>2 DEF IInv, TypeOK, Grow, files, shared, history
<1>2. FilesKnown'
  BY DEF IInv, TypeOK, FilesKnown, Grow, Goto
<1>3. CreatorAlone'
  BY DEF IInv, TypeOK, CreatorAlone, Grow, Goto
<1>4. StartedRight'
  BY DEF IInv, TypeOK, StartedRight, Grow, Goto, history
<1>5. TakenOnce'
  BY DEF IInv, TypeOK, TakenOnce, Grow, shared, history
<1>6. FirstServer'
  BY DEF IInv, TypeOK, FirstServer, Grow, Goto, shared, history
<1>7. CountCovers'
  BY DEF IInv, TypeOK, CountCovers, ServerMayEnd, ClientMayEnd, Grow, Goto, shared, history
<1>8. LastOne'
  BY DEF IInv, TypeOK, LastOne, Grow, Goto, shared
<1>9. NameStays'
  BY DEF IInv, TypeOK, NameStays, Grow, Goto, shared
<1> QED  BY <1>1, <1>2, <1>3, <1>4, <1>5, <1>6, <1>7, <1>8, <1>9 DEF IInv

LEMMA WriteHeaderStep ==
  ASSUME IInv, NEW p \in Procs, WriteHeader(p)
  PROVE  IInv'
<1>1. TypeOK'
  <2>1. fd[p] \in Files /\ fd[p] \in sized
    BY FilesAssumption DEF IInv, TypeOK, FilesKnown, CreatorAlone, WriteHeader, Goto
  <2>2. pc' \in [Procs -> {"start", "created", "grown", "opened", "mapped", "running", "leaving",
                          "last", "ended", "failed", "crashed", "lost"}]
    BY DEF IInv, TypeOK, WriteHeader, Goto
  <2>3. rc' \in [Files -> 0 .. 2] /\ taken' \in [Files -> BOOLEAN]
    BY <2>1 DEF IInv, TypeOK, WriteHeader
  <2> QED  BY <2>1, <2>2, <2>3 DEF IInv, TypeOK, WriteHeader, history
<1>2. FilesKnown'
  <2>1. fd[p] \in 1 .. created
    BY DEF IInv, FilesKnown, WriteHeader, Goto
  <2>2. \A q \in Procs : q # p => pc'[q] = pc[q]
    BY DEF IInv, TypeOK, WriteHeader, Goto
  <2> QED  BY <2>1, <2>2 DEF IInv, TypeOK, FilesKnown, WriteHeader, history
<1>3. CreatorAlone'
  BY DEF IInv, TypeOK, CreatorAlone, WriteHeader, Goto
<1>4. StartedRight'
  BY DEF IInv, TypeOK, StartedRight, WriteHeader, Goto, history
<1>5. TakenOnce'
  <2> DEFINE f == fd[p]
  <2>1. f \in Files /\ f \notin written /\ written' = written \cup {f} /\ takers' = takers
    BY FilesAssumption DEF IInv, TypeOK, FilesKnown, CreatorAlone, WriteHeader, Goto, history
  <2>2. taken' = [taken EXCEPT ![f] = FALSE] /\ taken \in [Files -> BOOLEAN]
    BY DEF IInv, TypeOK, WriteHeader
  <2>3. takers[f] = {} /\ ~taken'[f] /\ \A g \in Files : g # f => taken'[g] = taken[g]
    BY <2>1, <2>2 DEF IInv, TakenOnce
  <2> QED  BY <2>1, <2>3 DEF IInv, TakenOnce
<1>6. FirstServer'
  BY DEF IInv, TypeOK, FirstServer, WriteHeader, Goto, history
<1>7. CountCovers'
  BY DEF IInv, TypeOK, CountCovers, FilesKnown, ServerMayEnd, ClientMayEnd, WriteHeader, Goto,
         history
<1>8. LastOne'
  BY ProcsAssumption, FilesAssumption DEF IInv, TypeOK, LastOne, FilesKnown, StartedRight,
         CreatorAlone, WriteHeader, Goto
<1>9. NameStays'
  BY DEF IInv, TypeOK, NameStays, FilesKnown, CreatorAlone, WriteHeader, Goto
<1> QED  BY <1>1, <1>2, <1>3, <1>4, <1>5, <1>6, <1>7, <1>8, <1>9 DEF IInv

LEMMA OpenStep ==
  ASSUME IInv, NEW p \in Procs, Open(p)
  PROVE  IInv'
<1>1. TypeOK'
  BY DEF IInv, TypeOK, Open, Goto, files, shared, history
<1>2. FilesKnown'
  BY DEF IInv, TypeOK, FilesKnown, Open, Goto, files
<1>3. CreatorAlone'
  <2>1. UNCHANGED <<written, sized>> /\ \A q \in Procs : q # p => pc'[q] = pc[q] /\ fd'[q] = fd[q]
    BY DEF IInv, TypeOK, Open, Goto, files
  <2>2. pc'[p] \in {"failed", "opened"}
    BY DEF IInv, TypeOK, Open, Goto
  <2> QED  BY <2>1, <2>2 DEF IInv, CreatorAlone
<1>4. StartedRight'
  BY DEF IInv, TypeOK, StartedRight, Open, Goto, files, history
<1>5. TakenOnce'
  BY DEF IInv, TypeOK, TakenOnce, Open, files, shared, history
<1>6. FirstServer'
  BY DEF IInv, TypeOK, FirstServer, Open, Goto, shared, history
<1>7. CountCovers'
  <2>1. pc[p] = "start" /\ \A q \in Procs : q # p => pc'[q] = pc[q] /\ fd'[q] = fd[q]
    BY DEF IInv, TypeOK, Open, Goto
  <2>2. pc'[p] \in {"failed", "opened"}
    BY DEF IInv, TypeOK, Open, Goto
  <2>3. \A f \in Files : /\ ServerMayEnd(f)' => ServerMayEnd(f)
                         /\ ClientMayEnd(f)' => ClientMayEnd(f)
    BY <2>1, <2>2 DEF IInv, TypeOK, Open, ServerMayEnd, ClientMayEnd, shared, history
  <2> QED  BY <2>3 DEF IInv, TypeOK, CountCovers, Open, files, shared
<1>8. LastOne'
  <2>1. \A q \in Procs : q # p => pc'[q] = pc[q] /\ fd'[q] = fd[q]
    BY DEF IInv, TypeOK, Open, Goto
  <2>2. pc'[p] \in {"failed", "opened"}
    BY DEF IInv, TypeOK, Open, Goto
  <2> QED  BY <2>1, <2>2 DEF IInv, LastOne, Open, shared
<1>9. NameStays'
  BY DEF IInv, TypeOK, NameStays, Open, Goto, files, shared
<1> QED  BY <1>1, <1>2, <1>3, <1>4, <1>5, <1>6, <1>7, <1>8, <1>9 DEF IInv

LEMMA InheritStep ==
  ASSUME IInv, NEW p \in Procs, NEW f \in Files, Inherit(p, f)
  PROVE  IInv'
<1>1. TypeOK'
  BY DEF IInv, TypeOK, Inherit, Goto, files, shared, history
<1>2. FilesKnown'
  BY DEF IInv, TypeOK, FilesKnown, Inherit, Goto, files
<1>3. CreatorAlone'
  BY DEF IInv, TypeOK, CreatorAlone, Inherit, Goto, files
<1>4. StartedRight'
  BY DEF IInv, TypeOK, StartedRight, Inherit, Goto, files, history
<1>5. TakenOnce'
  BY DEF IInv, TypeOK, TakenOnce, Inherit, files, shared, history
<1>6. FirstServer'
  BY DEF IInv, TypeOK, FirstServer, Inherit, Goto, shared, history
<1>7. CountCovers'
  BY DEF IInv, TypeOK, CountCovers, ServerMayEnd, ClientMayEnd, Inherit, Goto, files, shared,
         history
<1>8. LastOne'
  BY DEF IInv, TypeOK, LastOne, Inherit, Goto, shared
<1>9. NameStays'
  BY DEF IInv, TypeOK, NameStays, Inherit, Goto, files, shared
<1> QED  BY <1>1, <1>2, <1>3, <1>4, <1>5, <1>6, <1>7, <1>8, <1>9 DEF IInv

LEMMA MapStep ==
  ASSUME IInv, NEW p \in Procs, Map(p)
  PROVE  IInv'
<1>1. TypeOK'
  BY DEF IInv, TypeOK, Map, Goto, files, shared, history
<1>2. FilesKnown'
  BY DEF IInv, TypeOK, FilesKnown, Map, Goto, files
<1>3. CreatorAlone'
  BY DEF IInv, TypeOK, CreatorAlone, Map, Goto, files
<1>4. StartedRight'
  BY DEF IInv, TypeOK, StartedRight, Map, Goto, files, history
<1>5. TakenOnce'
  BY DEF IInv, TypeOK, TakenOnce, Map, files, shared, history
<1>6. FirstServer'
  BY DEF IInv, TypeOK, FirstServer, Map, Goto, shared, history
<1>7. CountCovers'
  BY DEF IInv, TypeOK, CountCovers, ServerMayEnd, ClientMayEnd, Map, Goto, files, shared,
         history
<1>8. LastOne'
  BY DEF IInv, TypeOK, LastOne, Map, Goto, shared
<1>9. NameStays'
  BY DEF IInv, TypeOK, NameStays, Map, Goto, files, shared
<1> QED  BY <1>1, <1>2, <1>3, <1>4, <1>5, <1>6, <1>7, <1>8, <1>9 DEF IInv

LEMMA StartBlindStep ==
  ASSUME IInv, NEW p \in Procs, StartBlind(p)
  PROVE  IInv'
<1>1. TypeOK'
  <2>1. fd[p] \in Files
    <3>1. pc[p] = "mapped"
      BY DEF StartBlind, Goto
    <3> QED  BY <3>1, FilesAssumption DEF IInv, TypeOK, FilesKnown
  <2>2. pc' \in [Procs -> {"start", "created", "grown", "opened", "mapped", "running", "leaving",
                          "last", "ended", "failed", "crashed", "lost"}]
    BY DEF IInv, TypeOK, StartBlind, Goto
  <2> QED  BY <2>1, <2>2 DEF IInv, TypeOK, StartBlind, files, shared, history
<1>2. FilesKnown'
  BY DEF IInv, TypeOK, FilesKnown, StartBlind, Goto, files
<1>3. CreatorAlone'
  BY DEF IInv, TypeOK, CreatorAlone, StartBlind, Goto, files
<1>4. StartedRight'
  BY DEF IInv, TypeOK, StartedRight, StartBlind, Goto, files
<1>5. TakenOnce'
  BY DEF IInv, TypeOK, TakenOnce, StartBlind, files, shared
<1>6. FirstServer'
  BY DEF IInv, TypeOK, FirstServer, StartBlind, Goto, shared
<1>7. CountCovers'
  BY DEF IInv, TypeOK, CountCovers, ServerMayEnd, ClientMayEnd, StartBlind, Goto, files, shared
<1>8. LastOne'
  BY DEF IInv, TypeOK, LastOne, StartBlind, Goto, shared
<1>9. NameStays'
  BY DEF IInv, TypeOK, NameStays, StartBlind, Goto, files, shared
<1> QED  BY <1>1, <1>2, <1>3, <1>4, <1>5, <1>6, <1>7, <1>8, <1>9 DEF IInv

LEMMA ServeStep ==
  ASSUME IInv, Serve
  PROVE  IInv'
<1>1. TypeOK'
  <2>1. fd[Server] \in Files
    BY FilesAssumption DEF IInv, TypeOK, FilesKnown, Serve, Goto
  <2>2. pc' \in [Procs -> {"start", "created", "grown", "opened", "mapped", "running", "leaving",
                          "last", "ended", "failed", "crashed", "lost"}]
    BY DEF IInv, TypeOK, Serve, Goto
  <2> QED  BY <2>1, <2>2 DEF IInv, TypeOK, Serve, files, shared, history
<1>2. FilesKnown'
  BY DEF IInv, TypeOK, FilesKnown, Serve, Goto, files
<1>3. CreatorAlone'
  BY DEF IInv, TypeOK, CreatorAlone, Serve, Goto, files
<1>4. StartedRight'
  BY ProcsAssumption DEF IInv, TypeOK, StartedRight, Serve, Goto, files
<1>5. TakenOnce'
  BY DEF IInv, TypeOK, TakenOnce, Serve, files, shared
<1>6. FirstServer'
  BY DEF IInv, TypeOK, FirstServer, Serve, Goto, shared
<1>7. CountCovers'
  BY ProcsAssumption DEF IInv, TypeOK, CountCovers, ServerMayEnd, ClientMayEnd, Serve, Goto,
         files, shared
<1>8. LastOne'
  BY DEF IInv, TypeOK, LastOne, Serve, Goto, shared
<1>9. NameStays'
  BY DEF IInv, TypeOK, NameStays, Serve, Goto, files, shared
<1> QED  BY <1>1, <1>2, <1>3, <1>4, <1>5, <1>6, <1>7, <1>8, <1>9 DEF IInv

LEMMA AnswerExitStep ==
  ASSUME IInv, AnswerExit
  PROVE  IInv'
<1>1. TypeOK'
  BY DEF IInv, TypeOK, AnswerExit, Goto, files, history
<1>2. FilesKnown'
  BY DEF IInv, TypeOK, FilesKnown, AnswerExit, Goto, files
<1>3. CreatorAlone'
  BY DEF IInv, TypeOK, CreatorAlone, AnswerExit, Goto, files
<1>4. StartedRight'
  BY DEF IInv, TypeOK, StartedRight, AnswerExit, Goto, files, history
<1>5. TakenOnce'
  BY DEF IInv, TypeOK, TakenOnce, AnswerExit, files, history
<1>6. FirstServer'
  BY DEF IInv, TypeOK, FirstServer, AnswerExit, Goto, history
<1>7. CountCovers'
  BY DEF IInv, TypeOK, CountCovers, ServerMayEnd, ClientMayEnd, AnswerExit, Goto, files, history
<1>8. LastOne'
  BY DEF IInv, TypeOK, LastOne, AnswerExit, Goto
<1>9. NameStays'
  BY DEF IInv, TypeOK, NameStays, AnswerExit, Goto, files
<1> QED  BY <1>1, <1>2, <1>3, <1>4, <1>5, <1>6, <1>7, <1>8, <1>9 DEF IInv

LEMMA StartStep ==
  ASSUME IInv, NEW c \in Clients, Start(c)
  PROVE  IInv'
<1>1. TypeOK'
  BY DEF IInv, TypeOK, Start, SetTaken, Goto, files
<1>2. FilesKnown'
  BY DEF IInv, TypeOK, FilesKnown, Start, SetTaken, Goto, files
<1>3. CreatorAlone'
  BY DEF IInv, TypeOK, CreatorAlone, Start, SetTaken, Goto, files
<1>4. StartedRight'
  BY DEF IInv, TypeOK, StartedRight, Start, SetTaken, Goto, files
<1>5. TakenOnce'
  <2> DEFINE f == fd[c]
  <2>1. f \in Files /\ f \in written /\ written' = written
    BY DEF IInv, TypeOK, Start, files
  <2>2. taken' = [taken EXCEPT ![f] = TRUE]
    BY DEF Start, SetTaken
  <2>3. CASE taken[f]
    BY <2>1, <2>2, <2>3 DEF IInv, TypeOK, TakenOnce, Start
  <2>4. CASE ~taken[f]
    <3>1. takers' = [takers EXCEPT ![f] = @ \cup {c}]
      BY <2>4 DEF Start
    <3>2. takers[f] = {} /\ takers'[f] = {c} /\ taken'[f]
      BY <2>1, <2>2, <2>4, <3>1 DEF IInv, TypeOK, TakenOnce
    <3>3. \A g \in Files : g # f => takers'[g] = takers[g] /\ taken'[g] = taken[g]
      BY <2>2, <3>1 DEF IInv, TypeOK
    <3> QED  BY <2>1, <3>2, <3>3 DEF IInv, TakenOnce
  <2> QED  BY <2>3, <2>4
<1>6. FirstServer'
  BY ProcsAssumption DEF IInv, TypeOK, FirstServer, Start, SetTaken, Goto
<1>7. CountCovers'
  BY DEF IInv, TypeOK, CountCovers, StartedRight, TakenOnce, ServerMayEnd, ClientMayEnd, Start,
         SetTaken, Goto, files
<1>8. LastOne'
  BY DEF IInv, TypeOK, LastOne, Start, SetTaken, Goto
<1>9. NameStays'
  BY DEF IInv, TypeOK, NameStays, Start, SetTaken, Goto, files
<1> QED  BY <1>1, <1>2, <1>3, <1>4, <1>5, <1>6, <1>7, <1>8, <1>9 DEF IInv

LEMMA SendExitStep ==
  ASSUME IInv, NEW c \in Clients, SendExit(c)
  PROVE  IInv'
<1>1. TypeOK'
  BY DEF IInv, TypeOK, SendExit, files, history
<1>2. FilesKnown'
  BY DEF IInv, TypeOK, FilesKnown, SendExit, files
<1>3. CreatorAlone'
  BY DEF IInv, TypeOK, CreatorAlone, SendExit, files
<1>4. StartedRight'
  BY DEF IInv, TypeOK, StartedRight, SendExit, files, history
<1>5. TakenOnce'
  BY DEF IInv, TypeOK, TakenOnce, SendExit, files, history
<1>6. FirstServer'
  BY DEF IInv, TypeOK, FirstServer, SendExit, history
<1>7. CountCovers'
  BY DEF IInv, TypeOK, CountCovers, ServerMayEnd, ClientMayEnd, SendExit, files, history
<1>8. LastOne'
  BY DEF IInv, TypeOK, LastOne, SendExit
<1>9. NameStays'
  BY DEF IInv, TypeOK, NameStays, SendExit, files
<1> QED  BY <1>1, <1>2, <1>3, <1>4, <1>5, <1>6, <1>7, <1>8, <1>9 DEF IInv

LEMMA LeaveStep ==
  ASSUME IInv, NEW c \in Clients, Leave(c)
  PROVE  IInv'
<1>1. TypeOK'
  BY DEF IInv, TypeOK, Leave, Goto, files, shared, history
<1>2. FilesKnown'
  BY DEF IInv, TypeOK, FilesKnown, Leave, Goto, files
<1>3. CreatorAlone'
  BY DEF IInv, TypeOK, CreatorAlone, Leave, Goto, files
<1>4. StartedRight'
  BY DEF IInv, TypeOK, StartedRight, Leave, Goto, files, history
<1>5. TakenOnce'
  BY DEF IInv, TypeOK, TakenOnce, Leave, files, shared, history
<1>6. FirstServer'
  BY DEF IInv, TypeOK, FirstServer, Leave, Goto, shared, history
<1>7. CountCovers'
  BY ProcsAssumption DEF IInv, TypeOK, CountCovers, ServerMayEnd, ClientMayEnd, Leave, Goto,
         files, shared, history
<1>8. LastOne'
  BY DEF IInv, TypeOK, LastOne, Leave, Goto, shared
<1>9. NameStays'
  BY DEF IInv, TypeOK, NameStays, Leave, Goto, files, shared
<1> QED  BY <1>1, <1>2, <1>3, <1>4, <1>5, <1>6, <1>7, <1>8, <1>9 DEF IInv

LEMMA DisposeStep ==
  ASSUME IInv, NEW p \in Procs, Dispose(p)
  PROVE  IInv'
<1>1. TypeOK'
  <2>1. fd[p] \in Files /\ rc[fd[p]] - 1 \in 0 .. 2
    BY EndsCounted DEF IInv, TypeOK, StartedRight, Dispose, Goto
  <2>2. rc' \in [Files -> 0 .. 2]
    BY <2>1 DEF IInv, TypeOK, Dispose
  <2> QED  BY <2>2 DEF IInv, TypeOK, Dispose, Goto, files, history
<1>2. FilesKnown'
  BY DEF IInv, TypeOK, FilesKnown, Dispose, IsLast, Goto, files
<1>3. CreatorAlone'
  BY DEF IInv, TypeOK, CreatorAlone, Dispose, IsLast, Goto, files
<1>4. StartedRight'
  BY DEF IInv, TypeOK, StartedRight, Dispose, IsLast, Goto, files, history
<1>5. TakenOnce'
  BY DEF IInv, TypeOK, TakenOnce, Dispose, IsLast, files, history
<1>6. FirstServer'
  BY DEF IInv, TypeOK, FirstServer, Dispose, IsLast, Goto, history
<1>7. CountCovers'
  <2> DEFINE f == fd[p]
  <2>1. f \in written /\ f \in Files /\ UNCHANGED <<written, exit, takers, fd>>
    BY DEF IInv, TypeOK, StartedRight, Dispose, Goto, files, history
  <2>2. /\ pc[p] = "leaving" /\ pc'[p] \in {"last", "ended"}
        /\ \A q \in Procs : q # p => pc'[q] = pc[q]
        /\ rc'[f] = rc[f] - 1 /\ \A g \in Files : g # f => rc'[g] = rc[g]
    BY <2>1 DEF IInv, TypeOK, Dispose, Goto
  <2>3. \A g \in Files : /\ ServerMayEnd(g)' => ServerMayEnd(g)
                         /\ ClientMayEnd(g)' => ClientMayEnd(g)
    BY <2>1, <2>2 DEF IInv, TypeOK, ServerMayEnd, ClientMayEnd
  <2>4. ASSUME NEW g \in written, g # f
        PROVE  /\ ServerMayEnd(g)' /\ ClientMayEnd(g)' => rc'[g] = 2
               /\ ServerMayEnd(g)' \/ ClientMayEnd(g)' => rc'[g] >= 1
    BY <2>2, <2>3, <2>4 DEF IInv, TypeOK, CountCovers
  <2>5. CASE p = Server
    <3>1. ServerMayEnd(f) /\ ~ServerMayEnd(f)'
      BY <2>1, <2>2, <2>5 DEF IInv, FirstServer, ServerMayEnd
    <3> QED  BY <2>1, <2>2, <2>3, <2>4, <3>1 DEF IInv, TypeOK, CountCovers
  <2>6. CASE p \in Clients
    <3>1. takers[f] = {p}
      BY <2>1, <2>2, <2>6 DEF IInv, StartedRight, TakenOnce
    <3>2. ClientMayEnd(f) /\ ~ClientMayEnd(f)'
      BY <2>1, <2>2, <3>1 DEF ClientMayEnd
    <3> QED  BY <2>1, <2>2, <2>3, <2>4, <3>2 DEF IInv, TypeOK, CountCovers
  <2> QED  BY <2>5, <2>6
<1>8. LastOne'
  <2>1. fd[p] \in Files /\ rc[fd[p]] \in 1 .. 2 /\ pc[p] = "leaving" /\ fd' = fd
    BY EndsCounted DEF IInv, TypeOK, StartedRight, Dispose, Goto
  <2>2. rc' = [rc EXCEPT ![fd[p]] = rc[fd[p]] - 1] /\ \A q \in Procs : q # p => pc'[q] = pc[q]
    BY DEF IInv, TypeOK, Dispose, Goto
  <2>3. pc'[p] = IF rc[fd[p]] = 1 THEN "last" ELSE "ended"
    BY DEF IInv, TypeOK, Dispose, Goto, IsLast
  <2> QED  BY <2>1, <2>2, <2>3 DEF IInv, TypeOK, StartedRight, LastOne
<1>9. NameStays'
  <2> DEFINE f == fd[p]
  <2>1. /\ f \in written /\ f \in Files /\ f \in 1 .. created
        /\ UNCHANGED <<written, created, name, fd>>
    BY DEF IInv, TypeOK, FilesKnown, StartedRight, Dispose, Goto, files
  <2>2. /\ pc[p] = "leaving" /\ \A q \in Procs : q # p => pc'[q] = pc[q]
        /\ rc'[f] = rc[f] - 1 /\ \A g \in Files : g # f => rc'[g] = rc[g]
    BY <2>1 DEF IInv, TypeOK, Dispose, Goto
  <2>3. rc[f] \in 1 .. 2
    BY <2>1, <2>2, EndsCounted DEF IInv, TypeOK
  <2>4. \A g \in 1 .. created : g \notin written \/ rc'[g] > 0 => name = g
    <3>1. SUFFICES ASSUME NEW g \in 1 .. created, g \notin written \/ rc'[g] > 0 PROVE name = g
      OBVIOUS
    <3>2. g \in Files
      BY FilesAssumption DEF IInv, TypeOK
    <3>3. g = f \/ rc'[g] = rc[g]
      BY <2>2, <3>2
    <3> QED  BY <2>1, <2>3, <3>1, <3>3 DEF IInv, NameStays
  <2>5. name = f
    BY <2>1, <2>3 DEF IInv, NameStays
  <2> QED  BY <2>1, <2>2, <2>4, <2>5 DEF IInv, NameStays
<1> QED  BY <1>1, <1>2, <1>3, <1>4, <1>5, <1>6, <1>7, <1>8, <1>9 DEF IInv

LEMMA UnlinkStep ==
  ASSUME IInv, NEW p \in Procs, Unlink(p)
  PROVE  IInv'
<1>1. TypeOK'
  BY DEF IInv, TypeOK, Unlink, Goto, shared, history
<1>2. FilesKnown'
  BY DEF IInv, TypeOK, FilesKnown, Unlink, Goto
<1>3. CreatorAlone'
  BY DEF IInv, TypeOK, CreatorAlone, Unlink, Goto
<1>4. StartedRight'
  BY DEF IInv, TypeOK, StartedRight, Unlink, Goto, history
<1>5. TakenOnce'
  BY DEF IInv, TypeOK, TakenOnce, Unlink, shared, history
<1>6. FirstServer'
  BY DEF IInv, TypeOK, FirstServer, Unlink, Goto, shared, history
<1>7. CountCovers'
  BY DEF IInv, TypeOK, CountCovers, ServerMayEnd, ClientMayEnd, Unlink, Goto, shared, history
<1>8. LastOne'
  BY DEF IInv, TypeOK, LastOne, Unlink, Goto, shared
<1>9. NameStays'
  BY DEF IInv, TypeOK, NameStays, StartedRight, LastOne, Unlink, Goto, shared
<1> QED  BY <1>1, <1>2, <1>3, <1>4, <1>5, <1>6, <1>7, <1>8, <1>9 DEF IInv

LEMMA RestartStep ==
  ASSUME IInv, NEW p \in Procs, Restart(p)
  PROVE  IInv'
<1>1. TypeOK'
  BY DEF IInv, TypeOK, Restart, files, shared, history
<1>2. FilesKnown'
  BY DEF IInv, TypeOK, FilesKnown, Restart, files
<1>3. CreatorAlone'
  BY DEF IInv, TypeOK, CreatorAlone, Restart, files
<1>4. StartedRight'
  BY DEF IInv, TypeOK, StartedRight, Restart, files, history
<1>5. TakenOnce'
  BY DEF IInv, TypeOK, TakenOnce, Restart, files, shared, history
<1>6. FirstServer'
  BY DEF IInv, TypeOK, FirstServer, Restart, shared, history
<1>7. CountCovers'
  BY DEF IInv, TypeOK, CountCovers, ServerMayEnd, ClientMayEnd, Restart, files, shared, history
<1>8. LastOne'
  BY DEF IInv, TypeOK, LastOne, Restart, shared
<1>9. NameStays'
  BY DEF IInv, TypeOK, NameStays, Restart, files, shared
<1> QED  BY <1>1, <1>2, <1>3, <1>4, <1>5, <1>6, <1>7, <1>8, <1>9 DEF IInv

LEMMA CrashStep ==
  ASSUME IInv, NEW p \in Procs, Crash(p)
  PROVE  IInv'
<1>1. TypeOK'
  <2>1. fd[p] \in Files
    BY FilesAssumption DEF IInv, TypeOK, FilesKnown, Crash
  <2>2. pc' \in [Procs -> {"start", "created", "grown", "opened", "mapped", "running", "leaving",
                          "last", "ended", "failed", "crashed", "lost"}]
    BY DEF IInv, TypeOK, Crash, Goto
  <2> QED  BY <2>1, <2>2 DEF IInv, TypeOK, Crash, files, shared, history
<1>2. FilesKnown'
  BY DEF IInv, TypeOK, FilesKnown, Crash, files
<1>3. CreatorAlone'
  BY DEF IInv, TypeOK, CreatorAlone, Crash, files
<1>4. StartedRight'
  BY DEF IInv, TypeOK, StartedRight, Crash, files
<1>5. TakenOnce'
  BY DEF IInv, TypeOK, TakenOnce, Crash, files, shared
<1>6. FirstServer'
  BY DEF IInv, TypeOK, FirstServer, Crash, shared
<1>7. CountCovers'
  BY DEF IInv, TypeOK, CountCovers, ServerMayEnd, ClientMayEnd, Crash, files, shared
<1>8. LastOne'
  BY DEF IInv, TypeOK, LastOne, Crash, shared
<1>9. NameStays'
  BY DEF IInv, TypeOK, NameStays, Crash, files, shared
<1> QED  BY <1>1, <1>2, <1>3, <1>4, <1>5, <1>6, <1>7, <1>8, <1>9 DEF IInv

LEMMA Initially == Init => IInv
<1> SUFFICES ASSUME Init PROVE IInv
  OBVIOUS
<1>1. TypeOK
  BY FilesAssumption DEF Init, TypeOK
<1>2. FilesKnown /\ CreatorAlone /\ StartedRight /\ TakenOnce /\ FirstServer
  BY DEF Init, FilesKnown, CreatorAlone, StartedRight, TakenOnce, FirstServer
<1>3. CountCovers /\ LastOne /\ NameStays
  BY DEF Init, CountCovers, LastOne, NameStays
<1> QED  BY <1>1, <1>2, <1>3 DEF IInv

THEOREM Invariance == Spec => []IInv
<1>1. IInv /\ [Next]_vars => IInv'
  <2> SUFFICES ASSUME IInv, [Next]_vars PROVE IInv'
    OBVIOUS
  <2>1. CASE ServerStep
    BY <2>1, ServeStep, AnswerExitStep DEF ServerStep
  <2>2. ASSUME NEW c \in Clients, ClientStep(c) PROVE IInv'
    BY <2>2, StartStep, SendExitStep, LeaveStep DEF ClientStep
  <2>3. ASSUME NEW p \in Procs, SetUp(p) PROVE IInv'
    <3>1. CASE Create(p) \/ CreateFails(p) \/ Grow(p) \/ WriteHeader(p)
      BY <3>1, CreateStep, CreateFailsStep, GrowStep, WriteHeaderStep
    <3>2. CASE Open(p) \/ Map(p) \/ StartBlind(p) \/ \E f \in Files : Inherit(p, f)
      BY <3>2, OpenStep, MapStep, StartBlindStep, InheritStep
    <3> QED  BY <2>3, <3>1, <3>2 DEF SetUp
  <2>4. ASSUME NEW p \in Procs, EndStep(p) \/ Restart(p) \/ Crash(p) PROVE IInv'
    BY <2>4, DisposeStep, UnlinkStep, RestartStep, CrashStep DEF EndStep
  <2>5. CASE UNCHANGED vars
    <3>1. UNCHANGED <<name, created, sized, written, rc, taken, exit, pc, fd, takers,
                      joined, rejoined, blind, crashed>>
      BY <2>5 DEF vars, files, shared, history
    <3> QED  BY <3>1 DEF IInv, TypeOK, FilesKnown, CreatorAlone, StartedRight, TakenOnce,
                      FirstServer, CountCovers, ServerMayEnd, ClientMayEnd, LastOne, NameStays
  <2> QED  BY <2>1, <2>2, <2>3, <2>4, <2>5 DEF Next
<1> QED  BY <1>1, Initially, PTL DEF Spec

-----------------------------------------------------------------------------
\* Every variable keeps its type; the count of the ends never leaves 0 .. 2.
THEOREM TypeCorrect == Spec => []TypeOK
<1>1. IInv => TypeOK
  BY DEF IInv
<1> QED  BY <1>1, Invariance, PTL

\* One process at most ever gets the allocator of a file, also when processes crash and are
\* started again (init_client, allocator_taken).
THEOREM SingleTaker == Spec => []OneTaker
<1>1. IInv => OneTaker
  <2> SUFFICES ASSUME IInv, NEW f \in Files PROVE Cardinality(takers[f]) <= 1
    BY DEF OneTaker
  <2>1. takers[f] = {} \/ \E c \in takers[f] : takers[f] = {c}
    BY DEF IInv, TakenOnce
  <2> QED  BY <2>1, FS_EmptySet, FS_Singleton
<1> QED  BY <1>1, Invariance, PTL

\* Whoever learns from dispose_raw that it was the last is alone with the rings and the
\* allocator, and the count never falls short of those who are attached.
THEOREM LastAlone == Spec => []LastIsAlone
<1>1. IInv => LastIsAlone
  <2> SUFFICES ASSUME IInv, NEW f \in Files \ (blind \cup rejoined), f \in written
               PROVE  /\ rc[f] >= Cardinality(Attached(f))
                      /\ \A p \in Procs : fd[p] = f /\ pc[p] = "last" => Attached(f) = {}
    BY DEF LastIsAlone, IInv, StartedRight
  <2>1. Server \in Attached(f) => ServerMayEnd(f)
    BY DEF IInv, FirstServer, Attached, ServerMayEnd
  <2>2. \A c \in Clients : c \in Attached(f) => takers[f] = {c} /\ ClientMayEnd(f)
    BY DEF IInv, StartedRight, TakenOnce, Attached, ClientMayEnd
  <2>3. rc[f] \in 0 .. 2
    BY DEF IInv, TypeOK
  <2>4. CASE Attached(f) = {}
    BY <2>3, <2>4, FS_EmptySet
  <2>5. CASE Attached(f) # {}
    <3>1. PICK p \in Attached(f) : TRUE
      BY <2>5
    <3>2. rc[f] >= 1
      BY <2>1, <2>2, <3>1 DEF IInv, CountCovers, Attached
    <3>3. \A q \in Procs : fd[q] = f => pc[q] # "last"
      BY <2>3, <3>2 DEF IInv, LastOne
    <3>4. CASE Attached(f) = {p}
      BY <2>3, <3>2, <3>3, <3>4, FS_Singleton
    <3>5. CASE Attached(f) # {p}
      <4>1. PICK q \in Attached(f) : q # p
        BY <3>5
      <4>2. \A r \in Attached(f) : r = Server \/ (r \in Clients /\ takers[f] = {r})
        BY <2>2 DEF Attached
      <4>3. Attached(f) = {p, q} /\ Server \in {p, q} /\ \E c \in {p, q} : c \in Clients
        BY <3>1, <4>1, <4>2
      <4>4. rc[f] = 2
        BY <2>1, <2>2, <4>3 DEF IInv, CountCovers
      <4>5. IsFiniteSet({p}) /\ Cardinality({p}) = 1 /\ {p, q} = {p} \cup {q}
        BY FS_Singleton
      <4>6. q \notin {p}
        BY <4>1
      <4>7. Cardinality({p} \cup {q}) = Cardinality({p}) + 1
        BY <4>5, <4>6, FS_AddElement, Zenon
      <4> QED  BY <3>3, <4>3, <4>4, <4>5, <4>7
    <3> QED  BY <3>4, <3>5
  <2> QED  BY <2>4, <2>5
<1> QED  BY <1>1, Invariance, PTL

\* When the last one calls shm_unlink by name, the name still means its own file.
THEOREM UnlinkedOwn == Spec => []UnlinksItsOwn
<1>1. IInv => UnlinksItsOwn
  BY DEF IInv, NameStays, UnlinksItsOwn
<1> QED  BY <1>1, Invariance, PTL
=============================================================================
