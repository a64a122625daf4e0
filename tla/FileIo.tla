------------------------------- MODULE FileIo -------------------------------
(***************************************************************************)
(* uv_fs.cpp under co_io.cpp: coroutines that open, read, write and close  *)
(* files.  A File object carries one call from its first request to its    *)
(* callback, which the loop thread runs; libuv's thread pool performs the  *)
(* requests, and fs::close runs on the coroutine's own thread.  The File   *)
(* of an open stays in cache_fd, under the descriptor that its fs_req has  *)
(* as result; its own member fd is 0, for only read and write set that.    *)
(*                                                                         *)
(* Descriptor 0 is the process's standard input at first; 1 and 2, which   *)
(* nothing closes, are left out.  The accesses to cache_fd, a std::map     *)
(* without a lock, are steps: what the race does to the tree is not here.  *)
(*                                                                         *)
(* The schedules of a run may preempt fs::close between the close of a     *)
(* descriptor and the erasure of its entry if LateErase, and the kernel    *)
(* may write less than it was asked to if Short.                           *)
(***************************************************************************)
EXTENDS Integers, Sequences, FiniteSets

CONSTANTS
    Co,        \* coroutines
    Program,   \* their calls, of which the first opens a file
    MaxFd,     \* bound on descriptors
    FileLen,   \* blocks in a file that is read
    Count,     \* the argument count of every read and write, in blocks
    LateErase, Short,
    None       \* no descriptor, no open file

Op == {"open", "read", "write", "close"}
Fd == {0} \cup 3 .. MaxFd

ASSUME ProgramAssumption ==
    Program \in [Co -> Seq(Op)] /\ \A c \in Co : Program[c] # << >> => Program[c][1] = "open"
ASSUME BoundAssumption == MaxFd \in Nat /\ FileLen \in Nat /\ Count \in Nat \ {0}
ASSUME WindowAssumption == LateErase \in BOOLEAN /\ Short \in BOOLEAN
ASSUME NoneAssumption == None \notin Int \cup (Co \X Int) \cup {<<"stdin", 0>>}

VARIABLES
    kernel,  \* the open file behind each descriptor
    pos,     \* how far the open file behind each descriptor has been read
    cache,   \* keys of cache_fd that have a File
    loop,    \* the descriptor that a _close on the loop thread is about to close
    co,      \* each coroutine: its place, call, descriptor and last result
    req,     \* the File of its call: chunk, fs_req.result, and what its file was given
    thrown   \* whether _error has ended the process

fileVars == <<kernel, pos, cache, loop, co, req, thrown>>

\* The file that coroutine c opens is known by c and its place in the program.
Std == <<"stdin", 0>>

NewFile == [chunk |-> 0, result |-> 0, moved |-> << >>]

FileInit ==
    /\ kernel = [f \in Fd |-> IF f = 0 THEN Std ELSE None]
    /\ pos = [f \in Fd |-> 0]
    /\ cache = {}
    /\ loop = None
    /\ co = [c \in Co |-> [pc |-> "run", step |-> 0, fd |-> None, file |-> None, ret |-> 0]]
    /\ req = [c \in Co |-> NewFile]
    /\ thrown = FALSE

Calling(c) == IF co[c].step = 0 THEN "none" ELSE Program[c][co[c].step]

Goto(c, label) == co' = [co EXCEPT ![c].pc = label]

\* A coroutine makes its next call: new File and a request, or fs::close.
Call(c) ==
    /\ co[c].pc = "run" /\ co[c].step < Len(Program[c])
    /\ LET op == Program[c][co[c].step + 1]
       IN co' = [co EXCEPT ![c].step = @ + 1,
                           ![c].pc = IF op = "close" THEN "look" ELSE "submitted"]
    /\ req' = [req EXCEPT ![c] = NewFile]
    /\ UNCHANGED <<kernel, pos, cache, loop, thrown>>

-----------------------------------------------------------------------------
(* The thread pool performs a request. *)

Lowest(S) == CHOOSE f \in S : \A g \in S : f <= g

Erasing(c) == co[c].pc \in {"erase0", "erase"}

PerformOpen(c) ==
    /\ co[c].pc = "submitted" /\ Calling(c) = "open"
    /\ LateErase \/ \A d \in Co : ~ Erasing(d)
    /\ LET free == {f \in Fd : kernel[f] = None}
           f == IF free = {} THEN -1 ELSE Lowest(free)
       IN /\ kernel' = IF f = -1 THEN kernel ELSE [kernel EXCEPT ![f] = <<c, co[c].step>>]
          /\ pos' = IF f = -1 THEN pos ELSE [pos EXCEPT ![f] = 0]
          /\ req' = [req EXCEPT ![c].result = f]
    /\ co' = [co EXCEPT ![c].pc = "performed", ![c].file = <<c, co[c].step>>]
    /\ UNCHANGED <<cache, loop, thrown>>

\* The number of blocks a request moves, or -1 if the descriptor is closed.
Readable(c) ==
    LET file == kernel[co[c].fd]
    IN IF file = None THEN {-1}
       ELSE IF file = Std THEN 0 .. Count
       ELSE IF pos[co[c].fd] = FileLen THEN {0}
       ELSE {n \in 1 .. Count : n <= FileLen - pos[co[c].fd]}

PerformRead(c) ==
    /\ co[c].pc = "submitted" /\ Calling(c) = "read"
    /\ \E n \in Readable(c) :
          /\ req' = [req EXCEPT ![c].result = n]
          /\ pos' = IF n <= 0 \/ kernel[co[c].fd] = Std THEN pos
                    ELSE [pos EXCEPT ![co[c].fd] = @ + n]
    /\ Goto(c, "performed")
    /\ UNCHANGED <<kernel, cache, loop, thrown>>

Overshot(c) == Calling(c) = "write" /\ req[c].chunk > Count

Writable(c) ==
    IF kernel[co[c].fd] = None THEN {-1} ELSE IF Short THEN 1 .. Count ELSE {Count}

\* A request always names the whole buffer, whose blocks are 1 .. Count: the file that
\* c has opened gets the first n of them, if it is still behind the descriptor.
Blocks(c, n) == IF kernel[co[c].fd] = co[c].file THEN [i \in 1 .. n |-> i] ELSE << >>

\* A write that has passed Count goes on for ever, of which this much is enough.
PerformWrite(c) ==
    /\ co[c].pc = "submitted" /\ Calling(c) = "write" /\ ~ Overshot(c)
    /\ \E n \in Writable(c) :
          req' = [req EXCEPT ![c].result = n, ![c].moved = @ \o Blocks(c, n)]
    /\ Goto(c, "performed")
    /\ UNCHANGED <<kernel, pos, cache, loop, thrown>>

-----------------------------------------------------------------------------
(* The loop thread: on_open, on_read, on_write, one at a time. *)

\* What is used nowhere and stands just before a definition with the same
\* parameters is a slip that the properties are checked to notice.

Answering(c, op) == loop = None /\ co[c].pc = "performed" /\ Calling(c) = op

\* File::_error throws, and nothing above the loop catches.
Throw ==
    /\ thrown' = TRUE
    /\ UNCHANGED <<kernel, pos, cache, loop, co, req>>

Uncached(f) == cache
Cached(f) == cache \cup {f}

OnOpen(c) ==
    /\ Answering(c, "open")
    /\ IF req[c].result < 0 THEN Throw
       ELSE /\ cache' = Cached(req[c].result)
            /\ co' = [co EXCEPT ![c].pc = "run", ![c].fd = req[c].result]
            /\ UNCHANGED <<kernel, pos, loop, req, thrown>>

\* chunk += req->result
JustMoved(c) == req[c].result
Moved(c) == req[c].chunk + req[c].result

\* The same File and the same buffer again.
Resubmit(c) ==
    /\ req' = [req EXCEPT ![c].chunk = Moved(c)]
    /\ Goto(c, "submitted")
    /\ UNCHANGED <<kernel, pos, cache, loop, thrown>>

\* The condition under which nothing is left to read, and the descriptor that
\* _close then closes, which is fs_req.result.
AtEndNever(n) == n < 0
AtEnd(n) == n = 0
ClosedFile(c) == co[c].fd
ClosedResult(c) == req[c].result

\* At the end of the file: the callback, then _close.
OnRead(c) ==
    /\ Answering(c, "read")
    /\ IF req[c].result < 0 THEN Throw
       ELSE IF AtEnd(req[c].result)
       THEN /\ co' = [co EXCEPT ![c].pc = "run", ![c].ret = req[c].chunk]
            /\ loop' = ClosedResult(c)
            /\ UNCHANGED <<kernel, pos, cache, req, thrown>>
       ELSE Resubmit(c)

\* Whether n blocks are what the call asked for.
Written(n) == n = Count

OnWrite(c) ==
    /\ Answering(c, "write")
    /\ IF req[c].result < 0 THEN Throw
       ELSE IF Written(Moved(c))
       THEN /\ co' = [co EXCEPT ![c].pc = "run", ![c].ret = Moved(c)]
            /\ UNCHANGED <<kernel, pos, cache, loop, req, thrown>>
       ELSE Resubmit(c)

LoopClose ==
    /\ loop # None
    /\ kernel' = [kernel EXCEPT ![loop] = None]
    /\ loop' = None
    /\ UNCHANGED <<pos, cache, co, req, thrown>>

-----------------------------------------------------------------------------
(* fs::close: the File of the descriptor, and the File of that File's fd,  *)
(* which is 0: each is closed and its entry erased.                        *)

Look(c) ==
    /\ co[c].pc = "look"
    /\ Goto(c, IF co[c].fd \notin cache THEN "run"
               ELSE IF 0 \in cache THEN "close0" ELSE "close")
    /\ UNCHANGED <<kernel, pos, cache, loop, req, thrown>>

Close(c, from, f, to) ==
    /\ co[c].pc = from
    /\ kernel' = [kernel EXCEPT ![f] = None]
    /\ Goto(c, to)
    /\ UNCHANGED <<pos, cache, loop, req, thrown>>

Erase(c, from, f, to) ==
    /\ co[c].pc = from
    /\ cache' = cache \ {f}
    /\ Goto(c, to)
    /\ UNCHANGED <<kernel, pos, loop, req, thrown>>

FsClose(c) ==
    \/ Look(c)
    \/ Close(c, "close0", 0, "erase0") \/ Erase(c, "erase0", 0, "close")
    \/ Close(c, "close", co[c].fd, "erase") \/ Erase(c, "erase", co[c].fd, "run")

-----------------------------------------------------------------------------
Perform(c) == PerformOpen(c) \/ PerformRead(c) \/ PerformWrite(c)

Answer(c) == OnOpen(c) \/ OnRead(c) \/ OnWrite(c)

Finished(c) == co[c].pc = "run" /\ co[c].step = Len(Program[c])

-----------------------------------------------------------------------------
(* Properties. *)

\* c has a file, other than under 0, and has not begun to close it.
HasFile(c) ==
    /\ co[c].fd \notin {None, 0}
    /\ Calling(c) # "close"
    /\ Calling(c) = "open" => co[c].pc = "run"

\* An open file stays behind its descriptor until its coroutine closes it,
\* whatever others open, read and close; descriptor 0 is the exception.
FileKept == \A c \in Co : HasFile(c) => kernel[co[c].fd] = co[c].file

\* fs::close finds the File that open has put into cache_fd: when it is done,
\* nothing refers to the file any more.
CloseCloses ==
    \A c \in Co : Calling(c) = "close" /\ co[c].pc = "run" /\ co[c].fd # 0
        => \A f \in Fd : kernel[f] # co[c].file

\* A call that reads returns the length of the file that it has read to the
\* end, in however many requests.
ReadsAll ==
    \A c \in Co : Calling(c) = "read" /\ co[c].pc = "run" /\ co[c].fd # 0
        => co[c].ret = FileLen /\ pos[co[c].fd] = FileLen

\* When a call that writes returns, the file that its coroutine opened has been given as
\* many blocks as it was asked to write, in however many requests, and no other file
\* any of them.
WritesAll ==
    \A c \in Co : Calling(c) = "write" /\ co[c].pc = "run" /\ co[c].fd # 0
        => co[c].ret = Count /\ Len(req[c].moved) = Count

\* What uv_fs.cpp:105 says of the request that follows a partial write, that it writes
\* the next piece of the data: the file gets the buffer from its start, each block once.
\* The request is for the same buffer, so that a partial write breaks it, and no run claims it.
WritesInOrder ==
    \A c \in Co : req[c].moved = [i \in 1 .. Len(req[c].moved) |-> i]
=============================================================================
