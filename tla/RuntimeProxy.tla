---------------------------- MODULE RuntimeProxy ----------------------------
(***************************************************************************)
(* The runtime adapter (openwhisk_runtime/proxy.py) and the worker process *)
(* it drives: HTTP threads that serve /run and /reset, the files at fixed  *)
(* paths through which a request reaches the worker, the lock around the   *)
(* worker, and the worker's standard input and output.                     *)
(*                                                                         *)
(* A request is the name of its /run call and stands for the contents of   *)
(* its files.  A response of the worker is three lines: "begin", a body    *)
(* with the result and the return code, and "end"; what a worker says      *)
(* before it is ready is one line.  The requests are for the one function  *)
(* of the container, which /init has stored, and their FID and label hold  *)
(* no white space, so each is one line to the worker.                      *)
(***************************************************************************)
EXTENDS Naturals, Sequences, FiniteSets

CONSTANTS
  Req,
  Profile,
  DefaultProfile,  \* "eccibe"
  ProfileOf,       \* the profile a request names, or None
  Files,           \* the files in the order run writes them
  FunctionKeyFile, \* the one of them that is not removed: CKFUNC_FILE
  MaxInProgress,   \* bound on the /run calls in progress at once
  MaxSpoils,       \* bound on the reads that fail
  None

File == {Files[i] : i \in DOMAIN Files}

ASSUME ProxyAssumption ==
  /\ Files \in Seq(File)
  /\ FunctionKeyFile \in File
  /\ File # {FunctionKeyFile}
  /\ MaxInProgress \in Nat \ {0}
  /\ DefaultProfile \in Profile
  /\ ProfileOf \in [Req -> Profile \cup {None}]
  /\ MaxSpoils \in Nat
  /\ None \notin Req \cup Profile

VARIABLES
  file,      \* file[n]: the request whose contents file n has, or None
  pc,        \* pc[r]: where the thread of request r is
  pos,       \* pos[r]: the file it writes or removes next
  lock,      \* the holder of _SGX_WORKER_LOCK, or None
  worker,    \* _SGX_WORKER_PROC with its profile, or None
  commands,  \* the lines in the worker's standard input
  serving,   \* the command the worker works on, or None
  output,    \* the lines in the worker's standard output
  heard,     \* heard[r]: the lines the thread of r has read
  answer,    \* answer[r]: the request whose result r is answered with, or an error
  \* What follows is history: the code keeps none of it.
  overlapped,  \* the requests that were in progress along with another
  spoils,      \* the number of reads that failed
  spoiled,     \* a read of this worker's output failed before
  tainted      \* the requests that read output of a spoiled worker

process == <<worker, commands, serving, output>>
thread == <<pc, pos, heard, answer>>
history == <<overlapped, spoils, spoiled, tainted>>
vars == <<file, lock, process, thread, history>>

Line == [kind : {"start", "begin", "body", "end"}, of : Req \cup {None}]

\* What the worker says before it is ready.
StartupLine == [kind |-> "start", of |-> None]

TypeOK ==
  /\ file \in [File -> Req \cup {None}]
  /\ pc \in [Req -> {"new", "write", "wait", "start", "send", "read", "remove", "done"}]
  /\ pos \in [Req -> 1 .. Len(Files) + 1]
  /\ lock \in Req \cup {None}
  /\ worker \in [profile : Profile, alive : BOOLEAN] \cup {None}
  /\ commands \in Seq(Req)
  /\ serving \in Req \cup {None}
  /\ output \in Seq(Line)
  /\ heard \in [Req -> Seq(Line)]
  /\ answer \in [Req -> Req \cup {None, "error"}]
  /\ overlapped \subseteq Req
  /\ spoils \in 0 .. MaxSpoils
  /\ spoiled \in BOOLEAN
  /\ tainted \subseteq Req

\* main may have started a worker of the BF-IBE profile (ACSC_RUNTIME_PRESTART_WORKER).
Init ==
  /\ file = [n \in File |-> None]
  /\ pc = [r \in Req |-> "new"]
  /\ pos = [r \in Req |-> 1]
  /\ lock = None
  /\ worker \in {None} \cup [profile : Profile \ {DefaultProfile}, alive : {TRUE}]
  /\ commands = <<>>
  /\ serving = None
  /\ output = <<>>
  /\ heard = [r \in Req |-> <<>>]
  /\ answer = [r \in Req |-> None]
  /\ overlapped = {}
  /\ spoils = 0
  /\ spoiled = FALSE
  /\ tainted = {}

InProgress == {r \in Req : pc[r] \notin {"new", "done"}}

Alive == worker # None /\ worker.alive

-----------------------------------------------------------------------------
(* The files, written and removed outside the lock. *)

Goto(r, step) == pc' = [pc EXCEPT ![r] = step]

run(r) ==
  /\ pc[r] = "new"
  /\ Cardinality(InProgress) < MaxInProgress
  /\ Goto(r, "write")
  /\ overlapped' = overlapped \cup (IF InProgress = {} THEN {} ELSE InProgress \cup {r})
  /\ UNCHANGED <<file, lock, process, pos, heard, answer, spoils, spoiled, tainted>>

\* The thread gives up: the lock is released and run answers with an error.
Fail(r) ==
  /\ Goto(r, "remove")
  /\ pos' = [pos EXCEPT ![r] = 1]
  /\ answer' = [answer EXCEPT ![r] = "error"]
  /\ lock' = IF lock = r THEN None ELSE lock
  /\ heard' = [heard EXCEPT ![r] = <<>>]
  /\ UNCHANGED file

\* A value that is not base64 ends the writing; finally removes what there is.
WriteFile(r) ==
  /\ pc[r] = "write"
  /\ \/ /\ file' = [file EXCEPT ![Files[pos[r]]] = r]
        /\ pos' = [pos EXCEPT ![r] = @ + 1]
        /\ IF pos[r] = Len(Files) THEN Goto(r, "wait") ELSE UNCHANGED pc
        /\ UNCHANGED <<lock, heard, answer>>
     \/ Fail(r)
  /\ UNCHANGED <<process, history>>

\* A finally that leaves the last file behind.
ForgetsLast(n) == n \notin {FunctionKeyFile, Files[Len(Files)]}

\* per_request_files: the function key of the last request stays.
per_request(n) == n # FunctionKeyFile

RemoveFile(r) ==
  /\ pc[r] = "remove"
  /\ IF pos[r] <= Len(Files)
       THEN /\ file' = IF per_request(Files[pos[r]])
                         THEN [file EXCEPT ![Files[pos[r]]] = None]
                         ELSE file
            /\ pos' = [pos EXCEPT ![r] = @ + 1]
            /\ UNCHANGED pc
       ELSE Goto(r, "done") /\ UNCHANGED <<file, pos>>
  /\ UNCHANGED <<lock, process, heard, answer, history>>

-----------------------------------------------------------------------------
(* The worker's process, under the lock. *)

Acquire(r) ==
  /\ pc[r] = "wait"
  /\ lock = None
  /\ lock' = r
  /\ Goto(r, "start")
  /\ UNCHANGED <<file, process, pos, heard, answer, history>>

\* The profile as the request names it, with no default.
ProfileAsNamed(r) == ProfileOf[r]

requested_profile(r) == IF ProfileOf[r] = None THEN DefaultProfile ELSE ProfileOf[r]

\* The lines of the last worker are read as the next one's.
OldPipe == output

\* A worker has pipes of its own.
NewPipe == <<>>

\* A worker that is gone takes its pipes along.
Discard == commands' = <<>> /\ serving' = None /\ output' = NewPipe /\ spoiled' = FALSE

\* A live worker of the same profile is kept.  Any other is stopped, and the new one
\* is ready, or ends before it says so, or cannot be started at all; or the thread gives
\* it up, after 200 lines or one that cannot be decoded, and it stays as it is, for the
\* next thread to find it alive, with what it says until it is ready still unread.
_start_sgx_worker(r) ==
  /\ pc[r] = "start"
  /\ \/ /\ Alive /\ worker.profile = requested_profile(r)
        /\ Goto(r, "send")
        /\ UNCHANGED <<file, lock, process, pos, heard, answer, spoiled>>
     \/ /\ ~(Alive /\ worker.profile = requested_profile(r))
        /\ commands' = <<>> /\ serving' = None /\ spoiled' = FALSE
        /\ \/ /\ worker' = [profile |-> requested_profile(r), alive |-> TRUE]
              /\ output' = NewPipe
              /\ Goto(r, "send")
              /\ UNCHANGED <<file, lock, pos, heard, answer>>
           \/ /\ worker' \in {None, [profile |-> requested_profile(r), alive |-> FALSE]}
              /\ output' = NewPipe
              /\ Fail(r)
           \/ /\ worker' = [profile |-> requested_profile(r), alive |-> TRUE]
              /\ output' \in {NewPipe, Append(NewPipe, StartupLine)}
              /\ Fail(r)
  /\ UNCHANGED <<overlapped, spoils, tainted>>

\* The command is written; the pipe of a worker that ended since is broken.
Send(r) ==
  /\ pc[r] = "send"
  /\ \/ /\ Alive
        /\ commands' = Append(commands, r)
        /\ Goto(r, "read")
        /\ UNCHANGED <<file, lock, pos, heard, answer>>
     \/ ~Alive /\ Fail(r) /\ UNCHANGED commands
  /\ UNCHANGED <<worker, serving, output, history>>

reset ==
  /\ lock = None
  /\ worker # None
  /\ worker' = None
  /\ Discard
  /\ UNCHANGED <<file, lock, thread, overlapped, spoils, tainted>>

-----------------------------------------------------------------------------
(* The response. *)

\* A reader that has enough when it has a return code.
LastLineEarly(line) == line.kind = "body"

LastLine(line) == line.kind = "end"

\* The body that _parse_worker_response finds: the last one after a "begin".
Bodies(lines) ==
  {j \in DOMAIN lines :
     lines[j].kind = "body" /\ \E i \in 1 .. j - 1 : lines[i].kind = "begin"}
_parse_worker_response(lines) ==
  IF Bodies(lines) = {} THEN None
  ELSE lines[CHOOSE j \in Bodies(lines) : \A k \in Bodies(lines) : k <= j].of

Taint(r) == tainted' = IF spoiled THEN tainted \cup {r} ELSE tainted

\* With the last line the lock is released and the response parsed: no "begin", no
\* return code or one that is not zero is an error.
ReadLine(r) ==
  /\ pc[r] = "read"
  /\ output # <<>>
  /\ output' = Tail(output)
  /\ LET lines == Append(heard[r], Head(output)) IN
       /\ \/ /\ ~LastLine(Head(output))
             /\ heard' = [heard EXCEPT ![r] = lines]
             /\ UNCHANGED <<pc, pos, lock, answer>>
          \/ /\ LastLine(Head(output))
             /\ heard' = [heard EXCEPT ![r] = <<>>]
             /\ LET of == _parse_worker_response(lines) IN
                  answer' = [answer EXCEPT ![r] = IF of = None THEN "error" ELSE of]
             /\ lock' = None
             /\ Goto(r, "remove")
             /\ pos' = [pos EXCEPT ![r] = 1]
  /\ Taint(r)
  /\ UNCHANGED <<file, worker, commands, serving, overlapped, spoils, spoiled>>

\* readline that takes the end of the output for a line yet to come.
NeverEnds == FALSE

EndOfOutput == output = <<>> /\ ~Alive

\* The worker ended before it said "end".
ReadEOF(r) ==
  /\ pc[r] = "read"
  /\ EndOfOutput
  /\ Fail(r)
  /\ UNCHANGED <<process, history>>

\* The output of the function cannot be decoded: readline raises an exception and a
\* chunk of the output is lost, the rest is left for whoever reads next.
ReadFails(r) ==
  /\ pc[r] = "read"
  /\ spoils < MaxSpoils
  /\ \E n \in 1 .. Len(output) : output' = SubSeq(output, n + 1, Len(output))
  /\ spoils' = spoils + 1
  /\ spoiled' = TRUE
  /\ Fail(r)
  /\ UNCHANGED <<worker, commands, serving, overlapped, tainted>>

-----------------------------------------------------------------------------
(* The worker: run_server_loop and do_invoke. *)

BeginResponse ==
  /\ Alive /\ serving = None /\ commands # <<>>
  /\ serving' = Head(commands)
  /\ commands' = Tail(commands)
  /\ output' = Append(output, [kind |-> "begin", of |-> None])
  /\ UNCHANGED <<file, lock, worker, thread, history>>

\* The request the files make up: the enclave opens them only together.
Whole(q) ==
  /\ \A n \in File \ {FunctionKeyFile} : file[n] = q
  /\ file[FunctionKeyFile] # None
  /\ requested_profile(q) = worker.profile

\* The invocation succeeds only on the files of one request, and may fail on those.
\* It reads them at one moment here; read one by one they can be mixed by requests
\* that overlap, which fails as any other mixture does.
EndResponse ==
  /\ Alive /\ serving # None
  /\ \E of \in {q \in Req : Whole(q)} \cup {None} :
       output' = output \o <<[kind |-> "body", of |-> of], [kind |-> "end", of |-> None]>>
  /\ serving' = None
  /\ UNCHANGED <<file, lock, worker, commands, thread, history>>

\* The process ends; what it flushed can still be read.
Crash ==
  /\ Alive
  /\ worker' = [worker EXCEPT !.alive = FALSE]
  /\ commands' = <<>>
  /\ serving' = None
  /\ UNCHANGED <<file, lock, output, thread, history>>

-----------------------------------------------------------------------------
ThreadStep(r) ==
  \/ WriteFile(r)
  \/ Acquire(r)
  \/ _start_sgx_worker(r)
  \/ Send(r)
  \/ ReadLine(r)
  \/ ReadEOF(r)
  \/ ReadFails(r)
  \/ RemoveFile(r)
WorkerStep == BeginResponse \/ EndResponse

Next ==
  \/ reset
  \/ Crash
  \/ WorkerStep
  \/ \E r \in Req : run(r) \/ ThreadStep(r)

\* A thread goes on with its request and the worker with its command; nobody has to
\* call, and nothing has to fail.
Spec ==
  /\ Init /\ [][Next]_vars
  /\ WF_vars(WorkerStep)
  /\ \A r \in Req : WF_vars(ThreadStep(r))

-----------------------------------------------------------------------------
(* Properties. *)

\* A request that overlapped no other is answered with its own result or an error,
\* through crashes, resets and changes of profile, unless a read of this worker's
\* output failed before; a new worker starts clean again.
OwnAnswer ==
  \A r \in Req \ (overlapped \cup tainted) : answer[r] \in {None, "error", r}

\* Between calls the worker is idle and its output holds no line of a response, nothing
\* but what it said before it was ready: the lock is held until the "end" of the response
\* to the one command it was sent, unless a read of this worker's output failed.
WorkerIdle ==
  lock = None /\ ~spoiled /\ Alive =>
    /\ commands = <<>> /\ serving = None
    /\ \A i \in DOMAIN output : output[i] = StartupLine

\* When no request is in progress none has left a file behind, whatever raced and
\* failed, but for the function key.
FilesRemoved ==
  InProgress = {} => \A n \in File \ {FunctionKeyFile} : file[n] = None

\* Every request is answered as long as the worker goes on with its commands or ends:
\* no thread waits for a line that never comes, and none for the lock.
EventuallyAnswered == \A r \in Req : pc[r] = "write" ~> pc[r] = "done"
=============================================================================
