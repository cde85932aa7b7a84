-------------------------- MODULE RuntimeProxyProofs --------------------------
(***************************************************************************)
(* The runtime adapter for any number of requests, profiles and files: the *)
(* lock, the files, and the conversation with the worker over its pipes,   *)
(* in which nothing tells an answer from another but its place.            *)
(***************************************************************************)
EXTENDS RuntimeProxy, TLAPS

\* The lock is held from the start of the worker to the end of the response.
Threads ==
  \A r \in Req :
    /\ (pc[r] \in {"start", "send", "read"}) <=> (lock = r)
    /\ pc[r] = "new" => pos[r] = 1
    /\ pc[r] = "write" => pos[r] <= Len(Files)
    /\ pc[r] # "read" => heard[r] = <<>>

\* What is in a file was written by a request in progress, which will remove it.
Owned ==
  \A n \in File \ {FunctionKeyFile} :
    file[n] # None =>
      /\ file[n] \in InProgress
      /\ pc[file[n]] = "remove" =>
           \E i \in DOMAIN Files : pos[file[n]] <= i /\ Files[i] = n

OverlapsKnown == \A r \in InProgress \ overlapped : InProgress = {r}

\* Lines that belong to the response to r.
Own(lines, r) == \A i \in DOMAIN lines : lines[i].of \in {None, r}

Heard == \A r \in Req \ (overlapped \cup tainted) : Own(heard[r], r)

LastBodyExists ==
  \A r \in Req : Bodies(heard[r]) # {} =>
    \E j \in Bodies(heard[r]) : \A k \in Bodies(heard[r]) : k <= j

ThreadInv == Threads /\ Owned /\ OverlapsKnown /\ Heard /\ LastBodyExists /\ OwnAnswer

\* Somebody has sent a command and reads the response.
Reading == lock # None /\ pc[lock] = "read"

\* The worker has said nothing but what it says before it is ready.
Silent(lines) == \A i \in DOMAIN lines : lines[i] = StartupLine

Idle == commands = <<>> /\ serving = None /\ Silent(output)

\* One command at most is under way, the reader's, and its "end" is the last line.
Piped ==
  /\ commands # <<>> => commands = <<lock>> /\ serving = None /\ Silent(output)
  /\ serving \in {None, lock}
  /\ \A i \in DOMAIN output :
       output[i].kind = "end" => i = Len(output) /\ commands = <<>> /\ serving = None

\* What the reader has still to read is its own.
OwnOutput == ~spoiled /\ Reading /\ lock \notin overlapped => Own(output, lock)

PipeInv ==
  /\ ~Alive => commands = <<>> /\ serving = None
  /\ ~spoiled => IF Reading THEN Piped ELSE Idle
  /\ OwnOutput

IInv == TypeOK /\ ThreadInv /\ PipeInv

-----------------------------------------------------------------------------
(* Lemmas about the data. *)

LEMMA FilesFacts ==
  /\ Files \in Seq(File)
  /\ Len(Files) \in Nat \ {0}
  /\ DOMAIN Files = 1 .. Len(Files)
  /\ \A n \in File : \E i \in DOMAIN Files : 1 <= i /\ Files[i] = n
<1>1. Files \in Seq(File)
  BY ProxyAssumption DEF ProxyAssumption
<1>2. \A n \in File : \E i \in DOMAIN Files : Files[i] = n
  BY DEF File
<1>3. DOMAIN Files = 1 .. Len(Files) /\ Len(Files) \in Nat
  BY <1>1
<1> HIDE DEF File
<1>4. \E n : n \in File
  BY ProxyAssumption DEF ProxyAssumption
<1>5. Len(Files) # 0
  BY <1>2, <1>3, <1>4
<1> QED
  BY <1>1, <1>2, <1>3, <1>5

\* A line more is no body, or it is the last one.
LEMMA LastBody ==
  ASSUME NEW lines \in Seq(Line), NEW x \in Line,
         Bodies(lines) # {} => \E j \in Bodies(lines) : \A k \in Bodies(lines) : k <= j
  PROVE  LET ext == Append(lines, x) IN
         Bodies(ext) # {} => \E j \in Bodies(ext) : \A k \in Bodies(ext) : k <= j
<1> DEFINE ext == Append(lines, x)
           n == Len(lines) + 1
<1>1. DOMAIN ext = 1 .. n /\ DOMAIN lines = 1 .. Len(lines) /\ Len(lines) \in Nat
  OBVIOUS
<1>2. \A i \in DOMAIN lines : ext[i] = lines[i]
  OBVIOUS
<1>3. \A j \in 1 .. Len(lines) : j \in Bodies(ext) <=> j \in Bodies(lines)
  BY <1>1, <1>2 DEF Bodies
<1>4. Bodies(ext) \subseteq 1 .. n /\ Bodies(lines) \subseteq 1 .. Len(lines)
  BY <1>1 DEF Bodies
<1>5. CASE n \in Bodies(ext)
  <2>1. \A k \in Bodies(ext) : k <= n
    BY <1>1, <1>4
  <2> QED
    BY <1>5, <2>1
<1>6. CASE n \notin Bodies(ext)
  <2>1. \A j \in Bodies(ext) : j \in 1 .. Len(lines)
    BY <1>1, <1>4, <1>6
  <2>2. Bodies(ext) = Bodies(lines)
    BY <1>3, <1>4, <2>1
  <2> QED
    BY <2>2
<1> QED
  BY <1>5, <1>6

\* What a response is parsed to is what one of its lines says.
LEMMA Parsed ==
  ASSUME NEW lines \in Seq(Line),
         Bodies(lines) # {} => \E j \in Bodies(lines) : \A k \in Bodies(lines) : k <= j
  PROVE  \/ _parse_worker_response(lines) = None
         \/ \E j \in DOMAIN lines : _parse_worker_response(lines) = lines[j].of
<1>1. CASE Bodies(lines) = {}
  BY <1>1 DEF _parse_worker_response
<1>2. CASE Bodies(lines) # {}
  <2> DEFINE j == CHOOSE m \in Bodies(lines) : \A k \in Bodies(lines) : k <= m
  <2>1. j \in Bodies(lines)
    BY <1>2
  <2>2. j \in DOMAIN lines
    BY <2>1 DEF Bodies
  <2>3. _parse_worker_response(lines) = lines[j].of
    BY <1>2 DEF _parse_worker_response
  <2> QED
    BY <2>2, <2>3
<1> QED
  BY <1>1, <1>2

-----------------------------------------------------------------------------
(* The thread's side of the invariant. *)

LEMMA InitIInv == Init => IInv
<1> SUFFICES ASSUME Init PROVE IInv
  OBVIOUS
<1> USE DEF Init
<1>1. TypeOK
  <2>1. worker \in [profile : Profile, alive : BOOLEAN] \cup {None}
    OBVIOUS
  <2>2. pos \in [Req -> 1 .. Len(Files) + 1]
    BY FilesFacts
  <2>3. heard \in [Req -> Seq(Line)]
    OBVIOUS
  <2>4. spoils \in 0 .. MaxSpoils
    BY ProxyAssumption DEF ProxyAssumption
  <2>5. commands \in Seq(Req) /\ output \in Seq(Line)
    OBVIOUS
  <2>6. /\ file \in [File -> Req \cup {None}]
        /\ pc \in [Req -> {"new", "write", "wait", "start", "send", "read", "remove", "done"}]
        /\ answer \in [Req -> Req \cup {None, "error"}]
    OBVIOUS
  <2> QED
    BY <2>1, <2>2, <2>3, <2>4, <2>5, <2>6 DEF TypeOK
<1>2. ThreadInv
  BY ProxyAssumption
  DEF ThreadInv, Threads, Owned, OverlapsKnown, Heard, Own, LastBodyExists, OwnAnswer, InProgress,
      Bodies, ProxyAssumption
<1>3. PipeInv
  BY DEF PipeInv, Reading, Idle, Silent, OwnOutput
<1> QED
  BY <1>1, <1>2, <1>3 DEF IInv

\* A request that starts has the first file before it, and makes those in progress overlap.
LEMMA RunThreads ==
  ASSUME TypeOK, ThreadInv, NEW r \in Req, run(r)
  PROVE  ThreadInv'
<1> USE DEF run, Goto, ThreadInv, TypeOK, thread
<1>1. pc[r] = "new" /\ pc' = [pc EXCEPT ![r] = "write"]
  OBVIOUS
<1>2. UNCHANGED <<file, lock, pos, heard, answer, tainted>>
  OBVIOUS
<1>3. InProgress' = InProgress \cup {r}
  BY <1>1 DEF InProgress
<1>4. overlapped \subseteq overlapped'
  OBVIOUS
<1>5. Threads'
  BY <1>1, <1>2, FilesFacts DEF Threads
<1>6. Owned'
  BY <1>1, <1>2, <1>3 DEF Owned, InProgress
<1>7. OverlapsKnown'
  BY <1>3 DEF OverlapsKnown
<1>8. Heard' /\ LastBodyExists' /\ OwnAnswer'
  BY <1>2, <1>4 DEF Heard, LastBodyExists, OwnAnswer
<1> QED
  BY <1>5, <1>6, <1>7, <1>8

\* A thread that takes the lock, or has it and moves on.
LEMMA MoveThreads ==
  ASSUME TypeOK, ThreadInv, NEW r \in Req, NEW s \in {"start", "send", "read"},
         pc[r] \in {"wait", "start", "send"},
         pc' = [pc EXCEPT ![r] = s],
         lock \in {None, r}, lock' = r,
         UNCHANGED <<file, pos, heard, answer, overlapped, tainted>>
  PROVE  ThreadInv'
<1> USE DEF ThreadInv, TypeOK
<1>1. InProgress' = InProgress /\ r \in InProgress
  BY DEF InProgress
<1>2. None \notin Req
  BY ProxyAssumption DEF ProxyAssumption
<1>3. Threads'
  BY <1>2 DEF Threads
<1>4. Owned'
  BY <1>1 DEF Owned, InProgress
<1>5. OverlapsKnown' /\ Heard' /\ LastBodyExists' /\ OwnAnswer'
  BY <1>1 DEF OverlapsKnown, Heard, LastBodyExists, OwnAnswer
<1> QED
  BY <1>3, <1>4, <1>5

\* A thread that leaves, with an error or an answer of its own, has all files to remove.
LEMMA LeaveThreads ==
  ASSUME TypeOK, ThreadInv, NEW r \in Req, pc[r] \in {"write", "start", "send", "read"},
         pc' = [pc EXCEPT ![r] = "remove"],
         pos' = [pos EXCEPT ![r] = 1],
         lock' = IF lock = r THEN None ELSE lock,
         heard' = [heard EXCEPT ![r] = <<>>],
         NEW a, answer' = [answer EXCEPT ![r] = a],
         r \notin overlapped \cup tainted' => a \in {"error", r},
         UNCHANGED <<file, overlapped>>, tainted \subseteq tainted'
  PROVE  ThreadInv'
<1> USE DEF ThreadInv, TypeOK
<1>1. InProgress' = InProgress /\ r \in InProgress
  BY DEF InProgress
<1>2. None \notin Req
  BY ProxyAssumption DEF ProxyAssumption
<1>3. Threads'
  BY <1>2, FilesFacts DEF Threads
<1>4. Owned'
  BY <1>1, FilesFacts DEF Owned, InProgress
<1>5. OverlapsKnown'
  BY <1>1 DEF OverlapsKnown
<1>6. Heard'
  BY DEF Heard, Own
<1>7. LastBodyExists'
  <2>1. Bodies(<<>>) = {}
    BY DEF Bodies
  <2>2. \A q \in Req : heard'[q] = IF q = r THEN <<>> ELSE heard[q]
    OBVIOUS
  <2> QED
    BY <2>1, <2>2 DEF LastBodyExists
<1>8. OwnAnswer'
  BY DEF OwnAnswer
<1> QED
  BY <1>3, <1>4, <1>5, <1>6, <1>7, <1>8

LEMMA FailThreads ==
  ASSUME TypeOK, ThreadInv, NEW r \in Req, pc[r] \in {"write", "start", "send", "read"},
         Fail(r), UNCHANGED <<overlapped, tainted>>
  PROVE  ThreadInv'
  BY LeaveThreads DEF Fail, Goto

LEMMA WriteFileThreads ==
  ASSUME TypeOK, ThreadInv, NEW r \in Req, WriteFile(r)
  PROVE  ThreadInv'
<1> USE DEF WriteFile, history, ThreadInv, TypeOK
<1>1. CASE Fail(r)
  BY <1>1, FailThreads
<1>2. CASE ~Fail(r)
  <2>1. /\ file' = [file EXCEPT ![Files[pos[r]]] = r]
        /\ pos' = [pos EXCEPT ![r] = pos[r] + 1]
        /\ pc' = IF pos[r] = Len(Files) THEN [pc EXCEPT ![r] = "wait"] ELSE pc
        /\ UNCHANGED <<lock, heard, answer, overlapped, tainted>>
    BY <1>2 DEF Goto
  <2>2. pc[r] = "write" /\ pos[r] \in 1 .. Len(Files) /\ lock # r
    <3>1. pc[r] = "write"
      OBVIOUS
    <3>2. pos[r] <= Len(Files) /\ lock # r
      BY <3>1 DEF Threads
    <3>3. pos[r] \in 1 .. Len(Files) + 1
      OBVIOUS
    <3> QED
      BY <3>1, <3>2, <3>3, FilesFacts
  <2>3. InProgress' = InProgress /\ r \in InProgress
    BY <2>1, <2>2 DEF InProgress
  <2>4. Threads'
    BY <2>1, <2>2, FilesFacts DEF Threads
  <2>5. Owned'
    <3> SUFFICES ASSUME NEW n \in File \ {FunctionKeyFile}, file'[n] # None
                 PROVE  /\ file'[n] \in InProgress'
                        /\ pc'[file'[n]] = "remove" =>
                             \E i \in DOMAIN Files : pos'[file'[n]] <= i /\ Files[i] = n
      BY DEF Owned
    <3>1. Files[pos[r]] \in File
      BY <2>2, FilesFacts DEF File
    <3>2. CASE file'[n] = r
      BY <2>1, <2>2, <2>3, <3>2
    <3>3. CASE file'[n] # r
      <4>1. file'[n] = file[n]
        BY <2>1, <3>1, <3>3
      <4>2. file[n] \in Req /\ pc'[file[n]] = pc[file[n]] /\ pos'[file[n]] = pos[file[n]]
        BY <2>1, <3>3, <4>1
      <4> QED
        BY <2>3, <4>1, <4>2 DEF Owned
    <3> QED
      BY <3>2, <3>3
  <2>6. OverlapsKnown' /\ Heard' /\ LastBodyExists' /\ OwnAnswer'
    BY <2>1, <2>3 DEF OverlapsKnown, Heard, LastBodyExists, OwnAnswer
  <2> QED
    BY <2>4, <2>5, <2>6
<1> QED
  BY <1>1, <1>2

LEMMA RemoveFileThreads ==
  ASSUME TypeOK, ThreadInv, NEW r \in Req, RemoveFile(r)
  PROVE  ThreadInv'
<1> USE DEF RemoveFile, history, ThreadInv, TypeOK
<1>1. pc[r] = "remove" /\ UNCHANGED <<lock, heard, answer, overlapped, tainted>>
  OBVIOUS
<1>2. Heard' /\ LastBodyExists' /\ OwnAnswer'
  BY <1>1 DEF Heard, LastBodyExists, OwnAnswer
<1>3. CASE pos[r] <= Len(Files)
  <2>1. /\ file' = IF Files[pos[r]] # FunctionKeyFile
                     THEN [file EXCEPT ![Files[pos[r]]] = None] ELSE file
        /\ pos' = [pos EXCEPT ![r] = pos[r] + 1]
        /\ pc' = pc
    BY <1>3 DEF per_request
  <2>2. InProgress' = InProgress
    BY <2>1 DEF InProgress
  <2>3. Threads' /\ OverlapsKnown'
    BY <1>1, <2>1, <2>2 DEF Threads, OverlapsKnown
  <2>4. Owned'
    <3> SUFFICES ASSUME NEW n \in File \ {FunctionKeyFile}, file'[n] # None
                 PROVE  /\ file'[n] \in InProgress'
                        /\ pc'[file'[n]] = "remove" =>
                             \E i \in DOMAIN Files : pos'[file'[n]] <= i /\ Files[i] = n
      BY DEF Owned
    <3>1. file'[n] = file[n] /\ Files[pos[r]] # n
      BY <1>3, <2>1, FilesFacts DEF File
    <3>2. file[n] \in InProgress /\ file[n] \in Req
      BY <3>1 DEF Owned, InProgress
    <3>3. ASSUME pc[file[n]] = "remove"
          PROVE  \E i \in DOMAIN Files : pos'[file[n]] <= i /\ Files[i] = n
      <4>1. PICK i \in DOMAIN Files : pos[file[n]] <= i /\ Files[i] = n
        BY <3>1, <3>3 DEF Owned
      <4>2. CASE file[n] = r
        <5>1. i # pos[r]
          BY <3>1, <4>1
        <5>2. i \in Nat /\ pos[r] \in Nat
          BY FilesFacts
        <5>3. pos'[r] <= i
          BY <2>1, <4>1, <4>2, <5>1, <5>2
        <5> QED
          BY <4>1, <4>2, <5>3
      <4>3. CASE file[n] # r
        BY <2>1, <3>2, <4>1, <4>3
      <4> QED
        BY <4>2, <4>3
    <3> QED
      BY <2>1, <2>2, <3>1, <3>2, <3>3
  <2> QED
    BY <1>2, <2>3, <2>4
<1>4. CASE pos[r] > Len(Files)
  <2>1. pc' = [pc EXCEPT ![r] = "done"] /\ UNCHANGED <<file, pos>>
    BY <1>4, FilesFacts DEF Goto
  <2>2. InProgress' = InProgress \ {r}
    BY <2>1 DEF InProgress
  <2>3. ASSUME NEW n \in File \ {FunctionKeyFile}, file[n] = r PROVE FALSE
    <3>1. r # None
      BY ProxyAssumption DEF ProxyAssumption
    <3>2. PICK i \in DOMAIN Files : pos[r] <= i
      BY <1>1, <2>3, <3>1 DEF Owned
    <3>3. pos[r] \in Nat
      BY FilesFacts
    <3> QED
      BY <1>4, <3>2, <3>3, FilesFacts
  <2>4. Threads' /\ OverlapsKnown'
    BY <1>1, <2>1, <2>2 DEF Threads, OverlapsKnown
  <2>5. Owned'
    BY <2>1, <2>2, <2>3 DEF Owned, InProgress
  <2> QED
    BY <1>2, <2>4, <2>5
<1> QED
  BY <1>3, <1>4, FilesFacts

-----------------------------------------------------------------------------
(* The worker's side of the invariant. *)

\* Nothing happens to the worker, nor to the one who reads from it.
LEMMA QuietPipe ==
  ASSUME PipeInv, UNCHANGED <<lock, worker, commands, serving, output, spoiled>>,
         overlapped \subseteq overlapped', lock # None => pc'[lock] = pc[lock]
  PROVE  PipeInv'
<1>1. Reading' = Reading /\ Alive' = Alive
  BY DEF Reading, Alive
<1> QED
  BY <1>1 DEF PipeInv, Piped, Idle, OwnOutput, Own

\* An idle worker, whoever has the lock without having sent a command.
LEMMA IdlePipe ==
  ASSUME ~Reading', Idle'
  PROVE  PipeInv'
  BY DEF PipeInv, Idle, OwnOutput

LEMMA StillPipe ==
  ASSUME PipeInv, UNCHANGED <<worker, commands, serving, output, spoiled>>,
         ~Reading, ~Reading'
  PROVE  PipeInv'
<1>1. Alive' = Alive
  BY DEF Alive
<1> QED
  BY <1>1 DEF PipeInv, Idle, OwnOutput

\* The holder of the lock in these steps.
LEMMA Holder ==
  ASSUME TypeOK, ThreadInv, NEW r \in Req
  PROVE  /\ r # None
         /\ pc[r] \in {"start", "send", "read"} => lock = r
         /\ lock = r => (Reading <=> pc[r] = "read")
         /\ lock = None => ~Reading
  BY ProxyAssumption DEF ProxyAssumption, ThreadInv, Threads, Reading

LEMMA FailFrees ==
  ASSUME TypeOK, ThreadInv, NEW r \in Req, Fail(r)
  PROVE  /\ lock = r => ~Reading'
         /\ lock # r => lock' = lock /\ (lock # None => pc'[lock] = pc[lock])
  BY DEF Fail, Goto, Reading, TypeOK

LEMMA FilesPipe ==
  ASSUME TypeOK, ThreadInv, PipeInv, NEW r \in Req, run(r) \/ WriteFile(r) \/ RemoveFile(r)
  PROVE  PipeInv'
<1>1. lock # r
  BY DEF run, WriteFile, RemoveFile, ThreadInv, Threads
<1>2. lock' = lock /\ (lock # None => pc'[lock] = pc[lock])
  BY <1>1, FailFrees DEF run, WriteFile, RemoveFile, Goto, TypeOK, thread
<1>3. /\ UNCHANGED <<worker, commands, serving, output, spoiled>>
      /\ overlapped \subseteq overlapped'
  BY DEF run, WriteFile, RemoveFile, process, history
<1> QED
  BY <1>2, <1>3, QuietPipe

LEMMA StartPipe ==
  ASSUME TypeOK, ThreadInv, PipeInv, NEW r \in Req, Acquire(r) \/ _start_sgx_worker(r)
  PROVE  PipeInv'
<1>1. CASE Acquire(r)
  <2>1. ~Reading
    BY <1>1, Holder DEF Acquire
  <2>2. ~Reading'
    BY <1>1 DEF Acquire, Goto, Reading, TypeOK
  <2> QED
    BY <1>1, <2>1, <2>2, StillPipe DEF Acquire, process, history
<1>2. CASE _start_sgx_worker(r)
  <2>1. lock = r /\ ~Reading
    BY <1>2, Holder DEF _start_sgx_worker
  <2>2. ~Reading'
    BY <1>2, <2>1, FailFrees DEF _start_sgx_worker, Goto, Reading, TypeOK
  <2>3. CASE UNCHANGED process /\ UNCHANGED spoiled
    BY <2>1, <2>2, <2>3, StillPipe DEF process
  <2>4. CASE /\ commands' = <<>> /\ serving' = None
             /\ output' \in {NewPipe, Append(NewPipe, StartupLine)}
    <3>1. output' \in {<<>>, Append(<<>>, StartupLine)}
      BY <2>4 DEF NewPipe
    <3>2. Silent(output')
      BY <3>1 DEF Silent
    <3> QED
      BY <2>2, <2>4, <3>2, IdlePipe DEF Idle, Silent
  <2> QED
    BY <1>2, <2>3, <2>4 DEF _start_sgx_worker
<1> QED
  BY <1>1, <1>2

LEMMA SendPipe ==
  ASSUME TypeOK, ThreadInv, PipeInv, NEW r \in Req, Send(r)
  PROVE  PipeInv'
<1>1. lock = r /\ ~Reading /\ r # None
  BY Holder DEF Send
<1>2. UNCHANGED <<worker, serving, output, spoiled>>
  BY DEF Send, history
<1>3. CASE ~Alive
  <2>1. UNCHANGED commands /\ Fail(r)
    BY <1>3 DEF Send
  <2> QED
    BY <1>1, <1>2, <2>1, FailFrees, StillPipe
<1>4. CASE Alive
  <2>1. commands' = Append(commands, r) /\ lock' = r /\ pc' = [pc EXCEPT ![r] = "read"]
    BY <1>1, <1>4 DEF Send, Goto
  <2>2. Reading' /\ Alive'
    BY <1>1, <1>2, <1>4, <2>1 DEF Reading, Alive, TypeOK
  <2>3. ASSUME ~spoiled PROVE commands' = <<r>> /\ serving = None /\ Silent(output)
    <3>1. Idle
      BY <1>1, <2>3 DEF PipeInv
    <3> QED
      BY <2>1, <3>1 DEF Idle
  <2>4. ~spoiled => Piped'
    BY <1>2, <2>1, <2>3 DEF Piped, Silent, StartupLine
  <2>5. OwnOutput'
    BY <1>2, <2>3 DEF OwnOutput, Own, Silent, StartupLine
  <2> QED
    BY <1>2, <2>2, <2>4, <2>5 DEF PipeInv
<1> QED
  BY <1>3, <1>4

\* The reader takes a line; with the last one the worker is idle.
LEMMA ReadLinePipe ==
  ASSUME TypeOK, ThreadInv, PipeInv, NEW r \in Req, ReadLine(r)
  PROVE  PipeInv'
<1>1. lock = r /\ Reading /\ r # None
  BY Holder DEF ReadLine
<1>2. /\ output # <<>> /\ output' = Tail(output)
      /\ UNCHANGED <<worker, commands, serving, overlapped, spoiled>>
  BY DEF ReadLine
<1>3. Alive' = Alive
  BY <1>2 DEF Alive
<1>4. output \in Seq(Line)
  BY DEF TypeOK
<1>5. /\ Len(output) \in Nat \ {0} /\ DOMAIN output = 1 .. Len(output)
      /\ Len(output') = Len(output) - 1 /\ DOMAIN output' = 1 .. Len(output) - 1
      /\ \A i \in DOMAIN output' : i + 1 \in DOMAIN output /\ output'[i] = output[i + 1]
  BY <1>2, <1>4
<1>6. CASE LastLine(Head(output))
  <2>1. ~Reading'
    BY <1>6 DEF ReadLine, Reading
  <2>2. ASSUME ~spoiled PROVE Idle'
    <3>1. Piped
      BY <1>1, <2>2 DEF PipeInv
    <3>2. output[1].kind = "end" /\ 1 \in DOMAIN output
      BY <1>2, <1>4, <1>5, <1>6 DEF LastLine
    <3>3. 1 = Len(output) /\ commands = <<>> /\ serving = None
      BY <3>1, <3>2 DEF Piped
    <3>4. output' = <<>>
      BY <1>2, <1>4, <3>3
    <3> QED
      BY <1>2, <3>3, <3>4 DEF Idle, Silent
  <2> QED
    BY <1>2, <1>3, <2>1, <2>2 DEF PipeInv, OwnOutput
<1>7. CASE ~LastLine(Head(output))
  <2>1. UNCHANGED <<pc, lock>>
    BY <1>7 DEF ReadLine
  <2>2. Reading'
    BY <1>1, <2>1 DEF Reading
  <2>3. ASSUME ~spoiled PROVE Piped'
    <3>1. Piped
      BY <1>1, <2>3 DEF PipeInv
    <3>2. Silent(output) => Silent(output')
      BY <1>5 DEF Silent
    <3>3. ASSUME NEW i \in DOMAIN output', output'[i].kind = "end"
          PROVE  i = Len(output') /\ commands = <<>> /\ serving = None
      <4>1. i + 1 = Len(output) /\ commands = <<>> /\ serving = None
        BY <1>5, <3>1, <3>3 DEF Piped
      <4> QED
        BY <1>5, <4>1
    <3> QED
      BY <1>2, <2>1, <3>1, <3>2, <3>3 DEF Piped
  <2>4. OwnOutput'
    BY <1>1, <1>2, <1>5, <2>1 DEF PipeInv, OwnOutput, Own
  <2> QED
    BY <1>2, <1>3, <2>2, <2>3, <2>4 DEF PipeInv
<1> QED
  BY <1>6, <1>7

LEMMA ReadEndsPipe ==
  ASSUME TypeOK, ThreadInv, PipeInv, NEW r \in Req, ReadEOF(r) \/ ReadFails(r)
  PROVE  PipeInv'
<1>1. lock = r /\ Fail(r)
  BY Holder DEF ReadEOF, ReadFails
<1>2. ~Reading'
  BY <1>1, FailFrees
<1>3. CASE ReadEOF(r)
  <2>1. Idle'
    BY <1>3 DEF ReadEOF, EndOfOutput, PipeInv, Idle, Silent, process
  <2> QED
    BY <1>2, <2>1, IdlePipe
<1>4. CASE ReadFails(r)
  <2>1. spoiled' /\ UNCHANGED <<worker, commands, serving>>
    BY <1>4 DEF ReadFails
  <2> QED
    BY <1>2, <2>1 DEF PipeInv, OwnOutput, Alive
<1> QED
  BY <1>3, <1>4

\* What the worker answers to a request that overlaps no other is the request's own: only
\* the files of that request are there.
LEMMA OwnFiles ==
  ASSUME TypeOK, ThreadInv, NEW r \in Req, pc[r] = "read", r \notin overlapped,
         NEW q \in Req, Whole(q)
  PROVE  q = r
<1>1. r \in InProgress /\ InProgress = {r}
  BY DEF ThreadInv, OverlapsKnown, InProgress
<1>2. PICK n \in File \ {FunctionKeyFile} : TRUE
  BY ProxyAssumption DEF ProxyAssumption
<1>3. file[n] = q /\ q # None
  BY ProxyAssumption DEF Whole, ProxyAssumption
<1>4. q \in InProgress
  BY <1>3 DEF ThreadInv, Owned
<1> QED
  BY <1>1, <1>4

LEMMA WorkerPipe ==
  ASSUME TypeOK, ThreadInv, PipeInv, BeginResponse \/ EndResponse \/ Crash
  PROVE  PipeInv'
<1>1. UNCHANGED <<lock, pc, overlapped, spoiled>>
  BY DEF BeginResponse, EndResponse, Crash, thread, history
<1>2. Reading' = Reading
  BY <1>1 DEF Reading
<1>3. Alive
  BY DEF BeginResponse, EndResponse, Crash
<1>4. CASE Crash
  <2>1. commands' = <<>> /\ serving' = None /\ UNCHANGED output
    BY <1>4 DEF Crash
  <2> QED
    BY <1>1, <1>2, <2>1 DEF PipeInv, Piped, Idle, OwnOutput, Own
<1>5. CASE BeginResponse
  <2>1. /\ serving = None /\ commands # <<>> /\ serving' = Head(commands)
        /\ commands' = Tail(commands) /\ UNCHANGED worker
        /\ output' = Append(output, [kind |-> "begin", of |-> None])
    BY <1>5 DEF BeginResponse
  <2>2. Alive'
    BY <1>3, <2>1 DEF Alive
  <2>3. ASSUME ~spoiled
        PROVE  /\ Reading /\ serving' = lock /\ commands' = <<>>
               /\ \A i \in DOMAIN output' : output'[i].kind # "end" /\ output'[i].of = None
    <3>1. Reading /\ Piped
      BY <2>1, <2>3 DEF PipeInv, Idle
    <3>2. commands = <<lock>> /\ Silent(output)
      BY <2>1, <3>1 DEF Piped
    <3>3. output \in Seq(Line)
      BY DEF TypeOK
    <3>4. \A i \in DOMAIN output' :
            output'[i] = IF i \in DOMAIN output THEN output[i] ELSE [kind |-> "begin", of |-> None]
      BY <2>1, <3>3
    <3>5. \A i \in DOMAIN output' : output'[i].kind # "end" /\ output'[i].of = None
      BY <3>2, <3>4 DEF Silent, StartupLine
    <3> QED
      BY <2>1, <3>1, <3>2, <3>5
  <2>4. ~spoiled => Piped'
    BY <1>1, <2>3 DEF Piped
  <2>5. OwnOutput'
    BY <1>1, <2>3 DEF OwnOutput, Own
  <2> QED
    BY <1>1, <1>2, <2>2, <2>3, <2>4, <2>5 DEF PipeInv
<1>6. CASE EndResponse
  <2>1. PICK of \in {q \in Req : Whole(q)} \cup {None} :
          output' = output \o <<[kind |-> "body", of |-> of], [kind |-> "end", of |-> None]>>
    BY <1>6 DEF EndResponse
  <2>2. serving # None /\ serving' = None /\ UNCHANGED <<worker, commands>>
    BY <1>6 DEF EndResponse
  <2>3. Alive'
    BY <1>3, <2>2 DEF Alive
  <2>4. output \in Seq(Line) /\ Len(output) \in Nat /\ DOMAIN output = 1 .. Len(output)
    BY DEF TypeOK
  <2>5. /\ DOMAIN output' = 1 .. Len(output) + 2 /\ Len(output') = Len(output) + 2
        /\ \A i \in DOMAIN output : output'[i] = output[i]
        /\ output'[Len(output) + 1] = [kind |-> "body", of |-> of]
        /\ output'[Len(output) + 2] = [kind |-> "end", of |-> None]
    BY <2>1, <2>4
  <2>6. ASSUME ~spoiled PROVE Reading /\ Piped /\ serving = lock /\ commands = <<>>
    BY <2>2, <2>6 DEF PipeInv, Piped, Idle
  <2>7. ASSUME ~spoiled PROVE Piped'
    <3>1. \A i \in DOMAIN output : output[i].kind # "end"
      BY <2>2, <2>6, <2>7 DEF Piped
    <3>2. \A i \in DOMAIN output' : output'[i].kind = "end" => i = Len(output')
      BY <2>4, <2>5, <3>1
    <3> QED
      BY <1>1, <2>2, <2>6, <2>7, <3>2 DEF Piped
  <2>8. OwnOutput'
    <3> SUFFICES ASSUME ~spoiled, lock \notin overlapped PROVE Own(output', lock)
      BY <1>1 DEF OwnOutput
    <3>1. Reading /\ Own(output, lock)
      BY <2>6 DEF PipeInv, OwnOutput
    <3>2. lock \in Req /\ pc[lock] = "read"
      BY <3>1 DEF Reading, TypeOK
    <3>3. of \in {None, lock}
      BY <3>2, OwnFiles
    <3> QED
      BY <2>4, <2>5, <3>1, <3>3 DEF Own
  <2> QED
    BY <1>1, <1>2, <2>3, <2>6, <2>7, <2>8 DEF PipeInv
<1> QED
  BY <1>4, <1>5, <1>6

-----------------------------------------------------------------------------
(* The other steps of a thread, and types. *)

LEMMA ReadLineThreads ==
  ASSUME TypeOK, ThreadInv, PipeInv, NEW r \in Req, ReadLine(r)
  PROVE  ThreadInv'
<1> DEFINE x == Head(output)
           lines == Append(heard[r], x)
<1>1. /\ pc[r] = "read" /\ output # <<>>
      /\ tainted' = IF spoiled THEN tainted \cup {r} ELSE tainted
      /\ UNCHANGED <<file, overlapped>>
  BY DEF ReadLine, Taint
<1>2. lock = r /\ Reading
  BY <1>1, Holder
<1>3. x \in Line /\ heard[r] \in Seq(Line) /\ lines \in Seq(Line)
  BY <1>1 DEF TypeOK
<1>4. Bodies(lines) # {} => \E j \in Bodies(lines) : \A k \in Bodies(lines) : k <= j
  BY <1>3, LastBody DEF ThreadInv, LastBodyExists
<1>5. ASSUME r \notin overlapped \cup tainted' PROVE Own(lines, r)
  <2>1. Own(heard[r], r)
    BY <1>1, <1>5 DEF ThreadInv, Heard
  <2>2. x.of \in {None, r}
    <3>1. ~spoiled
      BY <1>1, <1>5
    <3>2. Own(output, r)
      BY <1>2, <1>5, <3>1 DEF PipeInv, OwnOutput
    <3>3. x = output[1] /\ 1 \in DOMAIN output
      BY <1>1 DEF TypeOK
    <3> QED
      BY <3>2, <3>3 DEF Own
  <2> QED
    BY <1>3, <2>1, <2>2 DEF Own
<1>6. CASE ~LastLine(x)
  <2>1. /\ heard' = [heard EXCEPT ![r] = lines]
        /\ UNCHANGED <<pc, pos, lock, answer>>
    BY <1>6 DEF ReadLine
  <2>2. InProgress' = InProgress
    BY <2>1 DEF InProgress
  <2>3. Threads' /\ Owned' /\ OverlapsKnown'
    BY <1>1, <2>1, <2>2 DEF ThreadInv, Threads, Owned, OverlapsKnown, TypeOK
  <2>4. \A q \in Req : heard'[q] = IF q = r THEN lines ELSE heard[q]
    BY <2>1 DEF TypeOK
  <2>5. Heard'
    BY <1>1, <1>5, <2>4 DEF ThreadInv, Heard
  <2>6. LastBodyExists'
    BY <1>4, <2>4 DEF ThreadInv, LastBodyExists
  <2>7. OwnAnswer'
    BY <1>1, <2>1 DEF ThreadInv, OwnAnswer
  <2> QED
    BY <2>3, <2>5, <2>6, <2>7 DEF ThreadInv
<1>7. CASE LastLine(x)
  <2> DEFINE of == _parse_worker_response(lines)
             a == IF of = None THEN "error" ELSE of
  <2>1. /\ heard' = [heard EXCEPT ![r] = <<>>] /\ lock' = None
        /\ answer' = [answer EXCEPT ![r] = a]
        /\ pc' = [pc EXCEPT ![r] = "remove"] /\ pos' = [pos EXCEPT ![r] = 1]
    BY <1>7 DEF ReadLine, Goto
  <2>2. of = None \/ \E j \in DOMAIN lines : of = lines[j].of
    BY <1>3, <1>4, Parsed
  <2>3. r \notin overlapped \cup tainted' => a \in {"error", r}
    BY <1>5, <2>2 DEF Own
  <2> HIDE DEF a
  <2> QED
    BY <1>1, <1>2, <2>1, <2>3, LeaveThreads
<1> QED
  BY <1>6, <1>7

LEMMA OtherThreads ==
  ASSUME TypeOK, ThreadInv, UNCHANGED <<file, lock, thread, overlapped, tainted>>
  PROVE  ThreadInv'
<1>1. UNCHANGED <<pc, pos, heard, answer>> /\ UNCHANGED <<file, lock, overlapped, tainted>>
  BY DEF thread
<1>2. InProgress' = InProgress
  BY <1>1 DEF InProgress
<1>3. Threads' /\ Owned' /\ OverlapsKnown'
  BY <1>1, <1>2 DEF ThreadInv, Threads, Owned, OverlapsKnown
<1>4. Heard' /\ LastBodyExists'
  BY <1>1 DEF ThreadInv, Heard, LastBodyExists, Bodies
<1>5. OwnAnswer'
  BY <1>1 DEF ThreadInv, OwnAnswer
<1> QED
  BY <1>3, <1>4, <1>5 DEF ThreadInv

LEMMA ThreadStepThreads ==
  ASSUME TypeOK, ThreadInv, PipeInv, NEW r \in Req, ThreadStep(r)
  PROVE  ThreadInv'
<1>1. CASE Acquire(r)
  BY <1>1, MoveThreads DEF Acquire, Goto, history
<1>2. CASE _start_sgx_worker(r)
  <2>1. lock = r /\ pc[r] = "start" /\ UNCHANGED <<overlapped, tainted>>
    BY <1>2, Holder DEF _start_sgx_worker
  <2>2. CASE Fail(r)
    BY <2>1, <2>2, FailThreads
  <2>3. CASE ~Fail(r)
    <3>1. pc' = [pc EXCEPT ![r] = "send"] /\ UNCHANGED <<file, lock, pos, heard, answer>>
      BY <1>2, <2>3 DEF _start_sgx_worker, Goto
    <3> QED
      BY <2>1, <3>1, MoveThreads
  <2> QED
    BY <2>2, <2>3
<1>3. CASE Send(r)
  <2>1. lock = r /\ pc[r] = "send" /\ UNCHANGED <<overlapped, tainted>>
    BY <1>3, Holder DEF Send, history
  <2>2. CASE Fail(r)
    BY <2>1, <2>2, FailThreads
  <2>3. CASE ~Fail(r)
    <3>1. pc' = [pc EXCEPT ![r] = "read"] /\ UNCHANGED <<file, lock, pos, heard, answer>>
      BY <1>3, <2>3 DEF Send, Goto
    <3> QED
      BY <2>1, <3>1, MoveThreads
  <2> QED
    BY <2>2, <2>3
<1>4. CASE ReadEOF(r)
  BY <1>4, FailThreads DEF ReadEOF, history
<1>5. CASE ReadFails(r)
  BY <1>5, FailThreads DEF ReadFails
<1> QED
  BY <1>1, <1>2, <1>3, <1>4, <1>5, WriteFileThreads, RemoveFileThreads, ReadLineThreads
  DEF ThreadStep

LEMMA FailTypes ==
  ASSUME TypeOK, NEW r \in Req, Fail(r)
  PROVE  /\ file' \in [File -> Req \cup {None}]
         /\ pc' \in [Req -> {"new", "write", "wait", "start", "send", "read", "remove", "done"}]
         /\ pos' \in [Req -> 1 .. Len(Files) + 1]
         /\ lock' \in Req \cup {None}
         /\ heard' \in [Req -> Seq(Line)]
         /\ answer' \in [Req -> Req \cup {None, "error"}]
<1>1. 1 \in 1 .. Len(Files) + 1
  BY FilesFacts
<1> QED
  BY <1>1 DEF Fail, Goto, TypeOK

LEMMA FilesTypes ==
  ASSUME TypeOK, ThreadInv, NEW r \in Req, run(r) \/ WriteFile(r) \/ RemoveFile(r)
  PROVE  TypeOK'
<1>1. CASE run(r)
  BY <1>1 DEF run, Goto, TypeOK, process, thread, InProgress
<1>2. ASSUME pos[r] <= Len(Files)
      PROVE  Files[pos[r]] \in File /\ pos[r] + 1 \in 1 .. Len(Files) + 1
  BY <1>2, FilesFacts DEF TypeOK, File
<1>3. CASE WriteFile(r)
  <2>1. pos[r] <= Len(Files) /\ UNCHANGED <<process, history>>
    BY <1>3 DEF WriteFile, ThreadInv, Threads
  <2>2. CASE Fail(r)
    BY <2>1, <2>2, FailTypes DEF TypeOK, process, history
  <2>3. CASE ~Fail(r)
    <3>1. /\ file' = [file EXCEPT ![Files[pos[r]]] = r]
          /\ pos' = [pos EXCEPT ![r] = @ + 1]
          /\ pc' = [pc EXCEPT ![r] = "wait"] \/ pc' = pc
          /\ UNCHANGED <<lock, heard, answer>>
      BY <1>3, <2>3 DEF WriteFile, Goto
    <3>2. UNCHANGED <<worker, commands, serving, output>>
          /\ UNCHANGED <<overlapped, spoils, spoiled, tainted>>
      BY <2>1 DEF process, history
    <3>3. file' \in [File -> Req \cup {None}]
      BY <3>1 DEF TypeOK
    <3>4. pos' \in [Req -> 1 .. Len(Files) + 1]
      BY <1>2, <2>1, <3>1 DEF TypeOK
    <3>5. pc' \in [Req -> {"new", "write", "wait", "start", "send", "read", "remove", "done"}]
      BY <3>1 DEF TypeOK
    <3> QED
      BY <3>1, <3>2, <3>3, <3>4, <3>5 DEF TypeOK
  <2> QED
    BY <2>2, <2>3
<1>4. CASE RemoveFile(r)
  BY <1>2, <1>4 DEF RemoveFile, Goto, TypeOK, process, history
<1> QED
  BY <1>1, <1>3, <1>4

LEMMA WorkerTypes ==
  ASSUME TypeOK, ThreadInv, NEW r \in Req, Acquire(r) \/ _start_sgx_worker(r) \/ Send(r)
  PROVE  TypeOK'
<1>1. CASE Acquire(r)
  BY <1>1 DEF Acquire, Goto, TypeOK, process, history
<1>2. CASE _start_sgx_worker(r)
  <2>1. requested_profile(r) \in Profile
    <3>1. ProfileOf[r] \in Profile \cup {None}
      BY ProxyAssumption
    <3> QED
      BY <3>1, ProxyAssumption DEF requested_profile
  <2>2. UNCHANGED <<overlapped, spoils, tainted>>
    BY <1>2 DEF _start_sgx_worker
  <2>3. /\ worker' \in [profile : Profile, alive : BOOLEAN] \cup {None}
        /\ commands' \in Seq(Req) /\ serving' \in Req \cup {None} /\ output' \in Seq(Line)
        /\ spoiled' \in BOOLEAN
    <3>1. CASE UNCHANGED <<process, spoiled>>
      BY <3>1 DEF TypeOK, process
    <3>2. CASE /\ commands' = <<>> /\ serving' = None /\ spoiled' = FALSE
               /\ output' \in {NewPipe, Append(NewPipe, StartupLine)}
               /\ \/ worker' = [profile |-> requested_profile(r), alive |-> TRUE]
                  \/ worker' \in {None, [profile |-> requested_profile(r), alive |-> FALSE]}
      <4> DEFINE started(b) == [profile |-> requested_profile(r), alive |-> b]
      <4>1. started(TRUE) \in [profile : Profile, alive : BOOLEAN]
        BY <2>1
      <4>2. started(FALSE) \in [profile : Profile, alive : BOOLEAN]
        BY <2>1
      <4>3. worker' \in {None, started(TRUE), started(FALSE)}
        BY <3>2
      <4> HIDE DEF started
      <4>4. worker' \in [profile : Profile, alive : BOOLEAN] \cup {None}
        BY <4>1, <4>2, <4>3
      <4>5. commands' = <<>> /\ serving' = None /\ spoiled' = FALSE
        BY <3>2
      <4>6. output' \in {<<>>, Append(<<>>, StartupLine)} /\ StartupLine \in Line
        <5>1. output' \in {<<>>, Append(<<>>, StartupLine)}
          BY <3>2 DEF NewPipe
        <5> QED
          BY <5>1 DEF StartupLine, Line
      <4>7. commands' \in Seq(Req) /\ output' \in Seq(Line)
        <5>1. commands' \in Seq(Req)
          BY <4>5
        <5>2. <<>> \in Seq(Line) /\ \A x \in Line : Append(<<>>, x) \in Seq(Line)
          OBVIOUS
        <5>3. output' \in Seq(Line)
          BY <4>6, <5>2
        <5> QED
          BY <5>1, <5>3
      <4> QED
        BY <4>4, <4>5, <4>7
    <3> QED
      BY <1>2, <3>1, <3>2 DEF _start_sgx_worker
  <2>4. CASE Fail(r)
    BY <2>2, <2>3, <2>4, FailTypes DEF TypeOK
  <2>5. CASE ~Fail(r)
    <3>1. pc' = [pc EXCEPT ![r] = "send"] /\ UNCHANGED <<file, lock, pos, heard, answer>>
      BY <1>2, <2>5 DEF _start_sgx_worker, Goto
    <3> QED
      BY <2>2, <2>3, <3>1 DEF TypeOK
  <2> QED
    BY <2>4, <2>5
<1>3. CASE Send(r)
  <2>1. commands' \in Seq(Req) /\ UNCHANGED <<worker, serving, output, history>>
    <3>1. commands' = Append(commands, r) \/ commands' = commands
      BY <1>3 DEF Send
    <3>2. commands \in Seq(Req)
      BY DEF TypeOK
    <3>3. commands' \in Seq(Req)
      BY <3>1, <3>2
    <3>4. UNCHANGED <<worker, serving, output, history>>
      BY <1>3 DEF Send
    <3> QED
      BY <3>3, <3>4
  <2>2. CASE Fail(r)
    BY <2>1, <2>2, FailTypes DEF TypeOK, history
  <2>3. CASE ~Fail(r)
    <3>1. pc' = [pc EXCEPT ![r] = "read"] /\ UNCHANGED <<file, lock, pos, heard, answer>>
      BY <1>3, <2>3 DEF Send, Goto
    <3> QED
      BY <2>1, <3>1 DEF TypeOK, history
  <2> QED
    BY <2>2, <2>3
<1> QED
  BY <1>1, <1>2, <1>3

LEMMA ReadTypes ==
  ASSUME TypeOK, ThreadInv, NEW r \in Req, ReadLine(r) \/ ReadEOF(r) \/ ReadFails(r)
  PROVE  TypeOK'
<1>1. CASE ReadLine(r)
  <2> DEFINE lines == Append(heard[r], Head(output))
             of == _parse_worker_response(lines)
  <2>1. Head(output) \in Line /\ output' \in Seq(Line) /\ lines \in Seq(Line)
    BY <1>1 DEF ReadLine, TypeOK
  <2>2. /\ tainted' \subseteq Req
        /\ UNCHANGED <<file, worker, commands, serving, overlapped, spoils, spoiled>>
    BY <1>1 DEF ReadLine, Taint, TypeOK
  <2>3. CASE ~LastLine(Head(output))
    <3>1. heard' = [heard EXCEPT ![r] = lines] /\ UNCHANGED <<pc, pos, lock, answer>>
      BY <1>1, <2>3 DEF ReadLine
    <3>2. heard' \in [Req -> Seq(Line)]
      BY <2>1, <3>1 DEF TypeOK
    <3> QED
      BY <2>1, <2>2, <3>1, <3>2 DEF TypeOK
  <2>4. CASE LastLine(Head(output))
    <3>1. Bodies(lines) # {} => \E j \in Bodies(lines) : \A k \in Bodies(lines) : k <= j
      BY <2>1, LastBody DEF ThreadInv, LastBodyExists, TypeOK
    <3>2. of = None \/ \E j \in DOMAIN lines : of = lines[j].of
      BY <2>1, <3>1, Parsed
    <3>3. of \in Req \cup {None}
      <4>1. CASE of # None
        <5>1. PICK j \in DOMAIN lines : of = lines[j].of
          BY <3>2, <4>1
        <5>2. lines[j] \in Line
          BY <2>1, <5>1
        <5>3. lines[j].of \in Req \cup {None}
          BY <5>2 DEF Line
        <5> QED
          BY <5>1, <5>3
      <4> QED
        BY <4>1
    <3>4. /\ heard' = [heard EXCEPT ![r] = <<>>] /\ lock' = None
          /\ answer' = [answer EXCEPT ![r] = IF of = None THEN "error" ELSE of]
          /\ pc' = [pc EXCEPT ![r] = "remove"] /\ pos' = [pos EXCEPT ![r] = 1]
      BY <1>1, <2>4 DEF ReadLine, Goto
    <3>5. answer' \in [Req -> Req \cup {None, "error"}]
      BY <3>3, <3>4 DEF TypeOK
    <3>6. pos' \in [Req -> 1 .. Len(Files) + 1]
      BY <3>4, FilesFacts DEF TypeOK
    <3>7. heard' \in [Req -> Seq(Line)]
      BY <3>4 DEF TypeOK
    <3> QED
      BY <2>1, <2>2, <3>4, <3>5, <3>6, <3>7 DEF TypeOK
  <2> QED
    BY <2>3, <2>4
<1>2. CASE ReadEOF(r)
  BY <1>2, FailTypes DEF ReadEOF, TypeOK, process, history
<1>3. CASE ReadFails(r)
  <2>1. PICK n \in 1 .. Len(output) : output' = SubSeq(output, n + 1, Len(output))
    BY <1>3 DEF ReadFails
  <2>2. output' \in Seq(Line)
    BY <2>1 DEF TypeOK
  <2>3. spoils' \in 0 .. MaxSpoils
    BY <1>3, ProxyAssumption DEF ReadFails, TypeOK, ProxyAssumption
  <2> QED
    BY <1>3, <2>2, <2>3, FailTypes DEF ReadFails, TypeOK
<1> QED
  BY <1>1, <1>2, <1>3

LEMMA ProcessTypes ==
  ASSUME TypeOK, reset \/ Crash \/ WorkerStep
  PROVE  TypeOK'
<1>1. CASE reset
  <2>1. /\ worker' = None /\ serving' = None
        /\ UNCHANGED <<file, lock, overlapped, spoils, tainted>>
        /\ UNCHANGED <<pc, pos, heard, answer>>
    BY <1>1 DEF reset, Discard, thread
  <2>2. commands' = <<>> /\ output' = <<>>
    BY <1>1 DEF reset, Discard, NewPipe
  <2>3. commands' \in Seq(Req) /\ output' \in Seq(Line)
    BY <2>2
  <2>4. spoiled' \in BOOLEAN
    BY <1>1 DEF reset, Discard
  <2> QED
    BY <2>1, <2>3, <2>4 DEF TypeOK
<1>2. CASE Crash
  <2>1. /\ worker' = [worker EXCEPT !.alive = FALSE] /\ commands' = <<>> /\ serving' = None
        /\ UNCHANGED <<file, lock, output>> /\ UNCHANGED <<pc, pos, heard, answer>>
        /\ UNCHANGED <<overlapped, spoils, spoiled, tainted>>
    BY <1>2 DEF Crash, thread, history
  <2>2. worker \in [profile : Profile, alive : BOOLEAN]
    BY <1>2 DEF Crash, Alive, TypeOK
  <2>3. worker' \in [profile : Profile, alive : BOOLEAN]
    BY <2>1, <2>2
  <2> QED
    BY <2>1, <2>3 DEF TypeOK
<1>3. CASE BeginResponse
  <2>1. /\ serving' \in Req /\ commands' \in Seq(Req)
    BY <1>3 DEF BeginResponse, TypeOK
  <2>2. output' \in Seq(Line)
    BY <1>3 DEF BeginResponse, TypeOK, Line
  <2> QED
    BY <1>3, <2>1, <2>2 DEF BeginResponse, TypeOK, thread, history
<1>4. CASE EndResponse
  <2>1. PICK of \in {q \in Req : Whole(q)} \cup {None} :
          output' = output \o <<[kind |-> "body", of |-> of], [kind |-> "end", of |-> None]>>
    BY <1>4 DEF EndResponse
  <2>2. [kind |-> "body", of |-> of] \in Line /\ [kind |-> "end", of |-> None] \in Line
    BY DEF Line
  <2>3. output' \in Seq(Line)
    BY <2>1, <2>2 DEF TypeOK
  <2> QED
    BY <1>4, <2>3 DEF EndResponse, TypeOK, thread, history
<1> QED
  BY <1>1, <1>2, <1>3, <1>4 DEF WorkerStep

-----------------------------------------------------------------------------
(* The theorems. *)

LEMMA StepIInv == IInv /\ [Next]_vars => IInv'
<1> SUFFICES ASSUME IInv, [Next]_vars PROVE IInv'
  OBVIOUS
<1> USE DEF IInv
<1>1. ASSUME NEW r \in Req, run(r) PROVE IInv'
  BY <1>1, FilesTypes, RunThreads, FilesPipe
<1>2. ASSUME NEW r \in Req, ThreadStep(r) PROVE IInv'
  <2>1. ThreadInv'
    BY <1>2, ThreadStepThreads
  <2>2. TypeOK' /\ PipeInv'
    BY <1>2, FilesTypes, WorkerTypes, ReadTypes, FilesPipe, StartPipe, SendPipe, ReadLinePipe,
       ReadEndsPipe DEF ThreadStep
  <2> QED
    BY <2>1, <2>2
<1>3. CASE reset
  <2>1. ~Reading' /\ Idle'
    BY <1>3 DEF reset, Reading, Discard, NewPipe, Idle, Silent
  <2> QED
    BY <1>3, <2>1, ProcessTypes, OtherThreads, IdlePipe DEF reset
<1>4. CASE Crash \/ WorkerStep
  <2>1. UNCHANGED <<file, lock, thread, overlapped, tainted>>
    BY <1>4 DEF Crash, WorkerStep, BeginResponse, EndResponse, history
  <2> QED
    BY <1>4, <2>1, ProcessTypes, OtherThreads, WorkerPipe DEF WorkerStep
<1>5. CASE UNCHANGED vars
  <2>1. TypeOK'
    BY <1>5 DEF vars, process, thread, history, TypeOK
  <2>2. ThreadInv'
    BY <1>5, OtherThreads DEF vars, history
  <2>3. PipeInv'
    BY <1>5, QuietPipe DEF vars, process, thread, history
  <2> QED
    BY <2>1, <2>2, <2>3
<1> QED
  BY <1>1, <1>2, <1>3, <1>4, <1>5 DEF Next

\* The invariant: files have owners that will remove them, and one command at most is
\* on its way through the pipes, that of the holder of the lock.
THEOREM ProxyInvariance == Spec => []IInv
  BY InitIInv, StepIInv, PTL DEF Spec

\* Type correctness: what is parsed out of a response is a known request or an error.
THEOREM ProxyTypeCorrect == Spec => []TypeOK
<1>1. IInv => TypeOK
  BY DEF IInv
<1> QED
  BY ProxyInvariance, <1>1, PTL

\* A worker that lives is idle whenever the lock is free, unless a read has failed.
THEOREM WorkerLeftIdle == Spec => []WorkerIdle
<1>1. IInv => WorkerIdle
  BY DEF IInv, PipeInv, Reading, Idle, Silent, WorkerIdle
<1> QED
  BY ProxyInvariance, <1>1, PTL

\* No request leaves a file behind but the function key, however many overlap.
THEOREM NoFileLeft == Spec => []FilesRemoved
<1>1. IInv => FilesRemoved
  BY DEF IInv, ThreadInv, Owned, FilesRemoved
<1> QED
  BY ProxyInvariance, <1>1, PTL

\* A request that overlapped no other is answered with its own result or an error, unless
\* it read what a failed read had left in the pipe of the worker.
THEOREM AnsweredItsOwn == Spec => []OwnAnswer
<1>1. IInv => OwnAnswer
  BY DEF IInv, ThreadInv
<1> QED
  BY ProxyInvariance, <1>1, PTL
=============================================================================
