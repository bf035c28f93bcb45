------------------------------- MODULE Shell -------------------------------
(***************************************************************************)
(* The shell with one pipe, 12_homework/3/main.c; a line without a pipe is *)
(* also all of 10_homework/3/main.c.  What is kept of the commands is who  *)
(* is running and who holds an end of which pipe: a child starts with a    *)
(* copy of the shell's descriptors, and exec closes none of them.          *)
(*                                                                         *)
(* The commands are not this code.  The left one writes and ends, or is    *)
(* killed by SIGPIPE; the right one reads to the end of its input, or ends *)
(* when it likes; a command that cannot be executed ends at once.          *)
(***************************************************************************)
EXTENDS Naturals

CONSTANTS MaxLines,   \* bound: lines the user types
          PipeSize,   \* what a pipe holds
          Output      \* what a left command writes

VARIABLES
    pc,       \* the shell, by the call it is about to make
    line,     \* the lines read so far; the pipe of line k is pipe k
    holds,    \* the pipe ends each process has open
    state,    \* the children
    filled,   \* what is in each pipe
    written   \* how much each left command has written

vars == <<pc, line, holds, state, filled, written>>

Lines    == 1 .. MaxLines
Children == {"left", "right", "alone"} \X Lines
Me       == <<"shell", 0>>
Everyone == Children \cup {Me}
Ends     == {"read", "write"} \X Lines

TypeOK ==
    /\ pc \in {"prompt", "fork left", "fork right", "close", "wait left", "wait right",
               "fork", "wait", "exited"}
    /\ line \in 0 .. MaxLines
    /\ holds \in [Everyone -> SUBSET Ends]
    /\ state \in [Children -> {"none", "forked", "running", "zombie", "reaped"}]
    /\ filled \in [Lines -> 0 .. PipeSize]
    /\ written \in [Lines -> 0 .. Output]

Init ==
    /\ pc = "prompt" /\ line = 0
    /\ holds = [p \in Everyone |-> {}]
    /\ state = [c \in Children |-> "none"]
    /\ filled = [k \in Lines |-> 0]
    /\ written = [k \in Lines |-> 0]

Open(e)   == \E p \in Everyone : e \in holds[p]
Pipe(k)   == {<<"read", k>>, <<"write", k>>}

-------------------------------------------------------------------------
(* The shell.                                                            *)

\* A line that is neither empty nor exit; with a pipe sign pipe() may fail.
ReadLine ==
    /\ pc = "prompt" /\ line < MaxLines
    /\ line' = line + 1
    /\ \/ /\ holds' = [holds EXCEPT ![Me] = @ \cup Pipe(line')]
          /\ pc' = "fork left"
       \/ pc' = "prompt" /\ UNCHANGED holds
       \/ pc' = "fork" /\ UNCHANGED holds
    /\ UNCHANGED <<state, filled, written>>

\* "exit" or the end of the input; the kernel closes what is open.
Exit ==
    /\ pc = "prompt"
    /\ pc' = "exited"
    /\ holds' = [holds EXCEPT ![Me] = {}]
    /\ UNCHANGED <<line, state, filled, written>>

\* A fork of the shell: child c starts with a copy of its descriptors, or none starts
\* and the shell goes back to the prompt as it is.
Fork(c, l) ==
    /\ \/ /\ state' = [state EXCEPT ![c] = "forked"]
          /\ holds' = [holds EXCEPT ![c] = holds[Me]]
          /\ pc' = l
       \/ pc' = "prompt" /\ UNCHANGED <<state, holds>>
    /\ UNCHANGED <<line, filled, written>>

ForkLeft  == pc = "fork left" /\ Fork(<<"left", line>>, "fork right")
ForkRight == pc = "fork right" /\ Fork(<<"right", line>>, "close")
ForkAlone == pc = "fork" /\ Fork(<<"alone", line>>, "wait")

CloseEnds ==
    /\ pc = "close"
    /\ holds' = [holds EXCEPT ![Me] = @ \ Pipe(line)]
    /\ pc' = "wait left"
    /\ UNCHANGED <<line, state, filled, written>>

Reap(c, l) ==
    /\ state[c] = "zombie"
    /\ state' = [state EXCEPT ![c] = "reaped"]
    /\ pc' = l
    /\ UNCHANGED <<line, holds, filled, written>>

WaitLeft  == pc = "wait left" /\ Reap(<<"left", line>>, "wait right")
WaitRight == pc = "wait right" /\ Reap(<<"right", line>>, "prompt")
WaitAlone == pc = "wait" /\ Reap(<<"alone", line>>, "prompt")

-------------------------------------------------------------------------
(* A child up to exec.                                                   *)

\* execvp succeeds, or the child ends; either way the ends in closed are closed.
Exec(c, closed) ==
    /\ state[c] = "forked"
    /\ \/ /\ state' = [state EXCEPT ![c] = "running"]
          /\ holds' = [holds EXCEPT ![c] = @ \ closed]
       \/ /\ state' = [state EXCEPT ![c] = "zombie"]
          /\ holds' = [holds EXCEPT ![c] = {}]
    /\ UNCHANGED <<pc, line, filled, written>>

\* Mutant of LeftChild: close(fds[0]) is forgotten.
LeftChildKeeps(k) == Exec(<<"left", k>>, {})

\* fds[1] becomes its standard output, fds[0] is closed.
LeftChild(k) == Exec(<<"left", k>>, {<<"read", k>>})

\* Mutant of RightChild: close(fds[1]) is forgotten.
RightChildKeeps(k) == Exec(<<"right", k>>, {})

\* fds[0] becomes its standard input, fds[1] is closed.
RightChild(k) == Exec(<<"right", k>>, {<<"write", k>>})

AloneChild(k) == Exec(<<"alone", k>>, {})

-------------------------------------------------------------------------
(* The commands.                                                         *)

Ended(c) ==
    /\ state[c] = "running"
    /\ state' = [state EXCEPT ![c] = "zombie"]
    /\ holds' = [holds EXCEPT ![c] = {}]
    /\ UNCHANGED <<pc, line, filled, written>>

\* A write waits for room; nobody can read any more: SIGPIPE.
Write(k) ==
    /\ state[<<"left", k>>] = "running" /\ written[k] < Output
    /\ \/ /\ Open(<<"read", k>>) /\ filled[k] < PipeSize
          /\ filled' = [filled EXCEPT ![k] = @ + 1]
          /\ written' = [written EXCEPT ![k] = @ + 1]
          /\ UNCHANGED <<pc, line, holds, state>>
       \/ ~Open(<<"read", k>>) /\ Ended(<<"left", k>>)

LeftEnds(k) == written[k] = Output /\ Ended(<<"left", k>>)

Read(k) ==
    /\ state[<<"right", k>>] = "running" /\ filled[k] > 0
    /\ filled' = [filled EXCEPT ![k] = @ - 1]
    /\ UNCHANGED <<pc, line, holds, state, written>>

\* The end of the file: the pipe is empty and nobody can write to it.
EndOfFile(k) == filled[k] = 0 /\ ~Open(<<"write", k>>) /\ Ended(<<"right", k>>)

Quits(k) == Ended(<<"right", k>>)

AloneEnds(k) == Ended(<<"alone", k>>)

-------------------------------------------------------------------------
ShellStep ==
    \/ ForkLeft \/ ForkRight \/ ForkAlone \/ CloseEnds
    \/ WaitLeft \/ WaitRight \/ WaitAlone

ChildStep(k) ==
    \/ LeftChild(k) \/ RightChild(k) \/ AloneChild(k)
    \/ Write(k) \/ LeftEnds(k) \/ Read(k) \/ EndOfFile(k) \/ AloneEnds(k)

Next == ReadLine \/ Exit \/ ShellStep \/ \E k \in Lines : ChildStep(k) \/ Quits(k)

Spec == Init /\ [][Next]_vars

-------------------------------------------------------------------------
\* The shell comes back to its prompt after every line: the right command sees the end
\* of its input, and the left one a broken pipe when nobody reads, because the shell
\* and the children close the ends they do not use before anybody waits (main.c:76-101).
PromptReturns == pc # "prompt" ~> pc \in {"prompt", "exited"}

\* When the second fork of a line fails, its left command may block for ever on a pipe
\* whose reading end only the shell still holds, or children started after it
\* (main.c:84-88).  Once the shell has ended, no child is left blocked.
NobodyLeftOver ==
    pc = "exited" ~> \A c \in Children : state[c] \notin {"forked", "running"}
=========================================================================
