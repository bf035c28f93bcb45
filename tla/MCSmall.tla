------------------------------ MODULE MCSmall ------------------------------
(***************************************************************************)
(* The small programs, each on its own: which says the one that runs, and  *)
(* the others stay in an initial state.                                    *)
(***************************************************************************)
EXTENDS PhoneArray, Panel, TimeServer

CONSTANTS n1, n2, n3, Nodes, Null, Unused,    \* PhoneList
          MaxLines, PipeSize, Output,         \* Shell
          s1, s2, k1, k2, Servers, Clients, MaxObject,   \* SemShake, QueueShake
          t1, t2                              \* TimeServer

ASSUME ListAssumption  == Null \notin Nodes /\ Unused \notin Abonents /\ IsFiniteSet(Nodes)
ASSUME ShellAssumption == MaxLines \in Nat /\ PipeSize \in Nat /\ Output \in Nat
ASSUME ShakeAssumption == MaxObject \in Nat /\ Servers \cap Clients = {}

VARIABLES
    which,
    head, tail, lcount, prev, next, data, lopen,
    shpc, line, holds, state, filled, written,
    trpc, code,
    skind, spc, sname, smade, memory, value, sref, sgot, scrashed,
    qkind, qpc, qname, qmade, greetings, answers, removed, qref, qgot, qcrashed

List  == INSTANCE PhoneList WITH count <- lcount, open <- lopen
Sh    == INSTANCE Shell WITH pc <- shpc
Tree  == INSTANCE ProcTree WITH pc <- trpc
Sem   == INSTANCE SemShake WITH kind <- skind, pc <- spc, name <- sname, made <- smade,
                                ref <- sref, got <- sgot, crashed <- scrashed
Queue == INSTANCE QueueShake WITH kind <- qkind, pc <- qpc, name <- qname, made <- qmade,
                                  ref <- qref, got <- qgot, crashed <- qcrashed

MCNodes == {n1, n2, n3}
MCTels  == {1, 2}
\* Two abonents share a number.
MCAbonents == {[name |-> "a", tel |-> 1], [name |-> "b", tel |-> 1], [name |-> "c", tel |-> 2]}
MCServers  == {s1, s2}
MCClients  == {k1, k2}
MCThreads  == {t1, t2}
\* Longer than the window, shorter, without "." and empty.
MCListings == {<<"..", "directory", "file", ".", "directory">>, <<"..">>, <<>>}

Which == {"array", "list", "shell", "tree", "sem", "queue", "time", "panel"}

lvars  == <<head, tail, lcount, prev, next, data, lopen>>
shvars == <<shpc, line, holds, state, filled, written>>
trvars == <<trpc, code>>
svars  == <<skind, spc, sname, smade, memory, value, sref, sgot, scrashed>>
qvars  == <<qkind, qpc, qname, qmade, greetings, answers, removed, qref, qgot, qcrashed>>
all    == <<vars, lvars, shvars, trvars, svars, qvars, timeVars, panelVars>>

\* Where an initial state is a choice, only the program that runs makes it.  The two kinds
\* of memory in SemShake are interchangeable, so the kind of one server is fixed.
MCInit ==
    /\ which \in Which
    /\ Init /\ List!Init /\ Sh!Init /\ Tree!Init
    /\ Sem!Init   /\ skind[s1] = "posix"
                 /\ (which = "sem" \/ skind = [p \in Sem!Procs |-> "posix"])
    /\ Queue!Init /\ (which = "queue" \/ qkind = [p \in Queue!Procs |-> "posix"])
    /\ TimeInit  /\ (which = "time" \/ program = "per thread")
    /\ PanelInit
    /\ \/ which = "panel"
       \/ \A p \in Sides : depth[p] = 0 /\ items[p] = <<>>

\* Only the program that runs takes steps: v are the variables of the others.
Runs(w, step, v) == which = w /\ step /\ UNCHANGED <<which, v>>

ShellSteps(step) ==
    Runs("shell", step,
         <<vars, lvars, trvars, svars, qvars, timeVars, panelVars>>)

MCNext ==
    \/ Runs("array", Next,
            <<lvars, shvars, trvars, svars, qvars, timeVars, panelVars>>)
    \/ Runs("list", List!Next,
            <<vars, shvars, trvars, svars, qvars, timeVars, panelVars>>)
    \/ ShellSteps(Sh!Next)
    \/ Runs("tree", Tree!Next,
            <<vars, lvars, shvars, svars, qvars, timeVars, panelVars>>)
    \/ Runs("sem", Sem!Next,
            <<vars, lvars, shvars, trvars, qvars, timeVars, panelVars>>)
    \/ Runs("queue", Queue!Next,
            <<vars, lvars, shvars, trvars, svars, timeVars, panelVars>>)
    \/ Runs("time", TimeNext,
            <<vars, lvars, shvars, trvars, svars, qvars, panelVars>>)
    \/ Runs("panel", PanelNext,
            <<vars, lvars, shvars, trvars, svars, qvars, timeVars>>)

\* The shell and the commands are scheduled; users need not type anything.
MCFairness ==
    /\ WF_all(ShellSteps(Sh!ShellStep))
    /\ \A k \in Sh!Lines : WF_all(ShellSteps(Sh!ChildStep(k)))

MCSpec == MCInit /\ [][MCNext]_<<which, all>> /\ MCFairness

\* Each program keeps the types of its variables; the array never fills its last entry
\* and never counts one it has not written.
MCTypeOK ==
    /\ TypeOK /\ List!TypeOK /\ Sh!TypeOK /\ Tree!TypeOK
    /\ Sem!TypeOK /\ Queue!TypeOK /\ TimeTypeOK /\ PanelTypeOK

\* The list is well formed.
WellLinked == List!WellLinked

\* The list implements the phonebook.
ListIsBook == List!ListIsBook

\* The shell comes back to its prompt.
PromptReturns == Sh!PromptReturns

\* No command is blocked for ever once the shell has ended.
NobodyLeftOver == Sh!NobodyLeftOver

\* The root of the tree reports success only for all.
SuccessMeansAll == Tree!SuccessMeansAll

\* Both hand-shakes stay in step unless a server was killed, or a client of the
\* semaphores mixed the objects of two exchanges.
InStep == Sem!InStep /\ Queue!AnswersMatch
=============================================================================
