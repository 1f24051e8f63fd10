------------------------------- MODULE Sfish -------------------------------
(***************************************************************************)
(* The hw4 shell: the loop of main() between two prompts, executable() and *)
(* runPipeInput() with the processes they fork, the handlers of SIGCHLD,   *)
(* SIGINT and SIGTSTP, and the terminal that raises the last two.  The     *)
(* shell is the leader of the terminal's foreground group.                 *)
(*                                                                         *)
(* A line is the sequence of its words until the commands are cut from it: *)
(* from then on it is their sequence.                                      *)
(***************************************************************************)
EXTENDS SfishLine

CONSTANTS
    Lines,           \* the lines a user may enter, each a sequence of words
    Pids,            \* process ids of the children
    MAX_NUM_PGID,    \* size of the table pgid
    MaxLoose         \* bound on the interruptions of one session

ASSUME SfishAssumption ==
    /\ \A l \in Lines : l \in Seq(STRING)
    /\ Pids \subseteq Nat \ {0}
    /\ MAX_NUM_PGID \in Nat \ {0, 1, 2}
    /\ MaxLoose \in Nat

Shell == -1      \* the shell's process id, which is its group's too
Nobody == 0      \* an entry of pgid never written
Gone == -2       \* the number of a process that was reaped

VARIABLES
    pc,              \* where main() is
    words,           \* the tokens splitLineIntoArgs() returned
    line,            \* the commands left in them
    stage,           \* runPipeInput(): the command ptrFunc points at
    cpid,            \* the child last forked by executable() or the pipe loop
    kids,            \* state of every child
    grouped,         \* the children in a process group of their own
    chld,            \* SIGCHLD is pending for the shell
    blocked,         \* SIGCHLD is in the shell's signal mask
    inHandler,       \* sigchld_handler() is in waitpid(-1)
    atPid,           \* 1 for any value but 0: a process id, or -1
    pgid, idxPgid, totalPgid, redirFlag, pipeFlag,
    pipeLists,       \* fdPipeList and pipeFuncList
    numPipe,         \* how many pipes are in them
    out, inn,        \* what descriptors 1 and 0 of the shell are
    fds,             \* fd_out and fd_in of runPipeInput()
    loose,           \* history: interruptions of a running line so far
    raced            \* history: some setpgid() came after the child's exec

control == <<pc, words, line, stage, cpid>>
signals == <<chld, blocked, inHandler, atPid>>
table   == <<pgid, idxPgid, totalPgid>>
stdio   == <<redirFlag, pipeFlag, pipeLists, numPipe, out, inn, fds>>
procs   == <<kids, grouped>>
history == <<loose, raced>>
vars    == <<control, signals, table, stdio, procs, history>>

Ended == {"exited", "undefined", "overrun"}

\* Children the kernel still keeps for the shell.
Unreaped == {p \in Pids : kids[p] # "none"}
Fresh    == Pids \ Unreaped
NewPid   == CHOOSE p \in Fresh : \A q \in Fresh : p <= q

\* The kernel forgets a child; its number in the table means nobody from then
\* on, as a new process does not get it again at once.
Reaped(p) ==
    /\ kids' = [kids EXCEPT ![p] = "none"]
    /\ grouped' = grouped \ {p}
    /\ pgid' = [i \in DOMAIN pgid |-> IF pgid[i] = p THEN Gone ELSE pgid[i]]

\* The handler comes before the next step of main() when it can be delivered;
\* sigsuspend() lifts the block only while atPid is 0.
Deliverable == chld /\ (~blocked \/ (pc = "suspend" /\ atPid = 0))
At(l) == pc = l /\ ~inHandler
Runs(l) == At(l) /\ ~Deliverable

Init ==
    /\ pc = "prompt" /\ words = <<>> /\ line = <<>> /\ stage = 0 /\ cpid = Nobody
    /\ kids = [p \in Pids |-> "none"] /\ grouped = {}
    /\ chld = FALSE /\ blocked = FALSE /\ inHandler = FALSE
    /\ atPid = 0 /\ pgid = [i \in 0 .. MAX_NUM_PGID - 1 |-> Nobody]
    /\ idxPgid = 0 /\ totalPgid = 1
    /\ redirFlag = FALSE /\ pipeFlag = FALSE /\ pipeLists = "null" /\ numPipe = 0
    /\ out = "tty" /\ inn = "tty" /\ fds = <<"tty", "tty">>
    /\ loose = 0 /\ raced = FALSE

----------------------------------------------------------------------------
(* main()                                                                  *)

\* readline() and splitLineIntoArgs().  A line cut by ^C has left its flags
\* and its list of redirectors: their indices are applied to these tokens.  At
\* the end of the input readline() returns NULL and the loop asks it again.
ReadLine ==
    /\ Runs("prompt")
    /\ \E l \in Lines :
        /\ words' = l
        /\ pc' = IF redirFlag \/ pipeFlag THEN "undefined" ELSE "setup"
        /\ redirFlag' = (redirFlag \/ Range(l) \intersect (Redirectors \ {"|"}) # {})
        /\ pipeFlag' = (pipeFlag \/ "|" \in Range(l))
    /\ UNCHANGED <<line, stage, cpid, signals, table, pipeLists, numPipe, out, inn, fds,
                   procs, history>>

\* setRedirection() and setPipe() in the order of the redirectors, up to the
\* first that fails.
Redirect ==
    /\ out' = IF Done(words, {">"}) = {} THEN out ELSE "file"
    /\ inn' = IF Done(words, {"<"}) = {} THEN inn ELSE "file"
    /\ fds' = <<out', inn'>>
    /\ LET pipes == Cardinality(Done(words, Redirectors \ Files))
       IN  /\ numPipe' = numPipe + pipes
           /\ pipeLists' = IF numPipe = 0 /\ pipes > 0 THEN "live" ELSE pipeLists

\* What main() does with the commands: pipelines go to runPipeInput(), the
\* first word decides about a line of one.
Dispatch(commands) ==
    /\ line' = commands
    /\ pc' = IF pipeFlag THEN "fork_left"
             ELSE CASE KindOf(commands[1]) = "exit" -> "exited"
                    [] KindOf(commands[1]) = "program" -> "execute"
                    [] OTHER -> "final"

\* The same by line, computed once.
CommandsOf == [l \in Lines |-> changePipeInTokens(l)]
LeftOf == [l \in Lines |->
              LET left == removeRdrFromTokens(l)
              IN  [commands |-> changePipeInTokens(left.tokens),
                   walks |-> left.walks, lost |-> left.lost]]

\* tokens[] was read where nothing was written.
Unreadable == line' = <<>> /\ pc' = "undefined"

Setup ==
    /\ Runs("setup")
    /\ Redirect
    /\ words' = <<>> /\ stage' = 1
    /\ IF FirstBad(words) <= Len(words) THEN line' = <<>> /\ pc' = "final"
       ELSE IF ~redirFlag THEN Dispatch(CommandsOf[words])
       ELSE LET left == LeftOf[words]
            IN  \/ ~left.lost /\ Dispatch(left.commands)
                \/ (left.lost \/ left.walks) /\ Unreadable
    /\ UNCHANGED <<cpid, signals, table, redirFlag, pipeFlag, procs, history>>

\* The locals of a line are gone at the next prompt.
Forget == words' = <<>> /\ line' = <<>> /\ stage' = 0 /\ cpid' = Nobody /\ fds' = <<"tty", "tty">>

ClearPipe ==
    /\ pipeLists' = IF pipeFlag /\ pipeLists = "live" THEN "freed" ELSE pipeLists
    /\ numPipe' = IF pipeFlag THEN 0 ELSE numPipe

\* Mutant: Final restores descriptor 1 only.
Final_outOnly ==
    /\ Runs("final")
    /\ IF pipeFlag /\ pipeLists = "freed" THEN pc' = "undefined" ELSE pc' = "prompt"
    /\ ClearPipe
    /\ IF redirFlag \/ pipeFlag THEN out' = "tty" ELSE UNCHANGED out
    /\ redirFlag' = FALSE /\ pipeFlag' = FALSE
    /\ totalPgid' = 1
    /\ Forget
    /\ UNCHANGED <<inn, signals, pgid, idxPgid, procs, history>>

\* Mutant: totalPgid is not set back.
Final_keepsTotal ==
    /\ Runs("final")
    /\ IF pipeFlag /\ pipeLists = "freed" THEN pc' = "undefined" ELSE pc' = "prompt"
    /\ ClearPipe
    /\ IF redirFlag \/ pipeFlag THEN out' = "tty" /\ inn' = "tty"
       ELSE UNCHANGED <<out, inn>>
    /\ redirFlag' = FALSE /\ pipeFlag' = FALSE
    /\ Forget
    /\ UNCHANGED <<signals, table, procs, history>>

\* Final: the saved descriptors come back and clearPipe() frees the two lists,
\* which it never sets to NULL: the lists of an earlier line are freed again
\* when this one failed before its first setPipe().
Final ==
    /\ Runs("final")
    /\ IF pipeFlag /\ pipeLists = "freed" THEN pc' = "undefined" ELSE pc' = "prompt"
    /\ ClearPipe
    /\ IF redirFlag \/ pipeFlag THEN out' = "tty" /\ inn' = "tty"
       ELSE UNCHANGED <<out, inn>>
    /\ redirFlag' = FALSE /\ pipeFlag' = FALSE
    /\ totalPgid' = 1
    /\ Forget
    /\ UNCHANGED <<signals, pgid, idxPgid, procs, history>>

----------------------------------------------------------------------------
(* executable()                                                            *)

Forks ==
    /\ Fresh # {}
    /\ cpid' = NewPid
    /\ kids' = [kids EXCEPT ![NewPid] = "new"]
    /\ UNCHANGED grouped

\* Mutant: SIGCHLD is not blocked.
Execute_unblocked ==
    /\ Runs("execute")
    /\ pgid' = [pgid EXCEPT ![idxPgid] = Shell]
    /\ idxPgid' = idxPgid + 1
    /\ pc' = "fork"
    /\ UNCHANGED <<words, line, stage, cpid, signals, totalPgid, stdio, procs, history>>

\* pgid[idxPgid++] = getpid(), SIGCHLD blocked.
Execute ==
    /\ Runs("execute")
    /\ pgid' = [pgid EXCEPT ![idxPgid] = Shell]
    /\ idxPgid' = idxPgid + 1
    /\ blocked' = TRUE
    /\ pc' = "fork"
    /\ UNCHANGED <<words, line, stage, cpid, chld, inHandler, atPid, totalPgid, stdio, procs, history>>

Fork ==
    /\ Runs("fork")
    /\ Forks
    /\ pc' = "group"
    /\ UNCHANGED <<words, line, stage, signals, table, stdio, history>>

\* setpgid() is refused once the child has called execvp(): getpgid() is then
\* the shell's own group.
Group ==
    /\ Runs("group")
    /\ grouped' = IF kids[cpid] \in {"new", "failed"} THEN grouped \union {cpid}
                  ELSE grouped
    /\ raced' = (raced \/ cpid \notin grouped')
    /\ pgid' = [pgid EXCEPT ![idxPgid] = IF cpid \in grouped' THEN cpid ELSE Shell]
    /\ idxPgid' = idxPgid + 1
    /\ totalPgid' = totalPgid + 1
    /\ atPid' = 0
    /\ pc' = "suspend"
    /\ UNCHANGED <<words, line, stage, cpid, chld, blocked, inHandler, stdio, kids, loose>>

\* while(!atPid) sigsuspend() ends: the mask is restored, the index reset.
Resume ==
    /\ Runs("suspend") /\ atPid # 0
    /\ blocked' = FALSE
    /\ idxPgid' = 0
    /\ IF pipeFlag THEN pc' = "next" ELSE pc' = "final"
    /\ UNCHANGED <<words, line, stage, cpid, chld, inHandler, atPid, pgid, totalPgid, stdio,
                   procs, history>>

----------------------------------------------------------------------------
(* runPipeInput(): the commands are taken two at a time, the left one by a  *)
(* fork of its own, the right one by executable() or in the shell.          *)

\* Mutant: SIGCHLD is blocked while the left command runs.
ForkLeft_blocked ==
    /\ Runs("fork_left")
    /\ Forks
    /\ pc' = "wait_left"
    /\ blocked' = TRUE
    /\ UNCHANGED <<words, line, stage, chld, inHandler, atPid, table, stdio, history>>

ForkLeft ==
    /\ Runs("fork_left")
    /\ Forks
    /\ pc' = "wait_left"
    /\ UNCHANGED <<words, line, stage, signals, table, stdio, history>>

\* The turn of the loop; there are numPipe of them, whatever the commands are.
Turn == (stage + 1) \div 2
LastTurn == Turn = numPipe

\* After the wait descriptors 0 and 1 become the ends of pipes, and the right
\* command runs, if there is one; exit would free a pointer into the tokens.
TakeRight ==
    /\ inn' = "pipe"
    /\ out' = IF LastTurn THEN fds[1] ELSE "pipe"
    /\ pc' = IF stage >= Len(line) THEN "next"
             ELSE CASE KindOf(line[stage + 1]) = "builtin" -> "next"
                    [] KindOf(line[stage + 1]) = "exit" -> "undefined"
                    [] OTHER -> "execute"

\* Mutant: WNOHANG in place of WUNTRACED.
WaitLeft_noHang ==
    /\ At("wait_left")
    /\ IF kids[cpid] \in {"zombie", "failed"} THEN Reaped(cpid)
       ELSE ~Deliverable /\ UNCHANGED <<procs, pgid>>
    /\ TakeRight
    /\ UNCHANGED <<words, line, stage, cpid, signals, idxPgid, totalPgid, redirFlag, pipeFlag,
                   pipeLists, numPipe, fds, history>>

\* waitpid(pid, WUNTRACED) competes with the handler for the child; with
\* nothing left to wait for it returns at once.
WaitLeft ==
    /\ At("wait_left")
    /\ IF kids[cpid] \in {"zombie", "failed"} THEN Reaped(cpid)
       ELSE /\ ~Deliverable
            /\ kids[cpid] \in {"none", "stopped"}
            /\ UNCHANGED <<procs, pgid>>
    /\ TakeRight
    /\ UNCHANGED <<words, line, stage, cpid, signals, idxPgid, totalPgid, redirFlag, pipeFlag,
                   pipeLists, numPipe, fds, history>>

\* ptrFunc += 2, loop -= 1.  With four commands, or pipes an earlier line left
\* in numPipe, a turn reads past the end of pipeFuncList.
NextPair ==
    /\ Runs("next")
    /\ IF LastTurn THEN pc' = "final" /\ inn' = fds[2]
       ELSE /\ pc' = IF stage + 2 > Len(line) THEN "undefined" ELSE "fork_left"
            /\ UNCHANGED inn
    /\ stage' = stage + 2
    /\ UNCHANGED <<words, line, cpid, signals, table, redirFlag, pipeFlag, pipeLists, numPipe, out, fds,
                   procs, history>>

----------------------------------------------------------------------------
(* sigchld_handler(), with SIGCHLD blocked while it runs                   *)

EnterHandler ==
    /\ pc \notin Ended /\ ~inHandler /\ Deliverable
    /\ inHandler' = TRUE
    /\ chld' = FALSE
    /\ UNCHANGED <<control, blocked, atPid, table, stdio, procs, history>>

\* kill(pgid[0], SIGCONT) is to the shell itself, and to its whole group as long
\* as the table is empty.
Continued ==
    IF pgid[0] = Nobody THEN {p \in Pids \ grouped : kids[p] = "stopped"} ELSE {}

\* waitpid(-1, NULL, 0) takes one dead child, reports that there is no child,
\* or blocks; a stopped child does not end it.
ReapAny ==
    /\ inHandler /\ pc \notin Ended
    /\ \E dead \in {{p} : p \in {q \in Pids : kids[q] \in {"zombie", "failed"}}}
                   \union (IF Unreaped = {} THEN {{}} ELSE {}) :
        /\ kids' = [p \in Pids |-> IF p \in dead THEN "none"
                                   ELSE IF p \in Continued THEN "run" ELSE kids[p]]
        /\ grouped' = grouped \ dead
        /\ pgid' = [i \in DOMAIN pgid |-> IF pgid[i] \in dead THEN Gone ELSE pgid[i]]
    /\ chld' = (chld \/ Continued # {})
    /\ atPid' = 1
    /\ inHandler' = FALSE
    /\ UNCHANGED <<control, blocked, idxPgid, totalPgid, stdio, history>>

----------------------------------------------------------------------------
(* The children                                                            *)

Becomes(p, s) == kids' = [kids EXCEPT ![p] = s]

\* execvp(), or exit() after it failed ("failed" never executed a program).
Exec(p) ==
    /\ kids[p] = "new"
    /\ \/ Becomes(p, "run") /\ UNCHANGED chld
       \/ Becomes(p, "failed") /\ chld' = TRUE
    /\ UNCHANGED <<control, blocked, inHandler, atPid, table, stdio, grouped, history>>

\* In a pipeline a child may wait forever: for room in a pipe nobody reads yet,
\* or for the end of the pipe `ref`, whose writing end the shell keeps open.
InPipe(p) == p = cpid /\ Len(line) > 1 /\ (pc = "wait_left" \/ Len(line) > 2)

Exit(p) ==
    /\ kids[p] = "run"
    /\ \/ Becomes(p, "zombie") /\ chld' = TRUE
       \/ InPipe(p) /\ Becomes(p, "stuck") /\ UNCHANGED chld
    /\ UNCHANGED <<control, blocked, inHandler, atPid, table, stdio, grouped, history>>

\* A child outside the foreground group reads the terminal: SIGTTIN stops it.
ReadTerminal(p) ==
    /\ kids[p] = "run" /\ p \in grouped /\ inn = "tty"
    /\ loose < MaxLoose /\ loose' = loose + 1
    /\ Becomes(p, "stopped") /\ chld' = TRUE
    /\ UNCHANGED <<control, blocked, inHandler, atPid, table, stdio, grouped, raced>>

----------------------------------------------------------------------------
(* The terminal                                                            *)

\* The processes a ^C reaches: the foreground group, and what
\* sigint_handler() finds in the table.
Reached == {p \in Unreaped : p \notin grouped \/ \E i \in 1 .. totalPgid - 1 : pgid[i] = p}

\* SIGINT ends a program; a child still before execvp() has the shell's handler
\* and jumps to the prompt of a shell of its own.
Interrupted(p) ==
    IF p \notin Reached THEN kids[p]
    ELSE IF kids[p] \in {"run", "stuck"} THEN "zombie"
    ELSE IF kids[p] = "new" THEN "rogue" ELSE kids[p]

\* Mutant: the handler jumps without having signalled the table.
CtrlC_jumpsOnly ==
    /\ pc \notin Ended
    /\ IF pc = "prompt" THEN UNCHANGED loose ELSE loose < MaxLoose /\ loose' = loose + 1
    /\ kids' = [p \in Pids |-> IF p \in grouped THEN kids[p] ELSE Interrupted(p)]
    /\ chld' = (chld \/ \E p \in Pids : kids'[p] = "zombie" /\ kids[p] # "zombie")
    /\ pc' = "prompt" /\ Forget /\ blocked' = FALSE /\ inHandler' = FALSE
    /\ UNCHANGED <<atPid, table, redirFlag, pipeFlag, pipeLists, numPipe, out, inn, grouped, raced>>

\* Mutant: the loop over the table begins at 0.
CtrlC_fromZero ==
    /\ pc \notin Ended
    /\ IF pc = "prompt" THEN UNCHANGED loose ELSE loose < MaxLoose /\ loose' = loose + 1
    /\ kids' = [p \in Pids |-> Interrupted(p)]
    /\ chld' = (chld \/ \E p \in Pids : kids'[p] = "zombie" /\ kids[p] # "zombie")
    /\ IF \E i \in 0 .. totalPgid - 1 : pgid[i] \in {Shell, Nobody}
       THEN pc' = "overrun" /\ UNCHANGED <<words, line, stage, cpid, fds, blocked, inHandler>>
       ELSE pc' = "prompt" /\ Forget /\ blocked' = FALSE /\ inHandler' = FALSE
    /\ UNCHANGED <<atPid, table, redirFlag, pipeFlag, pipeLists, numPipe, out, inn, grouped, raced>>

\* sigint_handler(): the groups of the table are signalled and siglongjmp()
\* goes to the prompt with the mask sigsetjmp() saved, whatever was going on.
\* With the shell itself in the table, or an entry never written (its whole
\* group), the signal is pending when the mask is restored inside siglongjmp(),
\* which enters the handler again, without end.
CtrlC ==
    /\ pc \notin Ended
    /\ IF pc = "prompt" THEN UNCHANGED loose ELSE loose < MaxLoose /\ loose' = loose + 1
    /\ kids' = [p \in Pids |-> Interrupted(p)]
    /\ chld' = (chld \/ \E p \in Pids : kids'[p] = "zombie" /\ kids[p] # "zombie")
    /\ IF \E i \in 1 .. totalPgid - 1 : pgid[i] \in {Shell, Nobody}
       THEN pc' = "overrun" /\ UNCHANGED <<words, line, stage, cpid, fds, blocked, inHandler>>
       ELSE pc' = "prompt" /\ Forget /\ blocked' = FALSE /\ inHandler' = FALSE
    /\ UNCHANGED <<atPid, table, redirFlag, pipeFlag, pipeLists, numPipe, out, inn, grouped, raced>>

\* ^Z stops the programs of the foreground group; sigtstp_handler() does nothing.
CtrlZ ==
    /\ pc \notin Ended
    /\ loose < MaxLoose /\ loose' = loose + 1
    /\ LET hit == {p \in Unreaped : p \notin grouped /\ kids[p] \in {"run", "stuck"}}
       IN  /\ hit # {}
           /\ kids' = [p \in Pids |-> IF p \in hit THEN "stopped" ELSE kids[p]]
    /\ chld' = TRUE
    /\ UNCHANGED <<control, blocked, inHandler, atPid, table, stdio, grouped, raced>>

----------------------------------------------------------------------------
Main == \/ ReadLine \/ Setup \/ Final
        \/ Execute \/ Fork \/ Group \/ Resume
        \/ ForkLeft \/ WaitLeft \/ NextPair

Handler == EnterHandler \/ ReapAny

Over == pc \in Ended /\ UNCHANGED vars

Next ==
    \/ Main
    \/ Handler
    \/ \E p \in Pids : Exec(p) \/ Exit(p) \/ ReadTerminal(p)
    \/ CtrlC
    \/ CtrlZ
    \/ Over

\* The scheduler runs the shell when it can run, and some child while one can; the
\* user and the reads of a program owe nothing.
Fairness ==
    /\ WF_vars(Main \/ Handler)
    /\ WF_vars(\E p \in Pids : Exec(p) \/ Exit(p))

Spec == Init /\ [][Next]_vars /\ Fairness

----------------------------------------------------------------------------
(* Properties                                                              *)

\* When the prompt comes back every child of the line has been waited for, but
\* for one per interruption: waitpid(-1) in the handler and waitpid(pid) in the
\* pipe loop between them miss none and take none twice.
PromptIsClean ==
    pc = "prompt" => Cardinality(Unreaped) <= loose

\* At a prompt that no ^C forced, descriptors 0 and 1 are the terminal again,
\* whatever redirections and pipes the line made before one of them failed.
StdioRestored ==
    pc = "prompt" /\ ~redirFlag /\ ~pipeFlag => out = "tty" /\ inn = "tty"

\* While the shell waits for a program in a session without interruptions, what
\* ^C will signal is that program and nothing else: no entry of an earlier line
\* and none that was never written (kill(0) is the whole foreground group).  In
\* any session the index moves on only by what interrupted lines left.  Lines of
\* four commands are outside it: their second executable() counts totalPgid past
\* the entries it writes.
TableSound ==
    /\ pc = "suspend" /\ atPid = 0 /\ loose = 0 /\ Len(line) < 4 =>
        {pgid[i] : i \in 1 .. totalPgid - 1}
            = {IF cpid \in grouped THEN cpid ELSE Shell}
    /\ idxPgid <= 2 * (loose + 1)

\* The handler blocks in waitpid(-1) only after an interruption: otherwise the
\* child that raised SIGCHLD is there to be reaped, or there is none at all.
HandlerNeverBlocks ==
    inHandler /\ loose = 0 /\ pc \notin Ended =>
        Unreaped = {} \/ \E p \in Pids : kids[p] \in {"zombie", "failed"}

\* One ^C does not take the shell down: that takes a second interruption of the
\* table the first one left, a child that ran before setpgid(), or a line of
\* four commands.
FirstInterruptSurvives ==
    pc = "overrun" => loose >= 2 \/ raced \/ Len(line) >= 4

\* The commands main() runs are the words the user typed without the redirections,
\* cut at the pipes: taking one redirector out of the tokens does not lose the
\* place of the next.  Lines with both are outside it: a redirector taken out
\* there takes the pipe of its list with it, and the command after the pipe.
WordsReachPrograms ==
    [][pc = "setup" /\ line' # <<>> /\ ~Mixed(words) => line' = Commands(words)]_vars

\* The first ^C while the shell waits for a child leaves no program running, in
\* whichever group it is (sigint_handler and the terminal).  A child that has not
\* reached execvp() runs the shell's handler instead and may live on as a second
\* shell ("rogue").
InterruptKills ==
    [][pc = "suspend" /\ pc' = "prompt" /\ loose = 0 /\ loose' = 1 =>
        \A p \in Pids : kids'[p] \notin {"run", "stuck"}]_vars

\* A line whose children end and that nobody interrupts comes back to the
\* prompt: no SIGCHLD is missed between the check of atPid and sigsuspend(),
\* and none is swallowed by the waitpid() of the pipe loop.
CommandReturns ==
    pc \notin Ended \union {"prompt"} ~>
        \/ pc \in Ended \union {"prompt"}
        \/ loose > 0
        \/ \E p \in Pids : kids[p] = "stuck"
=============================================================================
