------------------------------ MODULE ShellPipe ------------------------------
(***************************************************************************)
(* The shell in front end mode: nova -s <CMD> (programs/nova/nova.cpp)     *)
(* hands its command to a back end process novabp (programs/nova/          *)
(* novabp.cpp), which outlives it and keeps the variables for the next     *)
(* command of the same login shell.  They meet through named pipes         *)
(* (oss/ossNPipe.cpp, util/utilPipe.cpp): "wait", by which a new back end  *)
(* tells that it is ready, f2b for commands and b2f for answers.           *)
(*                                                                         *)
(* A pipe is modelled as Linux has it: open waits for the other side, a    *)
(* name that is removed leaves those who wait for it waiting, and what is  *)
(* in a pipe is lost when nobody has it open.                              *)
(***************************************************************************)
EXTENDS Integers, Sequences, FiniteSets

CONSTANTS Nova,     \* calls of nova -s
          Back,      \* processes novabp
          Shell,     \* login shells, the parents of the front ends
          None,
          ShellOf,   \* the shell of a front end
          Quit,      \* front ends whose command is quit
          Long,      \* front ends whose command is longer than PIPE_BUF
          Overlap,   \* front ends may run at the same time
          FrontDies, \* front ends may be killed
          BackDies,  \* back ends may be killed, or fail to start
          PidPrefix  \* pairs of shells: the digits of one pid begin the other

ASSUME ShellAssumption ==
  /\ ShellOf \in [Nova -> Shell] /\ Quit \subseteq Nova /\ Long \subseteq Nova
  /\ {Overlap, FrontDies, BackDies} \subseteq BOOLEAN
  /\ PidPrefix \subseteq Shell \X Shell
  /\ None \notin Nova \cup Back /\ Nova \cap Back = {}

VARIABLES
  alive,        \* the shells that run
  at,           \* where a process is
  blocked,      \* processes that wait in open for the other side
  rd, wr, data, \* the readers, the writers and the content of a pipe
  waitName,     \* the front end whose pipe has the name "wait" of a shell
  names,        \* the names of f2b and b2f pipes that exist
  bk, bk2,      \* the back ends whose f2b and b2f a front end uses
  shell,        \* the shell a back end was started for
  mon,          \* where the monitor_thread of a back end is
  cut,          \* back ends that did not end by quit
  code,         \* the command a back end has read
  out, res      \* what a front end has read, and how it ended

pipes == <<blocked, rd, wr, data>>
dir == <<waitName, names>>
shellVars == <<alive, at, pipes, dir, bk, bk2, shell, mon, cut, code, out, res>>

Proc == Nova \cup Back
Pipe == ({"wait"} \X Nova) \cup ({"f2b", "b2f"} \X Back)

ShellInit ==
  /\ alive = Shell
  /\ at = [p \in Proc |-> IF p \in Nova THEN "new" ELSE "off"]
  /\ blocked = {} /\ rd = [i \in Pipe |-> {}] /\ wr = [i \in Pipe |-> {}] /\ data = [i \in Pipe |-> <<>>]
  /\ waitName = [s \in Shell |-> None] /\ names = {}
  /\ bk = [f \in Nova |-> None] /\ bk2 = [f \in Nova |-> None]
  /\ shell = [k \in Back |-> None] /\ mon = [k \in Back |-> "off"] /\ cut = {}
  /\ code = [k \in Back |-> <<>>] /\ out = [f \in Nova |-> <<>>] /\ res = [f \in Nova |-> None]

Runs(p, l) == at[p] = l /\ p \notin blocked
Goto(p, l) == at' = [at EXCEPT ![p] = l]
Running(p) == at[p] \notin {"new", "off", "end"}

-----------------------------------------------------------------------------
(* Pipes. *)

\* open for reading: waits for a writer, and wakes those who wait for a reader.
OpenRead(p, i) ==
  /\ rd' = [rd EXCEPT ![i] = @ \cup {p}]
  /\ blocked' = IF wr[i] = {} THEN blocked \cup {p} ELSE blocked \ wr[i]
  /\ UNCHANGED <<wr, data>>

OpenWrite(p, i) ==
  /\ wr' = [wr EXCEPT ![i] = @ \cup {p}]
  /\ blocked' = IF rd[i] = {} THEN blocked \cup {p} ELSE blocked \ rd[i]
  /\ UNCHANGED <<rd, data>>

\* close of all that p has open in the pipes of set is.
Close(p, is) ==
  /\ rd' = [i \in Pipe |-> IF i \in is THEN rd[i] \ {p} ELSE rd[i]]
  /\ wr' = [i \in Pipe |-> IF i \in is THEN wr[i] \ {p} ELSE wr[i]]
  /\ data' = [i \in Pipe |-> IF rd'[i] \cup wr'[i] = {} THEN <<>> ELSE data[i]]
  /\ blocked' = blocked \ {p}

Put(i, items) == data' = [data EXCEPT ![i] = @ \o items] /\ UNCHANGED <<blocked, rd, wr>>
Take(i) == data' = [data EXCEPT ![i] = Tail(@)] /\ UNCHANGED <<blocked, rd, wr>>

\* The end of a process closes its pipes; names stay.
End(p) == Goto(p, "end") /\ Close(p, Pipe)

-----------------------------------------------------------------------------
(* enterFrontEndMode *)

W(f) == waitName[ShellOf[f]]
front == <<alive, shell, mon, cut, code>>

Fail(f) == End(f) /\ res' = [res EXCEPT ![f] = "error"]

\* clearDirtyShellPipe: the pipes of back ends that do not run.
clearDirty(f) ==
  /\ Runs(f, "new") /\ ShellOf[f] \in alive
  /\ Overlap \/ \A g \in Nova : ~Running(g)
  /\ names' = {n \in names : Running(n[2])}
  /\ Goto(f, "find")
  /\ UNCHANGED <<front, pipes, waitName, bk, bk2, out, res>>

\* The name of a pipe of back end k begins with the one f looks for.
Match(f, k) == shell[k] = ShellOf[f] \/ <<ShellOf[f], shell[k]>> \in PidPrefix

\* getPipeNames1, for f2b and then for b2f.
Find(f) ==
  LET found == {k \in Back : <<"f2b", k>> \in names /\ Match(f, k)} IN
  /\ Runs(f, "find")
  /\ \/ \E k \in found : bk' = [bk EXCEPT ![f] = k] /\ Goto(f, "find2")
     \/ found = {} /\ UNCHANGED bk /\ Goto(f, "mkwait")
  /\ UNCHANGED <<front, pipes, dir, bk2, out, res>>

Find2(f) ==
  LET found == {k \in Back : <<"b2f", k>> \in names /\ Match(f, k)} IN
  /\ Runs(f, "find2")
  /\ \/ \E k \in found : bk2' = [bk2 EXCEPT ![f] = k] /\ Goto(f, "check")
     \/ found = {} /\ UNCHANGED bk2 /\ Goto(f, "mkwait")
  /\ UNCHANGED <<front, pipes, dir, bk, out, res>>

\* Use the back end, or remove the pipes of one that does not run any more.
Check(f) ==
  LET old == {<<"f2b", bk[f]>>, <<"b2f", bk2[f]>>} IN
  /\ Runs(f, "check")
  /\ \/ Running(bk[f]) /\ Goto(f, "openF2b") /\ UNCHANGED <<names, pipes, res>>
     \/ ~Running(bk[f]) /\ names' = names \ old
        /\ IF old \subseteq names THEN Goto(f, "mkwait") /\ UNCHANGED <<pipes, res>> ELSE Fail(f)
  /\ UNCHANGED <<front, waitName, bk, bk2, out>>

-----------------------------------------------------------------------------
(* createDaemonProcess *)

\* done: of createDaemonProcess, the name of the pipe is removed.
rmWait(f) == waitName' = [waitName EXCEPT ![ShellOf[f]] = None] /\ UNCHANGED names

\* clearDirtyShellPipe, for the wait pipes: those of shells that have gone.
waitLeft == [s \in Shell |-> IF s \in alive THEN waitName[s] ELSE None]

\* ossCreateNamedPipe refuses a name that exists; then done: removes it.
MkWait(f) ==
  LET s == ShellOf[f] IN
  /\ Runs(f, "mkwait")
  /\ \/ /\ waitLeft[s] = None
        /\ waitName' = [waitLeft EXCEPT ![s] = f]
        /\ Goto(f, "exec") /\ UNCHANGED <<pipes, res>>
     \/ /\ waitLeft[s] # None
        /\ waitName' = [waitLeft EXCEPT ![s] = None] /\ Fail(f)
  /\ UNCHANGED <<front, names, bk, bk2, out>>

Exec(f) ==
  /\ Runs(f, "exec")
  /\ \/ \E k \in Back :
          /\ at[k] = "off"
          /\ at' = [at EXCEPT ![f] = "connWait", ![k] = "init"]
          /\ shell' = [shell EXCEPT ![k] = ShellOf[f]]
          /\ bk' = [bk EXCEPT ![f] = k] /\ bk2' = [bk2 EXCEPT ![f] = k]
          /\ UNCHANGED <<pipes, dir, res>>
     \/ rmWait(f) /\ Fail(f) /\ UNCHANGED <<shell, bk, bk2>>
  /\ UNCHANGED <<alive, mon, cut, code, out>>

ConnWait(f) ==
  /\ Runs(f, "connWait")
  /\ \/ W(f) # None /\ OpenRead(f, <<"wait", W(f)>>) /\ Goto(f, "closeWait") /\ UNCHANGED <<dir, res>>
     \/ W(f) = None /\ rmWait(f) /\ Fail(f)
  /\ UNCHANGED <<front, bk, bk2, out>>

CloseWait(f) ==
  /\ Runs(f, "closeWait")
  /\ Close(f, Pipe) /\ Goto(f, "rmwait")
  /\ UNCHANGED <<front, dir, bk, bk2, out, res>>

RmWait(f) ==
  /\ Runs(f, "rmwait")
  /\ rmWait(f) /\ Goto(f, "openF2b")
  /\ UNCHANGED <<front, pipes, bk, bk2, out, res>>

-----------------------------------------------------------------------------
(* The command and the answer. *)

OpenF2b(f) ==
  LET i == <<"f2b", bk[f]>> IN
  /\ Runs(f, "openF2b")
  /\ \/ i \in names /\ OpenWrite(f, i) /\ Goto(f, "write") /\ UNCHANGED res
     \/ i \notin names /\ Fail(f)
  /\ UNCHANGED <<front, dir, bk, bk2, out>>

Command(f) == [n \in 1 .. (IF f \in Long THEN 2 ELSE 1) |-> [by |-> f, piece |-> n]]

\* ossWriteNamedPipe writes PIPE_BUF bytes at most.  Without a reader SIGPIPE ends f.
WriteF2b(f) ==
  /\ Runs(f, "write")
  /\ \/ rd[<<"f2b", bk[f]>>] # {} /\ Put(<<"f2b", bk[f]>>, SubSeq(Command(f), 1, 1))
        /\ Goto(f, "closeF2b") /\ UNCHANGED res
     \/ rd[<<"f2b", bk[f]>>] = {} /\ Fail(f)
  /\ UNCHANGED <<front, dir, bk, bk2, out>>

CloseF2b(f) ==
  /\ Runs(f, "closeF2b")
  /\ Close(f, Pipe) /\ Goto(f, "openB2f")
  /\ UNCHANGED <<front, dir, bk, bk2, out, res>>

OpenB2f(f) ==
  LET i == <<"b2f", bk2[f]>> IN
  /\ Runs(f, "openB2f")
  /\ \/ i \in names /\ OpenRead(f, i) /\ Goto(f, "read") /\ UNCHANGED res
     \/ i \notin names /\ Fail(f)
  /\ UNCHANGED <<front, dir, bk, bk2, out>>

Read(f) ==
  LET i == <<"b2f", bk2[f]>> IN
  /\ Runs(f, "read") /\ data[i] # <<>>
  /\ out' = [out EXCEPT ![f] = Append(@, Head(data[i]))]
  /\ Take(i)
  /\ UNCHANGED <<front, at, dir, bk, bk2, res>>

\* fault: an answer that pauses is over
EofPause(f, i) == data[i] = <<>>

Eof(f, i) == data[i] = <<>> /\ wr[i] = {}

\* The end of the answer.  Whatever was read, the call has worked.
ReadEof(f) ==
  /\ Runs(f, "read") /\ Eof(f, <<"b2f", bk2[f]>>)
  /\ End(f) /\ res' = [res EXCEPT ![f] = "ok"]
  /\ UNCHANGED <<front, dir, bk, bk2, out>>

-----------------------------------------------------------------------------
(* novabp: main and enterDaemonMode *)

back == <<alive, waitName, bk, bk2, shell, out, res>>

\* container.init and newScope, which may fail.
BackInit(k) ==
  /\ Runs(k, "init")
  /\ \/ Goto(k, "mkF2b") /\ UNCHANGED <<pipes, cut>>
     \/ BackDies /\ End(k) /\ cut' = cut \cup {k}
  /\ UNCHANGED <<back, names, mon, code>>

MkF2b(k) ==
  /\ Runs(k, "mkF2b")
  /\ names' = names \cup {<<"f2b", k>>} /\ Goto(k, "mkB2f")
  /\ UNCHANGED <<back, pipes, mon, cut, code>>

MkB2f(k) ==
  /\ Runs(k, "mkB2f")
  /\ names' = names \cup {<<"b2f", k>>} /\ Goto(k, "openWait")
  /\ UNCHANGED <<back, pipes, mon, cut, code>>

\* tell front-end that initialization finished; an error goes to done:
OpenWait(k) ==
  LET f == waitName[shell[k]] IN
  /\ Runs(k, "openWait")
  /\ \/ f # None /\ OpenWrite(k, <<"wait", f>>) /\ Goto(k, "monitor") /\ UNCHANGED cut
     \/ f = None /\ Goto(k, "rmF2b") /\ cut' = cut \cup {k} /\ UNCHANGED pipes
  /\ UNCHANGED <<back, names, mon, code>>

createMonitor(k) ==
  /\ Runs(k, "monitor")
  /\ Close(k, Pipe) /\ mon' = [mon EXCEPT ![k] = "watch"] /\ Goto(k, "connF2b")
  /\ UNCHANGED <<back, names, cut, code>>

ConnF2b(k) ==
  /\ Runs(k, "connF2b")
  /\ \/ <<"f2b", k>> \in names /\ OpenRead(k, <<"f2b", k>>) /\ Goto(k, "readF2b") /\ UNCHANGED cut
     \/ <<"f2b", k>> \notin names /\ Goto(k, "rmF2b") /\ cut' = cut \cup {k} /\ UNCHANGED pipes
  /\ code' = [code EXCEPT ![k] = <<>>]
  /\ UNCHANGED <<back, names, mon>>

readFromPipe(k) ==
  LET i == <<"f2b", k>> IN
  /\ Runs(k, "readF2b") /\ data[i] # <<>>
  /\ code' = [code EXCEPT ![k] = Append(@, Head(data[i]))]
  /\ Take(i)
  /\ UNCHANGED <<back, at, names, mon, cut>>

CommandRead(k) == data[<<"f2b", k>>] = <<>> /\ wr[<<"f2b", k>>] = {}

DisconnectF2b(k) ==
  /\ Runs(k, "readF2b") /\ CommandRead(k)
  /\ Close(k, Pipe) /\ Goto(k, "connB2f")
  /\ UNCHANGED <<back, names, mon, cut, code>>

ConnB2f(k) ==
  /\ Runs(k, "connB2f")
  /\ \/ <<"b2f", k>> \in names /\ OpenWrite(k, <<"b2f", k>>) /\ Goto(k, "eval") /\ UNCHANGED cut
     \/ <<"b2f", k>> \notin names /\ Goto(k, "rmF2b") /\ cut' = cut \cup {k} /\ UNCHANGED pipes
  /\ UNCHANGED <<back, names, mon, code>>

Answer(k, part) == [code |-> code[k], part |-> part]

\* Print into b2f; without a reader SIGPIPE ends the process.
Reply(k, part, next) ==
  LET i == <<"b2f", k>> IN
  /\ \/ rd[i] # {} /\ Put(i, <<Answer(k, part)>>) /\ Goto(k, next) /\ UNCHANGED cut
     \/ rd[i] = {} /\ End(k) /\ cut' = cut \cup {k}
  /\ UNCHANGED <<back, names, mon, code>>

Quits(k) == code[k] # <<>> /\ code[k][1].by \in Quit /\ Len(code[k]) = 1

\* eval prints its result, unless the command is quit; then comes the error number.
Eval(k) ==
  /\ Runs(k, "eval")
  /\ \/ ~Quits(k) /\ Reply(k, "text", "errno")
     \/ Quits(k) /\ Goto(k, "errno") /\ UNCHANGED <<back, pipes, names, mon, cut, code>>

ReplyErrno(k) == Runs(k, "errno") /\ Reply(k, "errno", "closeB2f")

\* fault: the copy of the pipe in fd 1 stays open
DisconnectB2fCopy(k) ==
  /\ Runs(k, "closeB2f")
  /\ Goto(k, IF Quits(k) THEN "rmF2b" ELSE "connF2b")
  /\ UNCHANGED <<back, pipes, names, mon, cut, code>>

DisconnectB2f(k) ==
  /\ Runs(k, "closeB2f")
  /\ Close(k, Pipe)
  /\ Goto(k, IF Quits(k) THEN "rmF2b" ELSE "connF2b")
  /\ UNCHANGED <<back, names, mon, cut, code>>

RmF2b(k) ==
  /\ Runs(k, "rmF2b")
  /\ names' = names \ {<<"f2b", k>>} /\ Goto(k, "rmB2f")
  /\ UNCHANGED <<back, pipes, mon, cut, code>>

\* fault: only one of the names is removed
RmB2fKept(k) ==
  /\ Runs(k, "rmB2f")
  /\ End(k)
  /\ UNCHANGED <<back, names, mon, cut, code>>

RmB2f(k) ==
  /\ Runs(k, "rmB2f")
  /\ names' = names \ {<<"b2f", k>>} /\ End(k)
  /\ UNCHANGED <<back, mon, cut, code>>

\* monitor_thread, when the shell has gone: clean up and exit the whole program.
monitor(k) ==
  /\ mon[k] = "watch" /\ Running(k) /\ shell[k] \notin alive
  /\ mon' = [mon EXCEPT ![k] = "clean"]
  /\ names' = names \ {<<"f2b", k>>}
  /\ UNCHANGED <<back, at, pipes, cut, code>>

monitorClean(k) ==
  /\ mon[k] = "clean" /\ Running(k)
  /\ mon' = [mon EXCEPT ![k] = "exit"]
  /\ names' = names \ {<<"b2f", k>>}
  /\ UNCHANGED <<back, at, pipes, cut, code>>

monitorExit(k) ==
  /\ mon[k] = "exit" /\ Running(k)
  /\ End(k) /\ cut' = cut \cup {k}
  /\ UNCHANGED <<back, names, mon, code>>

-----------------------------------------------------------------------------
(* Faults *)

ShellExits(s) ==
  /\ s \in alive
  /\ alive' = alive \ {s}
  /\ UNCHANGED <<at, pipes, dir, bk, bk2, shell, mon, cut, code, out, res>>

KillFront(f) ==
  /\ FrontDies /\ Running(f)
  /\ Fail(f)
  /\ UNCHANGED <<front, dir, bk, bk2, out>>

KillBack(k) ==
  /\ BackDies /\ Running(k)
  /\ End(k) /\ cut' = cut \cup {k}
  /\ UNCHANGED <<back, names, mon, code>>

-----------------------------------------------------------------------------
FrontStep(f) == \/ Find(f) \/ Find2(f) \/ Check(f) \/ MkWait(f) \/ Exec(f) \/ ConnWait(f)
                \/ CloseWait(f) \/ RmWait(f) \/ OpenF2b(f) \/ WriteF2b(f) \/ CloseF2b(f)
                \/ OpenB2f(f) \/ Read(f) \/ ReadEof(f)

BackStep(k) == \/ BackInit(k) \/ MkF2b(k) \/ MkB2f(k) \/ OpenWait(k) \/ createMonitor(k)
               \/ ConnF2b(k) \/ readFromPipe(k) \/ DisconnectF2b(k) \/ ConnB2f(k) \/ Eval(k)
               \/ ReplyErrno(k) \/ DisconnectB2f(k) \/ RmF2b(k) \/ RmB2f(k)

Monitor(k) == monitor(k) \/ monitorClean(k) \/ monitorExit(k)

ShellNext == \/ \E f \in Nova : clearDirty(f) \/ FrontStep(f) \/ KillFront(f)
        \/ \E k \in Back : BackStep(k) \/ Monitor(k) \/ KillBack(k)
        \/ \E s \in Shell : ShellExits(s)

\* Processes go on, and the monitor looks at the shell every second.
ShellSpec == /\ ShellInit /\ [][ShellNext]_shellVars
        /\ \A f \in Nova : WF_shellVars(FrontStep(f))
        /\ \A k \in Back : WF_shellVars(BackStep(k)) /\ WF_shellVars(Monitor(k))

-----------------------------------------------------------------------------
(* Properties *)

\* Variables keep their types; who waits in open has one end of a pipe whose
\* other end nobody has, and no process has two pipes open.
PipeTypeOK ==
  /\ alive \subseteq Shell /\ names \subseteq Pipe /\ waitName \in [Shell -> Nova \cup {None}]
  /\ \A p \in blocked : \E i \in Pipe : \/ p \in rd[i] /\ wr[i] = {}
                                        \/ p \in wr[i] /\ rd[i] = {}
  /\ \A p \in Proc : Cardinality({i \in Pipe : p \in rd[i] \cup wr[i]}) <= 1

Serving == {k \in Back : at[k] \in {"eval", "errno", "closeB2f"}}

\* readFromPipe ("also write the trailing \0 to mark end of write"): what a back
\* end evaluates is the command of a front end, whole, and of one only.
WholeCommand == \A k \in Serving : \E f \in Nova : code[k] = Command(f)

\* enterFrontEndMode: a front end that reports success has printed the answer
\* to its own command, all of it, unless the back end did not live to give it.
AnswersOwn ==
  \A f \in Nova : res[f] = "ok" =>
    \/ out[f] = (IF f \in Quit THEN <<>> ELSE <<[code |-> Command(f), part |-> "text"]>>)
                  \o <<[code |-> Command(f), part |-> "errno"]>>
    \/ bk2[f] \in cut

\* Back ends from the moment they are ready for commands until they clean up.
Ready == {k \in Back : Running(k) /\ at[k] \notin {"init", "mkF2b", "mkB2f", "openWait", "rmF2b", "rmB2f"}}

\* getPipeNames1: as long as a shell lives its commands go to one back end, which
\* has its variables: there are never two that take commands.
OneBackend == \A k, l \in Ready : shell[k] = shell[l] /\ shell[k] \in alive => k = l

\* enterDaemonMode, done: a back end that ends leaves no name behind, unless it
\* was cut off; the names it left are what clearDirtyShellPipe looks for.
NamesTidy == \A n \in names : Running(n[2]) \/ n[2] \in cut

\* enterDaemonMode and enterFrontEndMode: whoever is killed wherever, who waits
\* in open waits for an end nobody has, and only a back end that was cut off
\* leaves names behind.
PipesTidy == PipeTypeOK /\ NamesTidy

BackGone(k) == k # None /\ at[k] = "end"

\* nova -s ends, unless the back end does whose pipe it has found.
FrontReturns == \A f \in Nova : Running(f) ~> (at[f] = "end" \/ BackGone(bk[f]) \/ BackGone(bk2[f]))

\* monitor_thread: a back end does not outlive its shell.
BackendEnds == \A k \in Back : (Running(k) /\ shell[k] \notin alive) ~> at[k] = "end"

=============================================================================
