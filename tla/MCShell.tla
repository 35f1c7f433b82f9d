------------------------------ MODULE MCShell -------------------------------
(***************************************************************************)
(* The shell in front end mode: front ends and back ends that meet in      *)
(* pipes, and how a front end prints the answer it reads.  A behaviour is  *)
(* of one part: calls of two shells at the same time, killed at any point  *)
(* (unruly); calls of one shell one after the other, whose back ends may   *)
(* die (turns), a smaller instance of it for progress (live); printing     *)
(* (answer).                                                               *)
(***************************************************************************)
EXTENDS ShellPipe

CONSTANTS f1, f2, f3, s1, s2, char, space

VARIABLES part, buf, cur, printed, got, number, done

(* Two shells, the digits of one pid the beginning of the other's, and a   *)
(* command of the first that is longer than PIPE_BUF.                      *)
TwoShells == [f \in Nova |-> IF f = f1 THEN s1 ELSE s2]
Prefix21 == {<<s2, s1>>}

Turns == INSTANCE ShellPipe WITH
           ShellOf <- [f \in Nova |-> s1], Quit <- {f1}, Long <- {}, PidPrefix <- {},
           Overlap <- FALSE, FrontDies <- FALSE, BackDies <- TRUE

(* Buffers of three bytes, and answers that fill them more than three      *)
(* times.                                                                  *)
Buffers == INSTANCE AnswerBuffer WITH
             Cap <- 3, Char <- {char, space}, Space <- space, MaxLen <- 11, code <- number

ASSUME Turns!ShellAssumption /\ Buffers!BufferAssumption

answerVars == <<buf, cur, printed, got, number, done>>

MCInit ==
  /\ Buffers!Init /\ ShellInit
  /\ part \in {"unruly", "turns", "live", "answer"}

(* The third call is of part turns only, and the second shell of unruly. *)
MCNext ==
  \/ part = "unruly" /\ ShellNext /\ at'[f3] = "new" /\ UNCHANGED <<part, answerVars>>
  \/ part = "turns" /\ Turns!ShellNext /\ s2 \in alive' /\ UNCHANGED <<part, answerVars>>
  \/ /\ part = "live" /\ Turns!ShellNext /\ s2 \in alive' /\ at'[f3] = "new"
     /\ UNCHANGED <<part, answerVars>>
  \/ part = "answer" /\ Buffers!Next /\ UNCHANGED <<part, shellVars>>

(* Processes go on, and the monitor looks at the shell every second. *)
MCSpec ==
  /\ MCInit /\ [][MCNext]_<<part, shellVars, answerVars>>
  /\ \A f \in {f1, f2} : WF_shellVars(part = "live" /\ Turns!FrontStep(f))
  /\ \A k \in Back : /\ WF_shellVars(part = "live" /\ Turns!BackStep(k))
                     /\ WF_shellVars(part = "live" /\ Turns!Monitor(k))

(* enterFrontEndMode and readFromPipe: calls one after the other meet one  *)
(* back end, it evaluates whole commands, each call prints the answer to   *)
(* its own, and the error number in it is found across the buffers.        *)
AnswersExact ==
  /\ part = "turns" => Turns!WholeCommand /\ Turns!AnswersOwn /\ Turns!OneBackend
  /\ part = "answer" => Buffers!TypeOK /\ Buffers!Split

(* A call of nova -s ends unless its back end does, and a back end does    *)
(* not outlive its shell (monitor_thread).                                 *)
ShellEnds == part = "live" => Turns!FrontReturns /\ Turns!BackendEnds
=============================================================================
