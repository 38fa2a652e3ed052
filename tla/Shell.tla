------------------------------- MODULE Shell -------------------------------
(***************************************************************************)
(* The shell (kernel.c): how it redirects the input and output of a        *)
(* program in the one descriptor table all programs share, composed with   *)
(* the file system (Fs) and with programs that do what they like with any  *)
(* descriptor but the two the shell keeps its terminal in.                 *)
(*                                                                         *)
(* The shell and the program it waits for are never inside a system call   *)
(* together, so the steps of one are those of the other's pause.  Left     *)
(* out: unlink (Fs.AppearsWhenCreated is about what it does to names), and *)
(* children that a program leaves behind and that use descriptors; no      *)
(* program under src/user has one.  The words of a command are what they   *)
(* do: a command is where it redirects to, and whether it names a program. *)
(* Lines are of fewer than 15 words: there the splitting stops, and a      *)
(* redirection behind them is not seen (kernel.c:68).  The child's exec()  *)
(* opens, reads and closes the file of the program, which leaves the table *)
(* as it was: it is not a step of its own.                                 *)
(***************************************************************************)
EXTENDS Fs

CONSTANTS
  SavedIn,       \* the descriptors the shell keeps its own input and output
  SavedOut,      \* in while a command runs: 12 and 13
  Pipe           \* /tmp/pipe

ASSUME SavedAssumption ==
  /\ FirstFd >= 2
  /\ {SavedIn, SavedOut} \subseteq FirstFd .. MAX_FD - 1
  /\ SavedIn # SavedOut
ASSUME PipeAssumption == Pipe \in Paths

VARIABLES
  pc,                \* where the shell is
  command,           \* the command being executed
  right,             \* the right side of a pipe, until it is executed
  saved_in,          \* saved_stdin
  saved_out,         \* saved_stdout
  opened,            \* fd: what fs_open() returned
  before,            \* history: the other descriptors when the command was given
  handed             \* history: the file the left side of a pipe wrote to

progress == <<command, right, before, handed>>
locals == <<saved_in, saved_out, opened>>
fsVars == <<kind, size, data_offset, ref_count, entries, data_buf, next_free_offset, fds, got>>
shellVars == <<fsVars, pc, command, right, saved_in, saved_out, opened,
               before, handed>>

Others == FDs \ {0, 1, SavedIn, SavedOut}
AllClosed == [d \in Others |-> Closed]

NoPath == <<>>

(* "< in", "> out"; blank when there is no other word (argc == 0). *)
Commands == [in : Paths \cup {NoPath}, out : Paths \cup {NoPath}, blank : BOOLEAN]
NoCommand == [in |-> NoPath, out |-> NoPath, blank |-> TRUE]

Labels == {"prompt", "save_in", "save_out", "open_in", "dup_in", "close_in",
           "open_out", "dup_out", "close_out", "fork", "run",
           "restore_in", "drop_in", "restore_out", "drop_out"}

ShellTypeOK ==
  /\ TypeOK
  /\ pc \in Labels
  /\ command \in Commands /\ right \in Commands
  /\ saved_in \in {0, SavedIn} /\ saved_out \in {1, SavedOut}
  /\ opened \in FDs \cup {NONE}
  /\ before \in [Others -> Descriptors]
  /\ handed \in Inodes \cup {NONE}

-----------------------------------------------------------------------------
(* The calls of the file system, with those that fail and change nothing. *)

CallDup2(old, new) == IF Valid(old) /\ old # new THEN Dup2(old, new) ELSE UNCHANGED fsVars

CallCloseNever(d) == d \in FDs /\ UNCHANGED fsVars

CallClose(d) == IF Valid(d) THEN Close(d) ELSE UNCHANGED fsVars

Opens(d) == FreeFd(d) /\ opened' = d

(* fs_open() of an input, without O_CREAT. *)
CallOpenIn(path) ==
  IF Resolve(path) # NONE /\ kind[Resolve(path)] = "FILE"
  THEN OpenExisting(path, FALSE) /\ \E d \in FDs \cup {NONE} : Opens(d)
  ELSE opened' = NONE /\ UNCHANGED fsVars

(* fs_open() of an output, with O_CREAT and O_TRUNC. *)
CanOpenOut(path) ==
  IF Resolve(path) = NONE THEN Parent(path) # NONE /\ \E i \in Inodes : kind[i] = "FREE"
                          ELSE kind[Resolve(path)] = "FILE"

CallOpenOut(path) ==
  IF CanOpenOut(path)
  THEN /\ OpenCreate(path) \/ OpenExisting(path, TRUE)
       /\ \E d \in FDs \cup {NONE} : Opens(d)
  ELSE opened' = NONE /\ UNCHANGED fsVars

-----------------------------------------------------------------------------
(* execute_command(). *)

Starts(c) ==
  /\ command' = c
  /\ pc' = "save_in"
  /\ before' = [d \in Others |-> fds[d]]

(* shell_loop() reads a line: a command, or "l | r", of which it makes     *)
(* "l > /tmp/pipe" and then "r < /tmp/pipe".                               *)
Prompt ==
  /\ pc = "prompt"
  /\ \E c \in Commands :
       /\ Starts(c)
       /\ \/ right' = NoCommand
          \/ c.out = Pipe /\ right' \in {r \in Commands : r.in = Pipe}
  /\ handed' = NONE
  /\ UNCHANGED <<fsVars, locals>>

(* What fs_dup2() returned, or the fallback. *)
Saved(old, new, fallback) == IF Valid(old) THEN new ELSE fallback

SaveIn ==
  /\ pc = "save_in"
  /\ saved_in' = Saved(0, SavedIn, 0)
  /\ CallDup2(0, SavedIn)
  /\ pc' = "save_out"
  /\ UNCHANGED <<progress, saved_out, opened>>

SaveOut ==
  /\ pc = "save_out"
  /\ saved_out' = Saved(1, SavedOut, 1)
  /\ CallDup2(1, SavedOut)
  /\ pc' = CASE command.blank -> "restore_in"
             [] ~command.blank /\ command.in # NoPath -> "open_in"
             [] ~command.blank /\ command.in = NoPath /\ command.out # NoPath -> "open_out"
             [] OTHER -> "fork"
  /\ UNCHANGED <<progress, saved_in, opened>>

(* The step after the input has been redirected. *)
AfterInElse == "fork"

AfterIn == IF command.out = NoPath THEN "fork" ELSE "open_out"

(* The step after an fs_open(). *)
AfterOpenInMessage == IF opened' = NONE THEN AfterIn ELSE "dup_in"

AfterOpenIn == IF opened' = NONE THEN "restore_in" ELSE "dup_in"

AfterOpenOutMessage == IF opened' = NONE THEN "fork" ELSE "dup_out"

AfterOpenOut == IF opened' = NONE THEN "restore_in" ELSE "dup_out"

OpenIn ==
  /\ pc = "open_in"
  /\ CallOpenIn(command.in)
  /\ pc' = AfterOpenIn
  /\ UNCHANGED <<progress, saved_in, saved_out>>

DupIn ==
  /\ pc = "dup_in"
  /\ CallDup2(opened, 0)
  /\ pc' = "close_in"
  /\ UNCHANGED <<progress, locals>>

CloseIn ==
  /\ pc = "close_in"
  /\ CallClose(opened)
  /\ pc' = AfterIn
  /\ opened' = NONE
  /\ UNCHANGED <<progress, saved_in, saved_out>>

OpenOut ==
  /\ pc = "open_out"
  /\ CallOpenOut(command.out)
  /\ pc' = AfterOpenOut
  /\ UNCHANGED <<progress, saved_in, saved_out>>

DupOut ==
  /\ pc = "dup_out"
  /\ CallDup2(opened, 1)
  /\ pc' = "close_out"
  /\ UNCHANGED <<progress, locals>>

CloseOut ==
  /\ pc = "close_out"
  /\ CallClose(opened)
  /\ pc' = "fork"
  /\ opened' = NONE
  /\ UNCHANGED <<progress, saved_in, saved_out>>

(* fork(), and the shell waits.  When fork() or exec() fails the program   *)
(* is one that makes no call.                                              *)
Fork ==
  /\ pc = "fork"
  /\ pc' = "run"
  /\ handed' = IF right # NoCommand THEN fds[1].inode ELSE NONE
  /\ command' = NoCommand
  /\ before' = AllClosed
  /\ UNCHANGED <<fsVars, locals, right>>

(* A call of the program, which leaves SavedIn and SavedOut alone. *)
Call ==
  /\ pc = "run"
  /\ \/ \E path \in Paths : \/ OpenCreate(path)
                            \/ \E truncate \in BOOLEAN : OpenExisting(path, truncate)
     \/ \E d \in FDs : \/ d \notin {SavedIn, SavedOut} /\ Close(d)
                       \/ \E new \in FDs \ {SavedIn, SavedOut} : Dup2(d, new)
                       \/ \E count \in Counts : Read(d, count)
                       \/ \E bytes \in Buffers : Write(d, bytes)
  /\ UNCHANGED <<pc, progress, locals>>

(* The program exits, and wait() returns. *)
Exit ==
  /\ pc = "run"
  /\ pc' = "restore_in"
  /\ UNCHANGED <<fsVars, progress, locals>>

RestoreIn ==
  /\ pc = "restore_in"
  /\ CallDup2(saved_in, 0)
  /\ pc' = "drop_in"
  /\ UNCHANGED <<progress, locals>>

DropIn ==
  /\ pc = "drop_in"
  /\ CallClose(saved_in)
  /\ pc' = "restore_out"
  /\ UNCHANGED <<progress, locals>>

RestoreOut ==
  /\ pc = "restore_out"
  /\ CallDup2(saved_out, 1)
  /\ pc' = "drop_out"
  /\ UNCHANGED <<progress, locals>>

DropOut ==
  /\ pc = "drop_out"
  /\ CallClose(saved_out)
  /\ IF right = NoCommand
     THEN pc' = "prompt" /\ command' = NoCommand /\ before' = AllClosed
     ELSE Starts(right)
  /\ right' = NoCommand
  /\ UNCHANGED <<locals, handed>>

ShellInit ==
  /\ Init
  /\ pc = "prompt"
  /\ command = NoCommand /\ right = NoCommand
  /\ saved_in = 0 /\ saved_out = 1
  /\ opened = NONE
  /\ before = AllClosed
  /\ handed = NONE

ShellNext ==
  \/ Prompt
  \/ SaveIn \/ SaveOut
  \/ OpenIn \/ DupIn \/ CloseIn
  \/ OpenOut \/ DupOut \/ CloseOut
  \/ Fork \/ Call \/ Exit
  \/ RestoreIn \/ DropIn \/ RestoreOut \/ DropOut

ShellSpec == ShellInit /\ [][ShellNext]_shellVars

-----------------------------------------------------------------------------
(* Whatever was redirected, failed to open or was left open, duplicated or *)
(* closed by programs, the shell is back at the terminal when it prompts,  *)
(* and the two descriptors it kept that in are closed again.               *)
PromptClean ==
  pc = "prompt" =>
     /\ fds[0] = Terminal /\ fds[1] = Terminal
     /\ ~Valid(SavedIn) /\ ~Valid(SavedOut)

(* A program starts with the input and output its command asks for, at the *)
(* start of the file and with an empty output, and with no descriptor that *)
(* was not there before the command but the two the shell saved.           *)
StartsAsAsked ==
  pc = "fork" =>
     /\ fds[0] = IF command.in = NoPath THEN Terminal
                 ELSE [inode |-> Resolve(command.in), offset |-> 0]
     /\ command.out = NoPath => fds[1] = Terminal
     /\ command.out # NoPath =>
          /\ fds[1].inode \in Inodes /\ fds[1].offset = 0
          /\ size[fds[1].inode] = 0
          /\ Resolve(command.out) \in {NONE, fds[1].inode}
     /\ \A d \in Others : fds[d] = before[d]

(* The right side of a pipe, if it starts, reads the file the left side    *)
(* was given to write to, from its start.                                  *)
PipeHandsOver ==
  pc = "fork" /\ handed # NONE =>
     fds[0] = [inode |-> handed, offset |-> 0]
=============================================================================
