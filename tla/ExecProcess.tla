----------------------------- MODULE ExecProcess -----------------------------
(***************************************************************************)
(* One run of the Codex CLI fallback (crates/agent/src/executor.rs): the   *)
(* worker spawns `codex exec`, writes the prompt to its standard input,    *)
(* starts one capped reader per output pipe, polls for the exit, the       *)
(* cancel flag and the timeout, joins the readers and turns the result     *)
(* into events.  Pipes hold PipeSize chunks; a chunk stands for the bytes  *)
(* one read or write moves.                                                *)
(***************************************************************************)
EXTENDS Integers, Sequences

CONSTANTS Prompt,      \* chunks of the prompt
          PipeSize,    \* chunks a pipe holds before its writer blocks
          OutputCap,   \* codex_output_max_bytes, in chunks
          Timeout,     \* codex_timeout_seconds, in ticks
          MaxOutput,   \* bound: chunks written to each output pipe
          Heirs        \* whether codex may leave a process that holds its pipes

ExecAssumption ==
  /\ {Prompt, OutputCap, MaxOutput} \subseteq Nat
  /\ {PipeSize, Timeout} \subseteq Nat \ {0}
  /\ Heirs \in BOOLEAN

VARIABLES pc,        \* where run_codex_command is
          child,     \* the spawned process
          code,      \* how it exited
          stdin,     \* its end of the prompt pipe: open, or how much it took
          sent,      \* chunks of the prompt written
          heir,      \* a descendant holds the output pipes
          pipe,      \* chunks waiting in each output pipe
          made,      \* chunks ever written to it
          kept,      \* chunks its reader has kept (CappedOutput.bytes)
          cut,       \* CappedOutput.truncated
          reader,    \* the reader thread
          elapsed,   \* ticks since started_at
          cancel,    \* the cancel flag
          outcome,   \* why the run ended
          events     \* what is reported

vars == <<pc, child, code, stdin, sent, heir, pipe, made, kept, cut, reader,
          elapsed, cancel, outcome, events>>
processVars == <<child, code, stdin, heir>>
outputVars == <<pipe, made, kept, cut, reader>>

Streams == {"stdout", "stderr"}
Outcomes == {"none", "not_found", "spawn_error", "write_error", "exit", "cancelled", "timed_out"}
Kinds == {"output", "usage", "warning", "finished", "failed"}

TypeOK ==
  /\ pc \in {"spawn", "prompt", "poll", "join", "done"}
  /\ child \in {"none", "runs", "zombie", "reaped"}
  /\ code \in {"none", "ok", "error", "killed"}
  /\ stdin \in [open : BOOLEAN, taken : 0..Prompt]
  /\ sent \in stdin.taken..Prompt
  /\ sent - stdin.taken <= PipeSize
  /\ heir \in BOOLEAN
  /\ pipe \in [Streams -> 0..PipeSize]
  /\ made \in [Streams -> 0..MaxOutput]
  /\ kept \in [Streams -> 0..OutputCap]
  /\ cut \in [Streams -> BOOLEAN]
  /\ reader \in [Streams -> {"absent", "reads", "ended"}]
  /\ elapsed \in 0..Timeout
  /\ cancel \in BOOLEAN
  /\ outcome \in Outcomes
  /\ events \in Seq(Kinds)

Init ==
  /\ pc = "spawn" /\ child = "none" /\ code = "none"
  /\ stdin = [open |-> FALSE, taken |-> 0]
  /\ sent = 0 /\ heir = FALSE
  /\ pipe = [s \in Streams |-> 0] /\ made = [s \in Streams |-> 0]
  /\ kept = [s \in Streams |-> 0] /\ cut = [s \in Streams |-> FALSE]
  /\ reader = [s \in Streams |-> "absent"]
  /\ elapsed = 0 /\ cancel = FALSE /\ outcome = "none" /\ events = <<>>
-----------------------------------------------------------------------------
(* The process and what it starts: not under src/, seen through its pipes. *)

(* Codex or a descendant writes to an output pipe that has room. *)
Produce ==
  \E s \in Streams :
    /\ child = "runs" \/ heir
    /\ pc # "done" /\ pipe[s] < PipeSize /\ made[s] < MaxOutput
    /\ pipe' = [pipe EXCEPT ![s] = @ + 1]
    /\ made' = [made EXCEPT ![s] = @ + 1]
    /\ UNCHANGED <<pc, processVars, sent, kept, cut, reader, elapsed, cancel, outcome, events>>

TakePrompt ==
  /\ child = "runs" /\ stdin.open /\ stdin.taken < sent
  /\ stdin' = [stdin EXCEPT !.taken = @ + 1]
  /\ UNCHANGED <<pc, child, code, sent, heir, outputVars, elapsed, cancel, outcome, events>>

CloseStdin ==
  /\ child = "runs" /\ stdin.open
  /\ stdin' = [stdin EXCEPT !.open = FALSE]
  /\ UNCHANGED <<pc, child, code, sent, heir, outputVars, elapsed, cancel, outcome, events>>

LeaveHeir ==
  /\ Heirs /\ child = "runs" /\ ~heir /\ pc # "done"
  /\ heir' = TRUE
  /\ UNCHANGED <<pc, child, code, stdin, sent, outputVars, elapsed, cancel, outcome, events>>

HeirExits ==
  /\ heir /\ heir' = FALSE
  /\ UNCHANGED <<pc, child, code, stdin, sent, outputVars, elapsed, cancel, outcome, events>>

Exit ==
  /\ child = "runs" /\ child' = "zombie"
  /\ code' \in {"ok", "error"}
  /\ stdin' = [stdin EXCEPT !.open = FALSE]
  /\ UNCHANGED <<pc, sent, heir, outputVars, elapsed, cancel, outcome, events>>

(* The connection closes: the connector sets the flag the worker polls. *)
Cancel ==
  /\ ~cancel /\ cancel' = TRUE
  /\ UNCHANGED <<pc, processVars, sent, outputVars, elapsed, outcome, events>>

Tick ==
  /\ pc = "poll" /\ elapsed < Timeout /\ elapsed' = elapsed + 1
  /\ UNCHANGED <<pc, processVars, sent, outputVars, cancel, outcome, events>>
-----------------------------------------------------------------------------
(* codex_exec_result_events_with_cancel and codex_result_events *)

Warning == IF cut["stdout"] \/ cut["stderr"] THEN <<"warning">> ELSE <<>>

\* Mutant.
AnyOutcome(o) ==
  IF code = "ok"
  THEN {<<"output">> \o usage \o Warning \o <<"finished">> : usage \in {<<>>, <<"usage">>}}
  ELSE {<<"failed">>}

(* A run that ended well reports a message (or that there was none), the   *)
(* usage codex printed, a warning for a truncated stream, and the end.     *)
ResultEvents(o) ==
  IF o = "exit" /\ code = "ok"
  THEN {<<"output">> \o usage \o Warning \o <<"finished">> : usage \in {<<>>, <<"usage">>}}
  ELSE {<<"failed">>}

Return(o) ==
  /\ pc' = "done" /\ outcome' = o
  /\ events' \in ResultEvents(o)
-----------------------------------------------------------------------------
(* run_codex_command *)

Spawn ==
  /\ pc = "spawn"
  /\ \/ /\ pc' = "prompt" /\ child' = "runs"
        /\ stdin' = [stdin EXCEPT !.open = TRUE]
        /\ UNCHANGED <<outcome, events>>
     \/ \E o \in {"not_found", "spawn_error"} : Return(o) /\ UNCHANGED <<child, stdin>>
  /\ UNCHANGED <<code, sent, heir, outputVars, elapsed, cancel>>

(* write_all, before any reader, timeout or cancel check exists: it waits  *)
(* for room in the pipe as long as that takes.                             *)
WritePrompt ==
  /\ pc = "prompt" /\ stdin.open /\ sent < Prompt
  /\ sent - stdin.taken < PipeSize
  /\ sent' = sent + 1
  /\ UNCHANGED <<pc, processVars, outputVars, elapsed, cancel, outcome, events>>

(* The prompt is in the pipe: stdin is dropped, the readers start.         *)
StartReaders ==
  /\ pc = "prompt" /\ sent = Prompt
  /\ pc' = "poll" /\ reader' = [s \in Streams |-> "reads"]
  /\ UNCHANGED <<processVars, sent, pipe, made, kept, cut, elapsed, cancel, outcome, events>>

(* write_all on a closed pipe fails and `?` returns: the child is dropped, *)
(* neither killed nor waited for.                                          *)
PromptFails ==
  /\ pc = "prompt" /\ ~stdin.open /\ sent < Prompt
  /\ Return("write_error")
  /\ UNCHANGED <<processVars, sent, outputVars, elapsed, cancel>>

Reap(o, how) ==
  /\ child' = "reaped" /\ code' = how
  /\ stdin' = [stdin EXCEPT !.open = FALSE]
  /\ pc' = "join" /\ outcome' = o
  /\ UNCHANGED <<sent, heir, outputVars, elapsed, cancel, events>>

(* try_wait comes first, then the flag, then the clock. *)
Killed == IF child = "runs" THEN "killed" ELSE code
PollExit == pc = "poll" /\ child = "zombie" /\ Reap("exit", code)
PollCancel == pc = "poll" /\ cancel /\ Reap("cancelled", Killed)
PollTimeout == pc = "poll" /\ elapsed = Timeout /\ Reap("timed_out", Killed)

(* read_capped: keeps what fits, drops the rest and remembers that it did. *)
Keep(s) ==
  IF kept[s] < OutputCap
  THEN kept' = [kept EXCEPT ![s] = @ + 1] /\ UNCHANGED cut
  ELSE cut' = [cut EXCEPT ![s] = TRUE] /\ UNCHANGED kept

Read(s) ==
  /\ reader[s] = "reads" /\ pipe[s] > 0
  /\ pipe' = [pipe EXCEPT ![s] = @ - 1]
  /\ Keep(s)
  /\ UNCHANGED <<pc, processVars, sent, made, reader, elapsed, cancel, outcome, events>>

(* A read returns 0 only when every holder of the writing end is gone. *)
EndOfFile(s) ==
  /\ reader[s] = "reads" /\ pipe[s] = 0
  /\ child \in {"zombie", "reaped"} /\ ~heir
  /\ reader' = [reader EXCEPT ![s] = "ended"]
  /\ UNCHANGED <<pc, processVars, sent, pipe, made, kept, cut, elapsed, cancel, outcome, events>>

(* Both readers are joined, whatever the reason the loop ended for. *)
Joined == \A s \in Streams : reader[s] = "ended"
Join ==
  /\ pc = "join" /\ Joined
  /\ Return(outcome)
  /\ UNCHANGED <<processVars, sent, outputVars, elapsed, cancel>>
-----------------------------------------------------------------------------
Worker == Spawn \/ WritePrompt \/ StartReaders \/ PromptFails \/ PollExit \/ PollCancel \/ PollTimeout \/ Join
Readers == \E s \in Streams : Read(s) \/ EndOfFile(s)
Environment == Produce \/ TakePrompt \/ CloseStdin \/ LeaveHeir \/ HeirExits \/ Exit \/ Cancel

(* Everything this process runs goes on, and so does time; codex owes it   *)
(* nothing.                                                                *)
Next == Worker \/ Readers \/ Environment \/ Tick
Spec == Init /\ [][Next]_vars
FairSpec ==
  /\ Spec /\ WF_vars(Worker) /\ WF_vars(Tick)
  /\ \A s \in Streams : WF_vars(Read(s) \/ EndOfFile(s))
-----------------------------------------------------------------------------
(* Once the run has been reported the process is gone, except after a      *)
(* failed write of the prompt, where run_codex_command returns early and   *)
(* leaves it behind, running or as a zombie.                               *)
EndMeansReaped ==
  pc = "done" => child \in {"none", "reaped"} \/ outcome = "write_error"

(* A run that reports command.finished without the warning has kept every  *)
(* chunk that codex and what it started ever wrote (read_capped, the join  *)
(* of both readers): no output is lost silently.                           *)
FinishedIsWhole ==
  /\ \A s \in Streams : reader[s] # "absent" => made[s] >= kept[s] + pipe[s]
  /\ \A i \in 1..Len(events) :
       events[i] = "finished" =>
         /\ i = Len(events)
         /\ (\A j \in 1..i : events[j] # "warning") <=> (\A s \in Streams : kept[s] = made[s])

(* A command is reported as finished only when codex itself exited well,   *)
(* in a run that neither the flag nor the clock had ended before.          *)
FinishedIsEarned ==
  (\E i \in 1..Len(events) : events[i] = "finished") =>
    outcome = "exit" /\ code = "ok" /\ child = "reaped"

(* A run ends once codex has exited, or its time is up (the poll loop).    *)
TimeoutEnds == (pc \in {"prompt", "poll", "join"}) ~> (pc = "done")
=============================================================================
