------------------------------ MODULE SearchRun ------------------------------
(***************************************************************************)
(* The program around the iteration loop (main in main.rs): a launch looks *)
(* for a checkpoint to resume from, an iteration thread computes and sends *)
(* its numbers through a channel, the main thread writes them to files, or *)
(* compares them with the files of an earlier launch, until the thread     *)
(* ends.  The process may be killed at any moment, and be launched again   *)
(* on the files it left.                                                   *)
(*                                                                         *)
(* A number is known by its seed and the reverse-and-adds made from it.    *)
(* Of the reports only those that carry a number are kept: the others are  *)
(* printed and forgotten.                                                  *)
(***************************************************************************)
EXTENDS Integers, Sequences, FiniteSets, Functions

CONSTANTS
  Seed,         \* the seeds launches are given
  EndsWith,     \* EndsWith[s]: the seeds whose decimal ends with that of s
  CarryFree,    \* CarryFree[s]: the steps from s that carry nowhere
  Interval,     \* iterations between checkpoints
  Stops,        \* ends of the iteration range, excluded
  StartAts,     \* iterations --start-at may name
  MaxLaunches

ASSUME IntervalAssumption == Interval \in Nat \ {0}
ASSUME SeedAssumption == \A s \in Seed : s # "torn" /\ s \in EndsWith[s]
ASSUME StepAssumption == \A s \in Seed : CarryFree[s] \subseteq Nat \ {0}
ASSUME StopAssumption == Stops \subseteq Nat

VARIABLES
  files,      \* the checkpoint directory: what each file holds
  run,        \* the launch: seed, end of the range, whether --start-at
  worker,     \* the iteration thread
  reports,    \* the channel
  main,       \* what the main thread does, and with which report
  answers,    \* the results announced
  launches,
  exposed     \* history: whether a launch named its newest checkpoint, or
              \* a torn file was passed over because it was unreadable

vars == <<files, run, worker, reports, main, answers, launches, exposed>>

Number(s, n) == [seed |-> s, n |-> n]

(* A file that was not written to its end, and whatever is read from it.   *)
Torn == Number("torn", 0)
Advance(x) == IF x = Torn THEN Torn ELSE Number(x.seed, x.n + 1)

File(s, n) == [iteration |-> n, seed |-> s]
Up == main.at # "down"

-----------------------------------------------------------------------------
(* Launching *)

(* The files whose names end as a checkpoint of this seed's would. *)
CheckpointFiles(s) == {f \in DOMAIN files : f.seed \in EndsWith[s]}

(* The newest of them; that a launch went on from it would be a mutant.    *)
Newest(c) == {f \in c : \A g \in c : g.iteration <= f.iteration}

(* The last but one in the order of their iterations; files of the same    *)
(* iteration come in any order.                                            *)
SecondToLast(c) ==
  {f \in c : \E g \in c \ {f} :
     /\ f.iteration <= g.iteration
     /\ \A h \in c \ {f, g} : h.iteration <= f.iteration}

Idle == [at |-> "none"]

Start(s, stop, i, x) ==
  /\ run' = [seed |-> s, stop |-> stop, start |-> i]
  /\ worker' = [at |-> "iterating", i |-> i, value |-> x, carried |-> TRUE]
  /\ main' = [at |-> "receive"]

(* A checkpoint holds the number after its iteration. *)
Resume(s, stop, f) == Start(s, stop, f.iteration + 1, files[f])

Refused == UNCHANGED <<run, worker, main>>

(* --no-checkpoint, or too few files to resume from: from the seed. *)
LaunchFresh(s, stop) ==
  Start(s, stop, 1, Number(s, 0)) /\ UNCHANGED exposed

LaunchDefault(s, stop) ==
  LET c == SecondToLast(CheckpointFiles(s))
  IN  IF c = {} THEN LaunchFresh(s, stop)
      ELSE \E f \in c :
             /\ \/ Resume(s, stop, f)
                \/ files[f] = Torn /\ Refused    \* not even whole limbs
             /\ UNCHANGED exposed

(* --start-at: the checkpoint of that iteration, or none. *)
LaunchNamed(s, stop, n) ==
  LET c == {f \in CheckpointFiles(s) : f.iteration = n}
  IN  \/ c = {} /\ Refused /\ UNCHANGED exposed
      \/ \E f \in c :
           /\ \/ Resume(s, stop, f)
              \/ files[f] = Torn /\ Refused
           /\ exposed' = (exposed \/ f \in Newest(CheckpointFiles(s)))

Launch ==
  /\ ~Up
  /\ launches < MaxLaunches
  /\ launches' = launches + 1
  /\ \E s \in Seed, stop \in Stops :
       \/ LaunchFresh(s, stop)
       \/ LaunchDefault(s, stop)
       \/ \E n \in StartAts : LaunchNamed(s, stop, n)
  /\ UNCHANGED <<files, reports, answers>>

-----------------------------------------------------------------------------
(* The iteration thread *)

Ends == worker.i >= run.stop \/ ~worker.carried

(* One iteration, and the report of a checkpoint iteration. *)
Iterate ==
  /\ worker.at = "iterating"
  /\ ~Ends
  /\ LET x == Advance(worker.value)
     IN  /\ worker' = [at |-> "iterating", i |-> worker.i + 1, value |-> x,
                       carried |-> x = Torn \/ x.n \notin CarryFree[x.seed]]
         /\ reports' = IF worker.i % Interval = 0
                       THEN Append(reports, [iteration |-> worker.i, value |-> x])
                       ELSE reports
  /\ UNCHANGED <<files, run, main, answers, launches, exposed>>

(* Mutant: the thread keeps its end of the channel. *)
EndHolding ==
  /\ worker.at = "iterating"
  /\ Ends
  /\ worker' = [worker EXCEPT !.at = "holding"]
  /\ UNCHANGED <<files, run, reports, main, answers, launches, exposed>>

(* The range is done, or the number is a palindrome: the thread drops its  *)
(* end of the channel.                                                     *)
End ==
  /\ worker.at = "iterating"
  /\ Ends
  /\ worker' = [worker EXCEPT !.at = "done"]
  /\ UNCHANGED <<files, run, reports, main, answers, launches, exposed>>

(* A panic does so, too. *)
Die ==
  /\ worker.at = "iterating"
  /\ worker' = [worker EXCEPT !.at = "dead"]
  /\ UNCHANGED <<files, run, reports, main, answers, launches, exposed>>

-----------------------------------------------------------------------------
(* The main thread *)

(* The process ends, and the thread and the channel with it. *)
Exit ==
  /\ main' = [at |-> "down"]
  /\ worker' = Idle
  /\ reports' = <<>>
  /\ UNCHANGED <<run, launches, exposed>>

Incoming == Head(reports)
Target == File(run.seed, Incoming.iteration)
Take == reports' = Tail(reports)

Receiving == main.at = "receive" /\ reports # <<>>

(* Mutant: an existing file is written again. *)
CreateAlways ==
  /\ Receiving
  /\ files' = [f \in DOMAIN files \union {Target} |->
                 IF f = Target THEN Torn ELSE files[f]]
  /\ main' = [at |-> "write", file |-> Target, value |-> Incoming.value]
  /\ Take
  /\ UNCHANGED <<run, worker, answers, launches, exposed>>

(* A number nobody stored before: its file is created. *)
Create ==
  /\ Receiving
  /\ Target \notin DOMAIN files
  /\ files' = [f \in DOMAIN files \union {Target} |->
                 IF f = Target THEN Torn ELSE files[f]]
  /\ main' = [at |-> "write", file |-> Target, value |-> Incoming.value]
  /\ Take
  /\ UNCHANGED <<run, worker, answers, launches, exposed>>

(* And written to its end. *)
Write ==
  /\ main.at = "write"
  /\ files' = [files EXCEPT ![main.file] = main.value]
  /\ main' = [at |-> "receive"]
  /\ UNCHANGED <<run, worker, reports, answers, launches, exposed>>

(* Creating or writing fails: the process ends. *)
WriteFails ==
  /\ main.at = "write" \/ (Receiving /\ Target \notin DOMAIN files)
  /\ Exit
  /\ UNCHANGED <<files, answers>>

(* A number an earlier launch stored: it is compared with the file, and    *)
(* the process ends if they differ.                                        *)
Validate ==
  /\ Receiving
  /\ Target \in DOMAIN files
  /\ IF files[Target] = Incoming.value
     THEN Take /\ UNCHANGED <<run, worker, main, launches, exposed>>
     ELSE Exit
  /\ UNCHANGED <<files, answers>>

(* Unless the file cannot be opened or read: "Continuing anyway". *)
CannotRead ==
  /\ Receiving
  /\ Target \in DOMAIN files
  /\ Take
  /\ exposed' = (exposed \/ files[Target] = Torn)
  /\ UNCHANGED <<files, run, worker, main, answers, launches>>

(* Mutant: a range that was done counts as found. *)
AnswerInclusive ==
  [ seed |-> run.seed, stop |-> run.stop, found |-> worker.i <= run.stop,
    last |-> worker.i, value |-> worker.value ]

(* The result, "found" meaning that the thread ended early. *)
Answer ==
  [ seed |-> run.seed, stop |-> run.stop, found |-> worker.i < run.stop,
    last |-> worker.i, value |-> worker.value ]

(* Mutant: the thread is joined without draining the channel. *)
FinishAtOnce ==
  /\ main.at = "receive"
  /\ \/ worker.at = "done" /\ answers' = answers \union {Answer}
     \/ worker.at = "dead" /\ UNCHANGED answers
  /\ Exit
  /\ UNCHANGED files

(* The channel is empty and has no sender any more: the thread is joined.  *)
Finish ==
  /\ main.at = "receive"
  /\ reports = <<>>
  /\ \/ worker.at = "done" /\ answers' = answers \union {Answer}
     \/ worker.at = "dead" /\ UNCHANGED answers
  /\ Exit
  /\ UNCHANGED files

(* The process is killed. *)
Crash ==
  /\ Up
  /\ Exit
  /\ UNCHANGED <<files, answers>>

-----------------------------------------------------------------------------

Init ==
  /\ files = <<>>
  /\ run = [seed |-> CHOOSE s \in Seed : TRUE, stop |-> 0, start |-> 1]
  /\ worker = Idle
  /\ reports = <<>>
  /\ main = [at |-> "down"]
  /\ answers = {}
  /\ launches = 0
  /\ exposed = FALSE

Worker == Iterate \/ End
Main == Create \/ Write \/ Validate \/ Finish

Next ==
  \/ Launch
  \/ Worker \/ Die
  \/ Main \/ WriteFails \/ CannotRead
  \/ Crash

(* The operating system schedules both threads. *)
Spec == Init /\ [][Next]_vars /\ WF_vars(Worker) /\ WF_vars(Main)

-----------------------------------------------------------------------------
(* Properties *)

(* The properties below hold for every history of launches, kills, failed  *)
(* writes and unreadable files except those that are exposed.              *)

(* A run computes the number its iteration counter says, from whatever     *)
(* files the launches before it left, and however they ended.              *)
RunsOnTrueNumbers ==
  Up /\ ~exposed => worker.value = Number(run.seed, worker.i - 1)

(* The files of a seed follow each other without a gap, each holds the     *)
(* number of its iteration, and only the last may be torn: so the last but *)
(* one is always good to resume from.                                      *)
FilesSound ==
  ~exposed =>
    \A f \in DOMAIN files :
      /\ \/ files[f] = Number(f.seed, f.iteration)
         \/ /\ files[f] = Torn
            /\ \A g \in DOMAIN files : g.seed = f.seed => g.iteration <= f.iteration
      /\ \A n \in 1 .. f.iteration :
           n % Interval = 0 => File(f.seed, n) \in DOMAIN files

(* The first number of a seed that a palindrome test would find, if there  *)
(* is one within the range.                                                *)
Found(s, stop) == \E n \in CarryFree[s] : n > 0 /\ n + 1 < stop
First(s) == CHOOSE n \in CarryFree[s] : \A m \in CarryFree[s] : n <= m

(* Whatever happened to the launches before it, a run announces what an    *)
(* uninterrupted one would have: the first palindrome, if its range goes   *)
(* on for another iteration, else none.                                    *)
AnswersTrue ==
  ~exposed =>
    \A a \in answers :
      /\ a.found <=> Found(a.seed, a.stop)
      /\ a.found => a.value = Number(a.seed, First(a.seed))

(* A result is announced only when every number the run passed at a        *)
(* checkpoint iteration has a file.                                        *)
AnswersAfterFiles ==
  [][answers' # answers =>
       \A n \in run.start .. worker.i - 1 :
         n % Interval = 0 => File(run.seed, n) \in DOMAIN files]_vars

(* Every launch comes to its end: the channel closes. *)
RunEnds == Up ~> ~Up

(* "filter out those that are irrelevant to our current seed" (main.rs     *)
(* 421): a run goes on from a number of its own seed.                      *)
RunKeepsItsSeed == Up /\ worker.value # Torn => worker.value.seed = run.seed

=============================================================================
