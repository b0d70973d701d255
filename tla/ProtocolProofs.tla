--------------------------- MODULE ProtocolProofs ---------------------------
(***************************************************************************)
(* The two protocols between parties that run at their own pace: the       *)
(* launches of the program, over the checkpoint files, and the threads of  *)
(* a pool, over the spinning barrier.                                      *)
(*                                                                         *)
(* Launches, kills, failed writes and unreadable files, in any number and  *)
(* order, for any seeds of which none ends like another, any interval of   *)
(* the checkpoints, and any ranges: what a run computes, what the files    *)
(* hold and what is announced are what an uninterrupted run would have.    *)
(* The barrier implements the abstract one, for every finite set of        *)
(* participants and every generation counter with at least two values.     *)
(***************************************************************************)
EXTENDS SearchRun, SpinBarrier, SequenceTheorems, FiniteSetTheorems, TLAPS

-----------------------------------------------------------------------------
(* What holds of every history, an exposed one, too *)

(* No seed's decimal ends with that of another, so no launch takes another *)
(* seed's checkpoint for one of its own.                                   *)
EndsApart == \A s \in Seed : EndsWith[s] = {s}

FileName == {f \in [iteration : Nat \ {0}, seed : Seed] : f.iteration % Interval = 0}
Value == [seed : Seed \union {"torn"}, n : Nat]
Report == [iteration : Nat \ {0}, value : Value]

Stored ==
  /\ DOMAIN files \subseteq FileName
  /\ \A f \in DOMAIN files : files[f] \in Value

(* The iterations of the run, reported or stored, in their order.          *)
Covered ==
  /\ \A k \in 1 .. Len(reports) :
       /\ reports[k].iteration \in run.start .. worker.i - 1
       /\ reports[k].iteration % Interval = 0
  /\ \A j, k \in 1 .. Len(reports) :
       j < k => reports[j].iteration < reports[k].iteration
  /\ \A n \in run.start .. worker.i - 1 :
       n % Interval = 0 =>
         \/ File(run.seed, n) \in DOMAIN files
         \/ \E k \in 1 .. Len(reports) : reports[k].iteration = n

(* A file under way is of the run, and older than what is still to come.   *)
Writing ==
  main.at = "write" =>
    /\ main.file \in DOMAIN files /\ main.file.seed = run.seed
    /\ main.file.iteration \in run.start .. worker.i - 1
    /\ main.value \in Value
    /\ \A k \in 1 .. Len(reports) : main.file.iteration < reports[k].iteration

Running ==
  /\ run.seed \in Seed /\ run.start \in Nat \ {0} /\ run.stop \in Nat
  /\ worker \in [at : {"iterating", "done", "dead"}, i : Nat \ {0}, value : Value,
                 carried : BOOLEAN]
  /\ run.start <= worker.i
  /\ worker.at = "done" => Ends
  /\ reports \in Seq(Report)
  /\ Covered /\ Writing

RunInv ==
  /\ exposed \in BOOLEAN
  /\ main.at \in {"down", "receive", "write"}
  /\ Stored
  /\ ~Up => reports = <<>> /\ worker.at = "none"
  /\ Up => Running

-----------------------------------------------------------------------------
(* What holds of one that is not exposed *)

(* No step from s before that one carried nowhere. *)
CarriesBelow(s, n) == \A m \in 1 .. n - 1 : m \notin CarryFree[s]

FilesTrue == FilesSound /\ \A f \in DOMAIN files : CarriesBelow(f.seed, f.iteration)

(* What the run has stored or found stored is true; a file torn by an      *)
(* earlier launch is still ahead of it.                                    *)
RunTrue ==
  /\ worker.value = Number(run.seed, worker.i - 1)
  /\ worker.carried <=> worker.i - 1 \notin CarryFree[run.seed]
  /\ CarriesBelow(run.seed, worker.i - 1)
  /\ CarriesBelow(run.seed, run.start)
  /\ \A k \in 1 .. Len(reports) :
       reports[k].value = Number(run.seed, reports[k].iteration)
  /\ main.at = "write" =>
       /\ files[main.file] = Torn
       /\ main.value = Number(run.seed, main.file.iteration)
  /\ \A n \in 1 .. run.start - 1 :
       n % Interval = 0 => File(run.seed, n) \in DOMAIN files
  /\ \A f \in DOMAIN files :
       f.seed = run.seed /\ files[f] = Torn =>
         /\ run.start <= f.iteration
         /\ \/ worker.i <= f.iteration
            \/ main.at = "write" /\ main.file = f
            \/ \E k \in 1 .. Len(reports) : reports[k].iteration = f.iteration

TrueInv == ~exposed => FilesTrue /\ (Up => RunTrue) /\ AnswersTrue

-----------------------------------------------------------------------------
(* Files and reports *)

LEMMA Names ==
  /\ \A f \in FileName : f = File(f.seed, f.iteration)
  /\ \A s \in Seed : \A n \in Nat \ {0} :
       n % Interval = 0 => /\ File(s, n) \in FileName
                           /\ File(s, n).seed = s /\ File(s, n).iteration = n
  BY DEF FileName, File

LEMMA Numbers ==
  /\ \A s \in Seed : \A n \in Nat : Number(s, n) # Torn /\ Number(s, n) \in Value
  /\ Torn \in Value
  /\ \A x \in Value : Advance(x) \in Value
  /\ \A s \in Seed : \A n \in Nat : Advance(Number(s, n)) = Number(s, n + 1)
<1>1. \A s \in Seed : \A n \in Nat : Number(s, n) # Torn /\ Number(s, n) \in Value
  BY SeedAssumption DEF Number, Torn, Value
<1>2. Torn \in Value
  BY DEF Number, Torn, Value
<1>3. \A x \in Value : Advance(x) \in Value
  BY <1>2 DEF Advance, Number, Value
<1>4. \A s \in Seed : \A n \in Nat : Advance(Number(s, n)) = Number(s, n + 1)
  BY <1>1 DEF Advance, Number
<1>5. QED BY <1>1, <1>2, <1>3, <1>4

LEMMA FirstReport ==
  ASSUME reports \in Seq(Report), reports # <<>>
  PROVE  /\ Incoming = reports[1] /\ Incoming \in Report
         /\ Len(reports) \in Nat \ {0}
         /\ Tail(reports) \in Seq(Report) /\ Len(Tail(reports)) = Len(reports) - 1
         /\ \A k \in 1 .. Len(reports) - 1 : Tail(reports)[k] = reports[k + 1]
  BY DEF Incoming

LEMMA TargetNamed ==
  ASSUME RunInv, Receiving
  PROVE  /\ Running /\ reports # <<>> /\ Incoming \in Report
         /\ Incoming.iteration \in run.start .. worker.i - 1
         /\ Incoming.iteration \in Nat \ {0}
         /\ Target \in FileName /\ Target.seed = run.seed
         /\ Target.iteration = Incoming.iteration
<1>1. Running /\ reports # <<>> /\ reports \in Seq(Report)
  BY DEF RunInv, Receiving, Up, Running
<1>2. /\ Incoming = reports[1] /\ Incoming \in Report /\ 1 \in 1 .. Len(reports)
  BY <1>1, FirstReport
<1>3. /\ Incoming.iteration \in run.start .. worker.i - 1
      /\ Incoming.iteration % Interval = 0
      /\ Incoming.iteration \in Nat \ {0} /\ run.seed \in Seed
  BY <1>1, <1>2 DEF Running, Covered, Report
<1>4. QED BY <1>1, <1>2, <1>3, Names DEF Target

(* The channel without its first report. *)
LEMMA TakeReport ==
  ASSUME RunInv, Receiving, Take
  PROVE  /\ reports' \in Seq(Report)
         /\ \A k \in 1 .. Len(reports') :
              /\ k + 1 \in 1 .. Len(reports)
              /\ reports'[k] = reports[k + 1]
              /\ Incoming.iteration < reports'[k].iteration
         /\ \A k \in 1 .. Len(reports) :
              \/ reports[k] = Incoming
              \/ k - 1 \in 1 .. Len(reports') /\ reports'[k - 1] = reports[k]
<1>1. /\ Running /\ reports # <<>> /\ reports \in Seq(Report) /\ Covered
  BY DEF RunInv, Receiving, Up, Running
<1>2. /\ Incoming = reports[1]
      /\ Len(reports) \in Nat \ {0}
      /\ reports' \in Seq(Report) /\ Len(reports') = Len(reports) - 1
      /\ \A k \in 1 .. Len(reports) - 1 : reports'[k] = reports[k + 1]
  BY <1>1, FirstReport DEF Take
<1>3. ASSUME NEW k \in 1 .. Len(reports')
      PROVE  /\ k + 1 \in 1 .. Len(reports) /\ reports'[k] = reports[k + 1]
             /\ Incoming.iteration < reports'[k].iteration
  <2>1. k + 1 \in 1 .. Len(reports) /\ 1 \in 1 .. Len(reports) /\ 1 < k + 1
    BY <1>2
  <2>2. reports'[k] = reports[k + 1]
    BY <1>2
  <2>3. QED BY <1>1, <1>2, <2>1, <2>2 DEF Covered
<1>4. ASSUME NEW k \in 1 .. Len(reports), k # 1
      PROVE  k - 1 \in 1 .. Len(reports') /\ reports'[k - 1] = reports[k]
  BY <1>2, <1>4
<1>5. QED BY <1>2, <1>3, <1>4

-----------------------------------------------------------------------------
(* Every history *)

LEMMA RunInit == Init => RunInv
<1> SUFFICES ASSUME Init PROVE RunInv
  OBVIOUS
<1>1. /\ files = <<>> /\ reports = <<>> /\ main = [at |-> "down"] /\ exposed = FALSE
      /\ worker = [at |-> "none"]
  BY DEF Init, Idle
<1>2. DOMAIN files = {}
  BY <1>1
<1>3. QED BY <1>1, <1>2 DEF RunInv, Stored, Up

(* The process ends. *)
LEMMA RunExit ==
  ASSUME RunInv, Exit, UNCHANGED files
  PROVE  RunInv'
  BY DEF RunInv, Exit, Stored, Up, Idle

LEMMA RunStarts ==
  ASSUME RunInv, ~Up, UNCHANGED <<files, reports>>, exposed' \in BOOLEAN,
         NEW s \in Seed, NEW stop \in Stops, NEW i \in Nat \ {0}, NEW x \in Value,
         Start(s, stop, i, x)
  PROVE  RunInv'
<1>1. /\ run' = [seed |-> s, stop |-> stop, start |-> i]
      /\ worker' = [at |-> "iterating", i |-> i, value |-> x, carried |-> TRUE]
      /\ main' = [at |-> "receive"] /\ reports' = <<>>
  BY DEF Start, RunInv
<1>2. Stored'
  BY DEF RunInv, Stored
<1>3. Covered' /\ Writing'
  BY <1>1 DEF Covered, Writing
<1>4. Running'
  BY <1>1, <1>3, StopAssumption DEF Running
<1>5. QED BY <1>1, <1>2, <1>4 DEF RunInv, Up

LEMMA RunResumes ==
  ASSUME RunInv, ~Up, UNCHANGED <<files, reports>>, exposed' \in BOOLEAN,
         NEW s \in Seed, NEW stop \in Stops, NEW f \in DOMAIN files,
         Resume(s, stop, f)
  PROVE  RunInv'
<1>1. f.iteration + 1 \in Nat \ {0} /\ files[f] \in Value
  BY DEF RunInv, Stored, FileName
<1>2. QED BY <1>1, RunStarts DEF Resume

LEMMA RunRefused ==
  ASSUME RunInv, UNCHANGED <<files, reports>>, exposed' \in BOOLEAN, Refused, ~Up
  PROVE  RunInv'
  BY DEF RunInv, Refused, Stored, Up

LEMMA RunLaunch == RunInv /\ Launch => RunInv'
<1> SUFFICES ASSUME RunInv, Launch PROVE RunInv'
  OBVIOUS
<1>1. PICK s \in Seed, stop \in Stops :
        \/ LaunchFresh(s, stop)
        \/ LaunchDefault(s, stop)
        \/ \E n \in StartAts : LaunchNamed(s, stop, n)
  BY DEF Launch
<1>2. ~Up /\ UNCHANGED <<files, reports>> /\ exposed \in BOOLEAN
  BY DEF Launch, RunInv
<1>3. CASE LaunchFresh(s, stop)
  <2>1. 1 \in Nat \ {0} /\ Number(s, 0) \in Value
    BY Numbers
  <2>2. QED BY <1>2, <1>3, <2>1, RunStarts DEF LaunchFresh
<1>4. CASE LaunchDefault(s, stop) /\ ~LaunchFresh(s, stop)
  <2>1. PICK f \in SecondToLast(CheckpointFiles(s)) :
          (Resume(s, stop, f) \/ Refused) /\ UNCHANGED exposed
    BY <1>4 DEF LaunchDefault
  <2>2. f \in DOMAIN files
    BY DEF SecondToLast, CheckpointFiles
  <2>3. QED BY <1>2, <2>1, <2>2, RunResumes, RunRefused
<1>5. ASSUME NEW n \in StartAts, LaunchNamed(s, stop, n) PROVE RunInv'
  <2>1. exposed' \in BOOLEAN
    BY <1>2, <1>5 DEF LaunchNamed
  <2>2. Refused \/ \E f \in DOMAIN files : Resume(s, stop, f)
    BY <1>5 DEF LaunchNamed, CheckpointFiles
  <2>3. QED BY <1>2, <2>1, <2>2, RunResumes, RunRefused
<1>6. QED BY <1>1, <1>3, <1>4, <1>5

LEMMA RunIterate == RunInv /\ Iterate => RunInv'
<1> SUFFICES ASSUME RunInv, Iterate PROVE RunInv'
  OBVIOUS
<1> DEFINE i == worker.i
           x == Advance(worker.value)
           new == [iteration |-> i, value |-> x]
<1>1. /\ worker' = [at |-> "iterating", i |-> i + 1, value |-> x,
                    carried |-> x = Torn \/ x.n \notin CarryFree[x.seed]]
      /\ reports' = IF i % Interval = 0 THEN Append(reports, new) ELSE reports
      /\ UNCHANGED <<files, run, main, exposed>>
      /\ worker.at = "iterating"
  BY DEF Iterate
<1>2. Up /\ Running
  BY <1>1 DEF RunInv
<1>3. /\ i \in Nat \ {0} /\ i + 1 \in Nat \ {0} /\ run.start <= i + 1
      /\ run.start \in Nat \ {0} /\ reports \in Seq(Report) /\ x \in Value
      /\ Len(reports) \in Nat /\ Covered /\ Writing
  <2>1. worker.value \in Value /\ i \in Nat \ {0}
    BY <1>2 DEF Running
  <2>2. x \in Value
    BY <2>1, Numbers
  <2> HIDE DEF x
  <2>3. reports \in Seq(Report) /\ Covered /\ Writing
    BY <1>2 DEF Running
  <2>4. run.start \in Nat \ {0} /\ run.start <= i
    BY <1>2 DEF Running
  <2>5. i + 1 \in Nat \ {0} /\ run.start <= i + 1
    BY <2>1, <2>4
  <2>6. Len(reports) \in Nat
    BY <2>3
  <2>7. QED BY <2>1, <2>2, <2>3, <2>4, <2>5, <2>6
<1> HIDE DEF x
<1>4. CASE i % Interval # 0
  <2>1. reports' = reports
    BY <1>1, <1>4, SMTT(60)
  <2>2. Covered'
    <3>1. \A n \in run.start .. i + 1 - 1 :
            n % Interval = 0 => n \in run.start .. i - 1
      BY <1>3, <1>4
    <3>2. \A k \in 1 .. Len(reports) : reports[k].iteration \in run.start .. i + 1 - 1
      <4>1. \A k \in 1 .. Len(reports) : reports[k].iteration \in run.start .. i - 1
        BY <1>3 DEF Covered
      <4>2. run.start .. i - 1 \subseteq run.start .. i + 1 - 1
        BY <1>2, <1>3 DEF Running
      <4>3. QED BY ONLY <4>1, <4>2
    <3>3. QED BY <1>1, <1>3, <2>1, <3>1, <3>2, SMTT(60) DEF Covered
  <2>3. Writing'
    <3> SUFFICES ASSUME main.at = "write" PROVE Writing'
      BY <1>1 DEF Writing
    <3>1. /\ main.file \in DOMAIN files /\ main.file.seed = run.seed
          /\ main.file.iteration \in run.start .. i - 1 /\ main.value \in Value
          /\ \A k \in 1 .. Len(reports) : main.file.iteration < reports[k].iteration
      BY <1>3 DEF Writing
    <3>2. run.start .. i - 1 \subseteq run.start .. i + 1 - 1
      BY <1>2, <1>3 DEF Running
    <3>3. worker'.i = i + 1
      BY <1>1
    <3>4. main.file.iteration \in run.start .. worker'.i - 1
      BY ONLY <1>3, <3>1, <3>2, <3>3, SMTT(60)
    <3>5. main' = main /\ run' = run /\ files' = files /\ reports' = reports
      BY <1>1, <2>1
    <3>6. QED BY ONLY <3>1, <3>4, <3>5 DEF Writing
  <2>4. Running'
    BY <1>1, <1>2, <1>3, <2>1, <2>2, <2>3 DEF Running
  <2>5. QED BY <1>1, <1>2, <2>4 DEF RunInv, Up, Stored
<1>5. CASE i % Interval = 0
  <2>1. new \in Report
    BY <1>3 DEF Report
  <2>2. /\ reports' \in Seq(Report) /\ Len(reports') = Len(reports) + 1
        /\ \A k \in 1 .. Len(reports) : reports'[k] = reports[k]
        /\ reports'[Len(reports) + 1] = new /\ new.iteration = i
    BY <1>1, <1>3, <1>5, <2>1
  <2> HIDE DEF new
  <2>3. \A k \in 1 .. Len(reports') : k \in 1 .. Len(reports) \/ k = Len(reports) + 1
    BY <1>3, <2>2
  <2>4. Covered'
    <3>1. \A k \in 1 .. Len(reports') :
            /\ reports'[k].iteration \in run.start .. i + 1 - 1
            /\ reports'[k].iteration % Interval = 0
      <4>1. ASSUME NEW k \in 1 .. Len(reports)
            PROVE  /\ reports'[k].iteration \in run.start .. i + 1 - 1
                   /\ reports'[k].iteration % Interval = 0
        <5>1. /\ reports[k].iteration \in run.start .. i - 1
              /\ reports[k].iteration % Interval = 0
          BY <1>3 DEF Covered
        <5>2. reports'[k] = reports[k]
          BY <2>2
        <5>3. run.start .. i - 1 \subseteq run.start .. i + 1 - 1
          BY <1>2, <1>3 DEF Running
        <5>4. QED BY ONLY <5>1, <5>2, <5>3
      <4>2. i \in run.start .. i + 1 - 1
        BY <1>2, <1>3 DEF Running
      <4>3. QED BY <1>5, <2>2, <2>3, <4>1, <4>2
    <3>2. ASSUME NEW j \in 1 .. Len(reports'), NEW k \in 1 .. Len(reports'), j < k
          PROVE  reports'[j].iteration < reports'[k].iteration
      <4>1. j \in 1 .. Len(reports)
        BY <1>3, <2>3, <3>2, SMTT(60)
      <4>2. reports[j].iteration \in run.start .. i - 1 /\ reports[j].iteration < i
        BY <1>3, <4>1, SMTT(60) DEF Covered
      <4>3. CASE k \in 1 .. Len(reports)
        BY <1>3, <2>2, <3>2, <4>1, <4>3 DEF Covered
      <4>4. CASE k = Len(reports) + 1
        BY <2>2, <4>1, <4>2, <4>4
      <4>5. QED BY <2>3, <4>3, <4>4
    <3>3. ASSUME NEW n \in run.start .. i + 1 - 1, n % Interval = 0
          PROVE  \/ File(run.seed, n) \in DOMAIN files
                 \/ \E k \in 1 .. Len(reports') : reports'[k].iteration = n
      <4>1. CASE n = i
        <5>1. Len(reports) + 1 \in 1 .. Len(reports')
          BY <1>3, <2>2
        <5>2. QED BY <2>2, <4>1, <5>1
      <4>2. CASE n \in run.start .. i - 1
        <5>1. \/ File(run.seed, n) \in DOMAIN files
              \/ \E k \in 1 .. Len(reports) : reports[k].iteration = n
          BY <1>3, <3>3, <4>2 DEF Covered
        <5>2. \A k \in 1 .. Len(reports) : k \in 1 .. Len(reports')
          BY <1>3, <2>2
        <5>3. QED BY <2>2, <5>1, <5>2
      <4>3. QED BY <1>3, <4>1, <4>2
    <3>4. worker'.i = i + 1 /\ run' = run /\ files' = files
      BY <1>1
    <3> HIDE DEF i
    <3>5. \A n \in run'.start .. worker'.i - 1 :
            n % Interval = 0 =>
              \/ File(run'.seed, n) \in DOMAIN files'
              \/ \E k \in 1 .. Len(reports') : reports'[k].iteration = n
      BY ONLY <1>3, <3>3, <3>4, SMTT(60)
    <3>6. \A k \in 1 .. Len(reports') :
            /\ reports'[k].iteration \in run'.start .. worker'.i - 1
            /\ reports'[k].iteration % Interval = 0
      BY ONLY <1>3, <3>1, <3>4
    <3>7. QED BY ONLY <3>2, <3>5, <3>6 DEF Covered
  <2>5. Writing'
    <3> SUFFICES ASSUME main.at = "write" PROVE Writing'
      BY <1>1 DEF Writing
    <3>1. main.file.iteration \in run.start .. i + 1 - 1 /\ main.file.iteration < i
      BY <1>3, SMTT(60) DEF Writing
    <3>2. \A k \in 1 .. Len(reports') : main.file.iteration < reports'[k].iteration
      BY <1>3, <2>2, <2>3, <3>1 DEF Writing
    <3>3. QED BY <1>1, <1>3, <3>1, <3>2, SMTT(60) DEF Writing
  <2>6. Running'
    BY <1>1, <1>2, <1>3, <2>2, <2>4, <2>5 DEF Running
  <2>7. QED BY <1>1, <1>2, <2>6 DEF RunInv, Up, Stored
<1>6. QED BY <1>4, <1>5

LEMMA RunEnded == RunInv /\ (End \/ Die) => RunInv'
<1> SUFFICES ASSUME RunInv, End \/ Die PROVE RunInv'
  OBVIOUS
<1>1. /\ worker.at = "iterating"
      /\ \E at \in {"done", "dead"} : worker' = [worker EXCEPT !.at = at]
      /\ UNCHANGED <<files, run, reports, main, exposed>>
  BY DEF End, Die
<1>2. Up /\ Running
  BY <1>1 DEF RunInv
<1>3. /\ worker' \in [at : {"iterating", "done", "dead"}, i : Nat \ {0}, value : Value,
                      carried : BOOLEAN]
      /\ worker'.i = worker.i
      /\ worker'.at = "done" => Ends'
  BY <1>1, <1>2 DEF Running, Ends, End, Die
<1>4. Covered' /\ Writing'
  BY <1>1, <1>2, <1>3 DEF Running, Covered, Writing
<1>5. Running'
  BY <1>1, <1>2, <1>3, <1>4 DEF Running
<1>6. QED BY <1>1, <1>2, <1>5 DEF RunInv, Stored, Up

(* The first report is taken when its file exists. *)
LEMMA RunTakes ==
  ASSUME RunInv, Receiving, Target \in DOMAIN files, Take,
         UNCHANGED <<files, run, worker, main>>, exposed' \in BOOLEAN
  PROVE  RunInv'
<1>1. Up /\ Running /\ Covered /\ main.at = "receive"
  BY DEF RunInv, Receiving, Up, Running
<1>2. /\ reports' \in Seq(Report)
      /\ \A k \in 1 .. Len(reports') :
           k + 1 \in 1 .. Len(reports) /\ reports'[k] = reports[k + 1]
      /\ \A k \in 1 .. Len(reports) :
           \/ reports[k] = Incoming
           \/ k - 1 \in 1 .. Len(reports') /\ reports'[k - 1] = reports[k]
  BY TakeReport
<1>3. \A j, k \in 1 .. Len(reports') : j < k => reports'[j].iteration < reports'[k].iteration
  <2> SUFFICES ASSUME NEW j \in 1 .. Len(reports'), NEW k \in 1 .. Len(reports'), j < k
               PROVE  reports'[j].iteration < reports'[k].iteration
    OBVIOUS
  <2>1. j + 1 < k + 1
    OBVIOUS
  <2>2. QED BY <1>1, <1>2, <2>1, ZenonT(60) DEF Covered
<1>4. \A n \in run.start .. worker.i - 1 :
        n % Interval = 0 =>
          \/ File(run.seed, n) \in DOMAIN files
          \/ \E k \in 1 .. Len(reports') : reports'[k].iteration = n
  <2> SUFFICES ASSUME NEW n \in run.start .. worker.i - 1, n % Interval = 0,
                      File(run.seed, n) \notin DOMAIN files
               PROVE  \E k \in 1 .. Len(reports') : reports'[k].iteration = n
    OBVIOUS
  <2>1. PICK k \in 1 .. Len(reports) : reports[k].iteration = n
    BY <1>1 DEF Covered
  <2>2. reports[k] # Incoming
    BY <2>1 DEF Target
  <2>3. QED BY <1>2, <2>1, <2>2, ZenonT(60)
<1>5. \A k \in 1 .. Len(reports') :
        /\ reports'[k].iteration \in run.start .. worker.i - 1
        /\ reports'[k].iteration % Interval = 0
  BY <1>1, <1>2, SMTT(60) DEF Covered
<1>6. Covered'
  BY <1>3, <1>4, <1>5 DEF Covered
<1>7. Writing'
  BY <1>1 DEF Writing
<1>8. Running'
  BY <1>1, <1>2, <1>6, <1>7 DEF Running, Ends
<1>9. QED BY <1>1, <1>8 DEF RunInv, Stored, Up

LEMMA RunCreate == RunInv /\ Create => RunInv'
<1> SUFFICES ASSUME RunInv, Create PROVE RunInv'
  OBVIOUS
<1>1. /\ Receiving /\ Take
      /\ files' = [f \in DOMAIN files \union {Target} |->
                     IF f = Target THEN Torn ELSE files[f]]
      /\ main' = [at |-> "write", file |-> Target, value |-> Incoming.value]
      /\ UNCHANGED <<run, worker, exposed>>
  BY DEF Create
<1>2. /\ Up /\ Running /\ Covered /\ Incoming \in Report
      /\ Incoming.iteration \in run.start .. worker.i - 1
      /\ Target \in FileName /\ Target.seed = run.seed
      /\ Target.iteration = Incoming.iteration
  BY <1>1, TargetNamed DEF RunInv, Receiving, Up, Running
<1>3. /\ reports' \in Seq(Report)
      /\ \A k \in 1 .. Len(reports') :
           /\ k + 1 \in 1 .. Len(reports) /\ reports'[k] = reports[k + 1]
           /\ Incoming.iteration < reports'[k].iteration
      /\ \A k \in 1 .. Len(reports) :
           \/ reports[k] = Incoming
           \/ k - 1 \in 1 .. Len(reports') /\ reports'[k - 1] = reports[k]
  BY <1>1, TakeReport
<1>4. DOMAIN files' = DOMAIN files \union {Target}
  BY <1>1
<1>5. Stored'
  BY <1>1, <1>2, <1>4, Numbers DEF RunInv, Stored
<1>6. Covered'
  <2>1. \A j, k \in 1 .. Len(reports') :
          j < k => reports'[j].iteration < reports'[k].iteration
    <3> SUFFICES ASSUME NEW j \in 1 .. Len(reports'), NEW k \in 1 .. Len(reports'), j < k
                 PROVE  reports'[j].iteration < reports'[k].iteration
      OBVIOUS
    <3>1. j + 1 < k + 1
      OBVIOUS
    <3>2. QED BY <1>2, <1>3, <3>1, ZenonT(60) DEF Covered
  <2>2. ASSUME NEW n \in run.start .. worker.i - 1, n % Interval = 0
        PROVE  \/ File(run.seed, n) \in DOMAIN files'
               \/ \E k \in 1 .. Len(reports') : reports'[k].iteration = n
    <3>1. CASE File(run.seed, n) \in DOMAIN files
      BY <1>4, <3>1
    <3>2. ASSUME NEW k \in 1 .. Len(reports), reports[k].iteration = n
          PROVE  \/ File(run.seed, n) \in DOMAIN files'
                 \/ \E m \in 1 .. Len(reports') : reports'[m].iteration = n
      <4>1. CASE reports[k] = Incoming
        BY <1>4, <3>2, <4>1 DEF Target
      <4>2. CASE reports[k] # Incoming
        BY <1>3, <3>2, <4>2
      <4>3. QED BY <4>1, <4>2
    <3>3. QED BY <1>2, <2>2, <3>1, <3>2 DEF Covered
  <2>3. \A k \in 1 .. Len(reports') :
          /\ reports'[k].iteration \in run.start .. worker.i - 1
          /\ reports'[k].iteration % Interval = 0
    BY <1>2, <1>3, SMTT(60) DEF Covered
  <2>4. QED BY <1>1, <2>1, <2>2, <2>3 DEF Covered
<1>7. Writing'
  <2>1. Target \in DOMAIN files' /\ Incoming.value \in Value
    BY <1>2, <1>4 DEF Report
  <2>2. QED BY <1>1, <1>2, <1>3, <2>1 DEF Writing
<1>8. Running'
  BY <1>1, <1>2, <1>3, <1>6, <1>7 DEF Running, Ends
<1>9. QED BY <1>1, <1>5, <1>8 DEF RunInv, Up

LEMMA RunWrite == RunInv /\ Write => RunInv'
<1> SUFFICES ASSUME RunInv, Write PROVE RunInv'
  OBVIOUS
<1>1. /\ main.at = "write" /\ files' = [files EXCEPT ![main.file] = main.value]
      /\ main' = [at |-> "receive"]
      /\ UNCHANGED <<run, worker, reports, exposed>>
  BY DEF Write
<1>2. Up /\ Running /\ main.value \in Value
  BY <1>1 DEF RunInv, Up, Running, Writing
<1>3. DOMAIN files' = DOMAIN files
  BY <1>1
<1>4. Stored'
  BY <1>1, <1>2, <1>3 DEF RunInv, Stored
<1>5. Covered' /\ Writing'
  BY <1>1, <1>2, <1>3 DEF Running, Covered, Writing
<1>6. Running'
  BY <1>1, <1>2, <1>5 DEF Running, Ends
<1>7. QED BY <1>1, <1>4, <1>6 DEF RunInv, Up

LEMMA RunStep == RunInv /\ [Next]_vars => RunInv'
<1> SUFFICES ASSUME RunInv, [Next]_vars PROVE RunInv'
  OBVIOUS
<1>1. CASE Launch              BY <1>1, RunLaunch
<1>2. CASE Worker \/ Die       BY <1>2, RunIterate, RunEnded DEF Worker
<1>3. CASE Create              BY <1>3, RunCreate
<1>4. CASE Write               BY <1>4, RunWrite
<1>5. CASE Validate
  <2>1. CASE files[Target] = Incoming.value
    BY <1>5, <2>1, RunTakes DEF Validate, RunInv
  <2>2. CASE files[Target] # Incoming.value
    BY <1>5, <2>2, RunExit DEF Validate
  <2>3. QED BY <2>1, <2>2
<1>6. CASE CannotRead
  <2>1. exposed' \in BOOLEAN
    BY <1>6 DEF CannotRead, RunInv
  <2>2. QED BY <1>6, <2>1, RunTakes DEF CannotRead
<1>7. CASE Finish \/ WriteFails \/ Crash
  BY <1>7, RunExit DEF Finish, WriteFails, Crash
<1>8. CASE UNCHANGED vars
  BY <1>8 DEF vars, RunInv, Stored, Up, Running, Covered, Writing, Ends
<1>9. QED BY <1>1, <1>2, <1>3, <1>4, <1>5, <1>6, <1>7, <1>8 DEF Next, Main

LEMMA RunSound == Spec => []RunInv
  BY RunInit, RunStep, PTL DEF Spec

(* A result is announced only when every number the run passed at a        *)
(* checkpoint iteration has a file (main.rs drains the channel before it   *)
(* joins the thread), in every history.                                    *)
THEOREM NothingAnnouncedUnsaved == Spec => AnswersAfterFiles
<1>1. ASSUME RunInv, [Next]_vars, answers' # answers
      PROVE  \A n \in run.start .. worker.i - 1 :
               n % Interval = 0 => File(run.seed, n) \in DOMAIN files
  <2>1. Finish
    BY <1>1 DEF Next, vars, Launch, Worker, Iterate, End, Die, Main, Create, Write, Validate,
                WriteFails, CannotRead, Crash
  <2>2. Running /\ reports = <<>>
    BY <1>1, <2>1 DEF RunInv, Up, Finish
  <2>3. Len(reports) = 0
    BY <2>2
  <2>4. QED BY <2>2, <2>3 DEF Running, Covered
<1>2. RunInv /\ [Next]_vars =>
        [answers' # answers =>
           \A n \in run.start .. worker.i - 1 :
             n % Interval = 0 => File(run.seed, n) \in DOMAIN files]_vars
  BY <1>1
<1>3. QED BY <1>2, RunSound, PTL DEF Spec, AnswersAfterFiles

-----------------------------------------------------------------------------
(* Histories that are not exposed *)

LEMMA TrueInit == Init => TrueInv
<1> SUFFICES ASSUME Init PROVE TrueInv
  OBVIOUS
<1>1. files = <<>> /\ main = [at |-> "down"] /\ answers = {}
  BY DEF Init
<1>2. DOMAIN files = {}
  BY <1>1
<1>3. QED BY <1>1, <1>2 DEF TrueInv, FilesTrue, FilesSound, AnswersTrue, Up

(* A run from the number after iteration i - 1, which no earlier step      *)
(* without a carry precedes, and behind which all files are whole.         *)
LEMMA TrueStarts ==
  ASSUME RunInv, TrueInv, ~Up, ~exposed, UNCHANGED <<files, reports, answers>>,
         NEW s \in Seed, NEW stop \in Stops, NEW i \in Nat \ {0},
         Start(s, stop, i, Number(s, i - 1)),
         CarriesBelow(s, i),
         \A n \in 1 .. i - 1 : n % Interval = 0 => File(s, n) \in DOMAIN files,
         \A f \in DOMAIN files : f.seed = s /\ files[f] = Torn => i <= f.iteration
  PROVE  TrueInv'
<1>1. /\ run' = [seed |-> s, stop |-> stop, start |-> i]
      /\ worker' = [at |-> "iterating", i |-> i, value |-> Number(s, i - 1), carried |-> TRUE]
      /\ main' = [at |-> "receive"] /\ reports' = <<>>
  BY DEF Start, RunInv
<1>2. FilesTrue' /\ AnswersTrue'
  BY DEF TrueInv, FilesTrue, FilesSound, AnswersTrue
<1>3. i - 1 \notin CarryFree[s]
  <2>1. i - 1 = 0 \/ i - 1 \in 1 .. i - 1
    OBVIOUS
  <2>2. QED BY <2>1, StepAssumption DEF CarriesBelow
<1>4. CarriesBelow(s, i - 1)
  BY DEF CarriesBelow
<1>5. RunTrue'
  BY <1>1, <1>3, <1>4 DEF RunTrue
<1>6. QED BY <1>2, <1>5 DEF TrueInv

(* A file that another of its seed follows is good to resume from.         *)
LEMMA TrueResumes ==
  ASSUME EndsApart, RunInv, TrueInv, ~Up, ~exposed, UNCHANGED <<files, reports, answers>>,
         NEW s \in Seed, NEW stop \in Stops,
         NEW f \in CheckpointFiles(s), NEW g \in CheckpointFiles(s),
         f.iteration < g.iteration, Resume(s, stop, f)
  PROVE  TrueInv'
<1>1. /\ f \in DOMAIN files /\ g \in DOMAIN files /\ f.seed = s /\ g.seed = s
      /\ f.iteration \in Nat \ {0} /\ g.iteration \in Nat \ {0}
  <2>1. f \in DOMAIN files /\ g \in DOMAIN files /\ f.seed \in EndsWith[s] /\ g.seed \in EndsWith[s]
    BY DEF CheckpointFiles
  <2>2. EndsWith[s] = {s}
    BY DEF EndsApart
  <2>3. QED BY <2>1, <2>2 DEF RunInv, Stored, FileName
<1>2. FilesSound /\ CarriesBelow(s, g.iteration)
  BY <1>1 DEF TrueInv, FilesTrue
<1>3. files[f] = Number(s, f.iteration)
  BY <1>1, <1>2 DEF FilesSound
<1> DEFINE i == f.iteration + 1
<1>4. i \in Nat \ {0} /\ i - 1 = f.iteration
  BY <1>1
<1>5. Start(s, stop, i, Number(s, i - 1))
  BY <1>3, <1>4 DEF Resume
<1>6. CarriesBelow(s, i)
  BY <1>1, <1>2 DEF CarriesBelow
<1>7. \A n \in 1 .. i - 1 : n % Interval = 0 => File(s, n) \in DOMAIN files
  BY <1>1, <1>2, <1>4 DEF FilesSound
<1>8. \A h \in DOMAIN files : h.seed = s /\ files[h] = Torn => i <= h.iteration
  <2> SUFFICES ASSUME NEW h \in DOMAIN files, h.seed = s, files[h] = Torn
               PROVE  i <= h.iteration
    OBVIOUS
  <2>1. h.iteration \in Nat
    BY DEF RunInv, Stored, FileName
  <2>2. files[h] # Number(h.seed, h.iteration)
    BY <2>1, Numbers
  <2>3. g.iteration <= h.iteration
    BY <1>1, <1>2, <2>2 DEF FilesSound
  <2>4. QED BY <1>1, <2>1, <2>3
<1> HIDE DEF i
<1>9. QED BY <1>4, <1>5, <1>6, <1>7, <1>8, TrueStarts

LEMMA TrueRefused ==
  ASSUME TrueInv, ~Up, UNCHANGED <<files, answers>>, Refused, exposed => exposed'
  PROVE  TrueInv'
  BY DEF TrueInv, Refused, FilesTrue, FilesSound, AnswersTrue, Up

LEMMA TrueLaunch ==
  ASSUME EndsApart, RunInv, TrueInv, Launch
  PROVE  TrueInv'
<1>1. PICK s \in Seed, stop \in Stops :
        \/ LaunchFresh(s, stop)
        \/ LaunchDefault(s, stop)
        \/ \E n \in StartAts : LaunchNamed(s, stop, n)
  BY DEF Launch
<1>2. ~Up /\ UNCHANGED <<files, reports, answers>> /\ exposed \in BOOLEAN
  BY DEF Launch, RunInv
<1>3. CheckpointFiles(s) = {f \in DOMAIN files : f.seed = s}
      /\ \A f \in CheckpointFiles(s) : f \in FileName /\ f.iteration \in Nat /\ f.seed = s
  BY DEF CheckpointFiles, EndsApart, RunInv, Stored, FileName
<1>4. CASE LaunchFresh(s, stop)
  <2>1. CASE exposed
    BY <1>4, <2>1 DEF LaunchFresh, TrueInv
  <2>2. CASE ~exposed
    <3>1. Start(s, stop, 1, Number(s, 1 - 1)) /\ 1 \in Nat \ {0}
      BY <1>4 DEF LaunchFresh
    <3>2. CarriesBelow(s, 1) /\ 1 .. 1 - 1 = {}
      BY DEF CarriesBelow
    <3>3. \A f \in DOMAIN files : f.seed = s /\ files[f] = Torn => 1 <= f.iteration
      BY DEF RunInv, Stored, FileName
    <3>4. \A n \in 1 .. 1 - 1 : n % Interval = 0 => File(s, n) \in DOMAIN files
      BY <3>2
    <3>5. QED BY <1>2, <2>2, <3>1, <3>2, <3>3, <3>4, TrueStarts
  <2>3. QED BY <2>1, <2>2
<1>5. CASE LaunchDefault(s, stop) /\ ~LaunchFresh(s, stop)
  <2>1. PICK f \in SecondToLast(CheckpointFiles(s)) :
          (Resume(s, stop, f) \/ Refused) /\ UNCHANGED exposed
    BY <1>5 DEF LaunchDefault
  <2>2. f \in CheckpointFiles(s) /\ \E g \in CheckpointFiles(s) : g # f /\ f.iteration <= g.iteration
    BY DEF SecondToLast
  <2>3. PICK g \in CheckpointFiles(s) : g # f /\ f.iteration <= g.iteration
    BY <2>2
  <2>4. f.iteration < g.iteration
    <3>1. f = File(s, f.iteration) /\ g = File(s, g.iteration)
      BY <1>3, <2>2, Names
    <3>2. f.iteration # g.iteration
      BY <2>3, <3>1
    <3>3. QED BY <1>3, <2>2, <2>3, <3>2
  <2>5. CASE exposed
    BY <2>1, <2>5 DEF TrueInv
  <2>6. CASE ~exposed /\ Resume(s, stop, f)
    BY <1>2, <2>2, <2>4, <2>6, TrueResumes
  <2>7. CASE Refused
    BY <1>2, <2>1, <2>7, TrueRefused
  <2>8. QED BY <2>1, <2>5, <2>6, <2>7
<1>6. ASSUME NEW n \in StartAts, LaunchNamed(s, stop, n) PROVE TrueInv'
  <2>1. exposed => exposed'
    BY <1>6 DEF LaunchNamed
  <2>2. CASE Refused
    BY <1>2, <2>1, <2>2, TrueRefused
  <2>3. CASE ~Refused
    <3>1. PICK f \in CheckpointFiles(s) :
            /\ Resume(s, stop, f)
            /\ exposed' = (exposed \/ f \in Newest(CheckpointFiles(s)))
      BY <1>6, <2>3 DEF LaunchNamed
    <3>2. CASE exposed'
      BY <3>2 DEF TrueInv
    <3>3. CASE ~exposed'
      <4>1. ~exposed /\ f \notin Newest(CheckpointFiles(s))
        BY <3>1, <3>3
      <4>2. PICK g \in CheckpointFiles(s) : ~(g.iteration <= f.iteration)
        BY <4>1 DEF Newest
      <4>3. f.iteration < g.iteration
        BY <1>3, <4>2
      <4>4. QED BY <1>2, <3>1, <4>1, <4>3, TrueResumes
    <3>4. QED BY <3>2, <3>3
  <2>4. QED BY <2>2, <2>3
<1>7. QED BY <1>1, <1>4, <1>5, <1>6

LEMMA TrueIterate ==
  ASSUME RunInv, TrueInv, Iterate
  PROVE  TrueInv'
<1> DEFINE i == worker.i
           x == Advance(worker.value)
           new == [iteration |-> i, value |-> x]
<1>1. /\ worker' = [at |-> "iterating", i |-> i + 1, value |-> x,
                    carried |-> x = Torn \/ x.n \notin CarryFree[x.seed]]
      /\ reports' = IF i % Interval = 0 THEN Append(reports, new) ELSE reports
      /\ UNCHANGED <<files, run, main, answers, exposed>>
      /\ worker.at = "iterating" /\ worker.carried
  BY DEF Iterate, Ends
<1>2. /\ Up /\ i \in Nat \ {0} /\ run.start \in Nat \ {0} /\ run.start <= i
      /\ run.seed \in Seed /\ reports \in Seq(Report) /\ Len(reports) \in Nat
  BY <1>1 DEF RunInv, Running
<1> SUFFICES ASSUME ~exposed PROVE TrueInv'
  BY <1>1 DEF TrueInv
<1>3. RunTrue /\ FilesTrue /\ AnswersTrue
  BY <1>2 DEF TrueInv
<1>4. FilesTrue' /\ AnswersTrue'
  BY <1>1, <1>3 DEF FilesTrue, FilesSound, AnswersTrue
<1>5. x = Number(run.seed, i) /\ x # Torn
  <2>1. i - 1 \in Nat /\ i - 1 + 1 = i
    BY <1>2
  <2>2. worker.value = Number(run.seed, i - 1)
    BY <1>3 DEF RunTrue
  <2>3. Advance(Number(run.seed, i - 1)) = Number(run.seed, i - 1 + 1)
    BY <1>2, <2>1, Numbers
  <2>4. Number(run.seed, i) # Torn
    BY <1>2, Numbers
  <2>5. QED BY <2>1, <2>2, <2>3, <2>4
<1> HIDE DEF x
<1>6. worker'.value = Number(run.seed, i + 1 - 1)
  BY <1>1, <1>2, <1>5
<1>7. worker'.carried <=> i + 1 - 1 \notin CarryFree[run.seed]
  <2>1. x.n = i /\ x.seed = run.seed /\ i + 1 - 1 = i
    BY <1>2, <1>5 DEF Number
  <2>2. worker'.carried = (x = Torn \/ x.n \notin CarryFree[x.seed])
    BY <1>1
  <2>3. QED BY ONLY <1>5, <2>1, <2>2
<1>8. CarriesBelow(run.seed, i + 1 - 1)
  <2>1. i - 1 \notin CarryFree[run.seed] /\ CarriesBelow(run.seed, i - 1)
    BY <1>1, <1>3 DEF RunTrue
  <2>2. \A m \in 1 .. i + 1 - 1 - 1 : m = i - 1 \/ m \in 1 .. i - 1 - 1
    BY <1>2, SMTT(60)
  <2>3. \A m \in 1 .. i + 1 - 1 - 1 : m \notin CarryFree[run.seed]
    BY <2>1, <2>2 DEF CarriesBelow
  <2>4. QED BY ONLY <1>2, <2>3 DEF CarriesBelow
<1>9. /\ \A k \in 1 .. Len(reports') :
           reports'[k].value = Number(run.seed, reports'[k].iteration)
      /\ i % Interval = 0 => \E k \in 1 .. Len(reports') : reports'[k].iteration = i
      /\ \A k \in 1 .. Len(reports) : k \in 1 .. Len(reports') /\ reports'[k] = reports[k]
  <2>1. CASE i % Interval = 0
    <3>1. new \in Report
      BY <1>2, <1>5, Numbers DEF Report
    <3>2. /\ Len(reports') = Len(reports) + 1
          /\ \A k \in 1 .. Len(reports) : reports'[k] = reports[k]
          /\ reports'[Len(reports) + 1] = new
      BY <1>1, <1>2, <2>1, <3>1
    <3>3. \A k \in 1 .. Len(reports') : k \in 1 .. Len(reports) \/ k = Len(reports) + 1
      BY <1>2, <3>2
    <3>4. new.iteration = i /\ new.value = Number(run.seed, i)
      BY <1>5
    <3> HIDE DEF new
    <3>5. Len(reports) + 1 \in 1 .. Len(reports')
      BY <1>2, <3>2
    <3>6. \A k \in 1 .. Len(reports) : k \in 1 .. Len(reports')
      BY <1>2, <3>2
    <3>7. \A k \in 1 .. Len(reports) : reports[k].value = Number(run.seed, reports[k].iteration)
      BY <1>3 DEF RunTrue
    <3>8. QED BY <3>2, <3>3, <3>4, <3>5, <3>6, <3>7
  <2>2. CASE i % Interval # 0
    BY <1>1, <1>3, <2>2 DEF RunTrue
  <2>3. QED BY <2>1, <2>2
<1>10. ASSUME NEW f \in DOMAIN files, f.seed = run.seed, files[f] = Torn
       PROVE  /\ run.start <= f.iteration
              /\ \/ i + 1 <= f.iteration
                 \/ main.at = "write" /\ main.file = f
                 \/ \E k \in 1 .. Len(reports') : reports'[k].iteration = f.iteration
  <2>1. f.iteration \in Nat /\ f.iteration % Interval = 0
    BY DEF RunInv, Stored, FileName
  <2>2. /\ run.start <= f.iteration
        /\ \/ i <= f.iteration
           \/ main.at = "write" /\ main.file = f
           \/ \E k \in 1 .. Len(reports) : reports[k].iteration = f.iteration
    BY <1>3, <1>10 DEF RunTrue
  <2>3. i = f.iteration \/ (i <= f.iteration => i + 1 <= f.iteration)
    BY <1>2, <2>1
  <2>4. QED BY <1>9, <2>1, <2>2, <2>3
<1> HIDE DEF new
<1>11. worker'.i = i + 1 /\ run' = run /\ files' = files /\ main' = main
  BY <1>1
<1>12. /\ worker'.value = Number(run'.seed, worker'.i - 1)
       /\ worker'.carried <=> worker'.i - 1 \notin CarryFree[run'.seed]
       /\ CarriesBelow(run'.seed, worker'.i - 1)
  BY <1>2, <1>6, <1>7, <1>8, <1>11
<1>13. \A f \in DOMAIN files' :
         f.seed = run'.seed /\ files'[f] = Torn =>
           /\ run'.start <= f.iteration
           /\ \/ worker'.i <= f.iteration
              \/ main'.at = "write" /\ main'.file = f
              \/ \E k \in 1 .. Len(reports') : reports'[k].iteration = f.iteration
  BY <1>10, <1>11
<1>14. RunTrue'
  BY <1>3, <1>9, <1>11, <1>12, <1>13 DEF RunTrue
<1>15. QED BY <1>4, <1>14 DEF TrueInv

LEMMA TrueEnded ==
  ASSUME RunInv, TrueInv, End \/ Die
  PROVE  TrueInv'
<1>1. /\ worker.at = "iterating"
      /\ \E at \in {"done", "dead"} : worker' = [worker EXCEPT !.at = at]
      /\ UNCHANGED <<files, run, reports, main, answers, exposed>>
  BY DEF End, Die
<1>2. Up /\ Running
  BY <1>1 DEF RunInv
<1>3. worker'.i = worker.i /\ worker'.value = worker.value /\ worker'.carried = worker.carried
  BY <1>1, <1>2 DEF Running
<1>4. RunTrue => RunTrue'
  BY <1>1, <1>3 DEF RunTrue
<1>5. QED BY <1>1, <1>2, <1>4 DEF TrueInv, FilesTrue, FilesSound, AnswersTrue

(* The process ends with nothing new to announce. *)
LEMMA TrueExit ==
  ASSUME TrueInv, Exit, UNCHANGED <<files, answers>>
  PROVE  TrueInv'
  BY DEF TrueInv, Exit, FilesTrue, FilesSound, AnswersTrue, Up

(* The file of the first report is whole, or history is exposed.           *)
LEMMA TrueTakes ==
  ASSUME RunInv, TrueInv, Receiving, Target \in DOMAIN files, Take,
         UNCHANGED <<files, run, worker, main, answers>>, exposed => exposed',
         ~exposed' => files[Target] # Torn
  PROVE  TrueInv'
<1> SUFFICES ASSUME ~exposed' PROVE TrueInv'
  BY DEF TrueInv
<1>1. Up /\ ~exposed /\ RunTrue /\ FilesTrue /\ AnswersTrue /\ Running /\ main.at = "receive"
  BY DEF TrueInv, RunInv, Receiving, Up
<1>2. /\ \A k \in 1 .. Len(reports') :
           k + 1 \in 1 .. Len(reports) /\ reports'[k] = reports[k + 1]
      /\ \A k \in 1 .. Len(reports) :
           \/ reports[k] = Incoming
           \/ k - 1 \in 1 .. Len(reports') /\ reports'[k - 1] = reports[k]
  BY TakeReport
<1>3. \A k \in 1 .. Len(reports') :
        reports'[k].value = Number(run.seed, reports'[k].iteration)
  BY <1>1, <1>2 DEF RunTrue
<1>4. ASSUME NEW f \in DOMAIN files, f.seed = run.seed, files[f] = Torn
      PROVE  /\ run.start <= f.iteration
             /\ \/ worker.i <= f.iteration
                \/ \E k \in 1 .. Len(reports') : reports'[k].iteration = f.iteration
  <2>1. /\ run.start <= f.iteration
        /\ \/ worker.i <= f.iteration
           \/ \E k \in 1 .. Len(reports) : reports[k].iteration = f.iteration
    BY <1>1, <1>4 DEF RunTrue
  <2>2. f = File(run.seed, f.iteration)
    BY <1>4, Names DEF RunInv, Stored
  <2>3. f.iteration # Incoming.iteration
    BY <1>4, <2>2 DEF Target
  <2>4. QED BY <1>2, <2>1, <2>3
<1>5. RunTrue'
  BY <1>1, <1>3, <1>4 DEF RunTrue
<1>6. FilesTrue' /\ AnswersTrue'
  BY <1>1 DEF FilesTrue, FilesSound, AnswersTrue
<1>7. QED BY <1>5, <1>6 DEF TrueInv

LEMMA TrueValidate ==
  ASSUME RunInv, TrueInv, Validate
  PROVE  TrueInv'
<1>1. CASE files[Target] = Incoming.value
  <2>1. Running /\ reports # <<>> /\ Incoming.iteration \in Nat
    BY TargetNamed DEF Validate
  <2>2. ASSUME ~exposed PROVE files[Target] # Torn
    <3>1. 1 \in 1 .. Len(reports) /\ Incoming = reports[1] /\ run.seed \in Seed
      BY <2>1, FirstReport DEF Running
    <3>2. Incoming.value = Number(run.seed, Incoming.iteration)
      BY <2>2, <3>1 DEF TrueInv, RunTrue, Validate, Receiving, Up
    <3>3. QED BY <1>1, <2>1, <3>1, <3>2, Numbers, ZenonT(60)
  <2>3. QED BY <1>1, <2>2, TrueTakes DEF Validate
<1>2. CASE files[Target] # Incoming.value
  BY <1>2, TrueExit DEF Validate
<1>3. QED BY <1>1, <1>2

LEMMA TrueCannotRead ==
  ASSUME RunInv, TrueInv, CannotRead
  PROVE  TrueInv'
  BY TrueTakes DEF CannotRead

LEMMA TrueCreate ==
  ASSUME RunInv, TrueInv, Create
  PROVE  TrueInv'
<1> DEFINE t == Incoming.iteration
<1>1. /\ Receiving /\ Take /\ Target \notin DOMAIN files
      /\ files' = [f \in DOMAIN files \union {Target} |->
                     IF f = Target THEN Torn ELSE files[f]]
      /\ main' = [at |-> "write", file |-> Target, value |-> Incoming.value]
      /\ UNCHANGED <<run, worker, answers, exposed>>
  BY DEF Create
<1> SUFFICES ASSUME ~exposed PROVE TrueInv'
  BY <1>1 DEF TrueInv
<1>2. /\ Up /\ Running /\ reports # <<>> /\ RunTrue /\ FilesTrue /\ AnswersTrue
      /\ main.at = "receive"
      /\ t \in run.start .. worker.i - 1 /\ t \in Nat \ {0} /\ t % Interval = 0
      /\ Target \in FileName /\ Target.seed = run.seed /\ Target.iteration = t
      /\ Target = File(run.seed, t)
      /\ run.start \in Nat \ {0} /\ run.seed \in Seed /\ worker.i \in Nat \ {0}
  BY <1>1, TargetNamed DEF TrueInv, RunInv, Receiving, Up, FileName, Target, Running
<1>3. /\ \A k \in 1 .. Len(reports') :
           k + 1 \in 1 .. Len(reports) /\ reports'[k] = reports[k + 1]
      /\ \A k \in 1 .. Len(reports) :
           reports[k] = Incoming \/ t < reports[k].iteration
  BY <1>1, TakeReport
<1>3a. \A k \in 1 .. Len(reports) :
        reports[k].iteration \in Nat /\ t <= reports[k].iteration
  <2>1. \A k \in 1 .. Len(reports) : reports[k].iteration \in Nat
    BY <1>2, SMTT(60) DEF Running, Covered
  <2>2. QED BY <1>2, <1>3, <2>1, SMTT(60)
<1> HIDE DEF t
<1>4. \A f \in DOMAIN files : f \in FileName /\ f.iteration \in Nat \ {0}
  BY DEF RunInv, Stored, FileName
<1>5. Incoming.value = Number(run.seed, t)
  <2>1. 1 \in 1 .. Len(reports) /\ Incoming = reports[1]
    BY <1>2, FirstReport DEF Running
  <2>2. QED BY <1>2, <2>1 DEF RunTrue, t
<1>6. \A g \in DOMAIN files : g.seed = run.seed => g.iteration < t
  <2> SUFFICES ASSUME NEW g \in DOMAIN files, g.seed = run.seed, t <= g.iteration
               PROVE  FALSE
    BY <1>2, <1>4
  <2>1. t \in 1 .. g.iteration
    BY <1>2, <1>4
  <2>2. File(run.seed, t) \in DOMAIN files
    BY <1>2, <2>1 DEF FilesTrue, FilesSound
  <2>3. QED BY <1>1, <1>2, <2>2
<1>7. \A g \in DOMAIN files : g.seed = run.seed => files[g] # Torn
  <2> SUFFICES ASSUME NEW g \in DOMAIN files, g.seed = run.seed, files[g] = Torn
               PROVE  FALSE
    OBVIOUS
  <2>1. g.iteration < t
    BY <1>6
  <2>2. \/ worker.i <= g.iteration
        \/ \E k \in 1 .. Len(reports) : reports[k].iteration = g.iteration
    BY <1>2 DEF RunTrue
  <2>3. QED BY <1>2, <1>4, <1>3a, <2>1, <2>2
<1>8. \A n \in 1 .. t - 1 : n % Interval = 0 => File(run.seed, n) \in DOMAIN files
  <2> SUFFICES ASSUME NEW n \in 1 .. t - 1, n % Interval = 0
               PROVE  File(run.seed, n) \in DOMAIN files
    OBVIOUS
  <2>1. CASE n \in 1 .. run.start - 1
    BY <1>2, <2>1 DEF RunTrue
  <2>2. CASE n \in run.start .. worker.i - 1
    <3>1. \A k \in 1 .. Len(reports) : reports[k].iteration # n
      BY <1>2, <1>3a, SMTT(60)
    <3>2. QED BY <1>2, <2>2, <3>1 DEF Running, Covered
  <2>3. QED BY <1>2, <2>1, <2>2
<1>9. DOMAIN files' = DOMAIN files \union {Target} /\ files'[Target] = Torn
      /\ \A f \in DOMAIN files : files'[f] = files[f]
  BY <1>1
<1>10. FilesTrue'
  <2>1. ASSUME NEW f \in DOMAIN files
        PROVE  /\ \/ files'[f] = Number(f.seed, f.iteration)
                  \/ /\ files'[f] = Torn
                     /\ \A g \in DOMAIN files' : g.seed = f.seed => g.iteration <= f.iteration
               /\ \A n \in 1 .. f.iteration :
                    n % Interval = 0 => File(f.seed, n) \in DOMAIN files'
               /\ CarriesBelow(f.seed, f.iteration)
    <3>1. f.seed = run.seed => files[f] # Torn
      BY <1>7
    <3>2. /\ \/ files[f] = Number(f.seed, f.iteration)
             \/ /\ files[f] = Torn
                /\ \A g \in DOMAIN files : g.seed = f.seed => g.iteration <= f.iteration
          /\ \A n \in 1 .. f.iteration :
               n % Interval = 0 => File(f.seed, n) \in DOMAIN files
          /\ CarriesBelow(f.seed, f.iteration)
      BY <1>2 DEF FilesTrue, FilesSound
    <3>3. QED BY <1>2, <1>9, <3>1, <3>2
  <2>2. /\ \A g \in DOMAIN files' : g.seed = Target.seed => g.iteration <= Target.iteration
        /\ \A n \in 1 .. Target.iteration :
             n % Interval = 0 => File(Target.seed, n) \in DOMAIN files'
    <3>1. \A g \in DOMAIN files' : g.seed = Target.seed => g.iteration <= Target.iteration
      BY <1>2, <1>4, <1>6, <1>9
    <3>2. \A n \in 1 .. t : n = t \/ n \in 1 .. t - 1
      BY <1>2
    <3>3. QED BY <1>2, <1>8, <1>9, <3>1, <3>2
  <2>3. CarriesBelow(Target.seed, Target.iteration)
    <3>1. CarriesBelow(run.seed, worker.i - 1)
      BY <1>2 DEF RunTrue
    <3>2. \A m \in 1 .. t - 1 : m \in 1 .. worker.i - 1 - 1
      BY <1>2
    <3>3. QED BY <1>2, <3>1, <3>2 DEF CarriesBelow
  <2>4. FilesSound'
    BY <1>9, <2>1, <2>2 DEF FilesSound
  <2>5. QED BY <1>9, <2>1, <2>3, <2>4 DEF FilesTrue
<1>11. RunTrue'
  <2>1. \A k \in 1 .. Len(reports') :
          reports'[k].value = Number(run.seed, reports'[k].iteration)
    <3>1. \A k \in 1 .. Len(reports) :
            reports[k].value = Number(run.seed, reports[k].iteration)
      BY <1>2 DEF RunTrue
    <3>2. QED BY ONLY <1>3, <3>1
  <2>2. \A f \in DOMAIN files' : f.seed = run.seed /\ files'[f] = Torn => f = Target
    BY <1>7, <1>9
  <2>3. \A n \in 1 .. run.start - 1 :
          n % Interval = 0 => File(run.seed, n) \in DOMAIN files'
    BY <1>2, <1>9 DEF RunTrue
  <2>4. run.start <= Target.iteration
    BY <1>2
  <2>5. QED BY <1>1, <1>2, <1>5, <1>9, <2>1, <2>2, <2>3, <2>4, ZenonT(60) DEF RunTrue
<1>12. AnswersTrue'
  BY <1>1, <1>2 DEF AnswersTrue
<1>13. QED BY <1>10, <1>11, <1>12 DEF TrueInv

LEMMA TrueWrite ==
  ASSUME RunInv, TrueInv, Write
  PROVE  TrueInv'
<1>1. /\ main.at = "write" /\ files' = [files EXCEPT ![main.file] = main.value]
      /\ main' = [at |-> "receive"]
      /\ UNCHANGED <<run, worker, reports, answers, exposed>>
  BY DEF Write
<1> SUFFICES ASSUME ~exposed PROVE TrueInv'
  BY <1>1 DEF TrueInv
<1>2. /\ Up /\ RunTrue /\ FilesTrue /\ AnswersTrue /\ run.seed \in Seed
      /\ main.file \in DOMAIN files /\ main.file.seed = run.seed
      /\ main.value = Number(run.seed, main.file.iteration)
  BY <1>1 DEF TrueInv, RunInv, Up, Running, Writing, RunTrue
<1>3. /\ DOMAIN files' = DOMAIN files
      /\ files'[main.file] = Number(main.file.seed, main.file.iteration)
      /\ \A f \in DOMAIN files : f # main.file => files'[f] = files[f]
      /\ files'[main.file] # Torn
  <2>1. main.file.iteration \in Nat
    BY <1>2 DEF RunInv, Stored, FileName
  <2>2. QED BY <1>1, <1>2, <2>1, Numbers
<1>4. FilesTrue' /\ AnswersTrue'
  BY <1>1, <1>2, <1>3 DEF FilesTrue, FilesSound, AnswersTrue
<1>5. RunTrue'
  BY <1>1, <1>2, <1>3 DEF RunTrue
<1>6. QED BY <1>4, <1>5 DEF TrueInv

(* What a thread that is done has found is the first palindrome a test     *)
(* would have found, or there was none to find in its range.               *)
LEMMA TrueAnswer ==
  ASSUME Running, RunTrue, worker.at = "done"
  PROVE  /\ Answer.found <=> Found(Answer.seed, Answer.stop)
         /\ Answer.found => Answer.value = Number(Answer.seed, First(Answer.seed))
<1> DEFINE i == worker.i
           s == run.seed
<1>1. /\ i \in Nat \ {0} /\ s \in Seed /\ run.stop \in Nat
      /\ i >= run.stop \/ ~worker.carried
      /\ worker.value = Number(s, i - 1)
      /\ worker.carried <=> i - 1 \notin CarryFree[s]
      /\ \A m \in 1 .. i - 1 - 1 : m \notin CarryFree[s]
  BY DEF Running, RunTrue, Ends, CarriesBelow
<1>2. /\ Answer.seed = s /\ Answer.stop = run.stop /\ Answer.value = worker.value
      /\ Answer.found <=> i < run.stop
  BY DEF Answer
<1>3. CarryFree[s] \subseteq Nat \ {0}
  BY <1>1, StepAssumption
<1> HIDE DEF i, s
<1>4. \A m \in CarryFree[s] : i - 1 <= m
  BY <1>1, <1>3
<1>5. CASE i < run.stop
  <2>1. i - 1 \in CarryFree[s] /\ i - 1 > 0 /\ i - 1 + 1 < run.stop
    BY <1>1, <1>3, <1>5
  <2>2. Found(s, run.stop)
    BY <2>1 DEF Found
  <2>3. First(s) \in CarryFree[s] /\ \A m \in CarryFree[s] : First(s) <= m
    BY <1>4, <2>1 DEF First
  <2>4. First(s) = i - 1
    BY <1>1, <1>3, <1>4, <2>1, <2>3
  <2>5. QED BY <1>1, <1>2, <1>5, <2>2, <2>4
<1>6. CASE ~(i < run.stop)
  <2>1. ~Found(s, run.stop)
    BY <1>1, <1>3, <1>4, <1>6 DEF Found
  <2>2. QED BY <1>2, <1>6, <2>1
<1>7. QED BY <1>5, <1>6

LEMMA TrueFinish ==
  ASSUME RunInv, TrueInv, Finish
  PROVE  TrueInv'
<1>1. /\ main.at = "receive" /\ Exit /\ UNCHANGED files
      /\ \/ worker.at = "done" /\ answers' = answers \union {Answer}
         \/ UNCHANGED answers
  BY DEF Finish
<1>2. CASE UNCHANGED answers
  BY <1>1, <1>2, TrueExit
<1>3. CASE worker.at = "done" /\ answers' = answers \union {Answer}
  <2> SUFFICES ASSUME ~exposed PROVE TrueInv'
    BY <1>1 DEF TrueInv, Exit
  <2>1. Running /\ RunTrue /\ FilesTrue /\ AnswersTrue
    BY <1>1 DEF RunInv, TrueInv, Up
  <2>2. AnswersTrue'
    BY <1>1, <1>3, <2>1, TrueAnswer DEF AnswersTrue, Exit
  <2>3. FilesTrue' /\ ~Up'
    BY <1>1, <2>1 DEF FilesTrue, FilesSound, Exit, Up
  <2>4. QED BY <2>2, <2>3 DEF TrueInv
<1>4. QED BY <1>1, <1>2, <1>3

LEMMA TrueStep ==
  ASSUME EndsApart, RunInv, TrueInv, [Next]_vars
  PROVE  TrueInv'
<1>1. CASE Launch         BY <1>1, TrueLaunch
<1>2. CASE Worker \/ Die  BY <1>2, TrueIterate, TrueEnded DEF Worker
<1>3. CASE Create         BY <1>3, TrueCreate
<1>4. CASE Write          BY <1>4, TrueWrite
<1>5. CASE Validate       BY <1>5, TrueValidate
<1>6. CASE CannotRead     BY <1>6, TrueCannotRead
<1>7. CASE Finish         BY <1>7, TrueFinish
<1>8. CASE WriteFails \/ Crash
  BY <1>8, TrueExit DEF WriteFails, Crash
<1>9. CASE UNCHANGED vars
  BY <1>9 DEF vars, TrueInv, FilesTrue, FilesSound, RunTrue, AnswersTrue, Up
<1>10. QED BY <1>1, <1>2, <1>3, <1>4, <1>5, <1>6, <1>7, <1>8, <1>9 DEF Next, Main

LEMMA TrueSound ==
  ASSUME EndsApart
  PROVE  Spec => []TrueInv
<1>1. RunInv /\ TrueInv /\ [Next]_vars => TrueInv'
  BY TrueStep
<1>2. QED BY <1>1, TrueInit, RunSound, PTL DEF Spec

-----------------------------------------------------------------------------
(* What follows *)

(* Whatever files the launches before it left, and however they ended, a   *)
(* run computes the number its iteration counter says.                     *)
THEOREM ComputesTrueNumbers ==
  ASSUME EndsApart
  PROVE  Spec => []RunsOnTrueNumbers
<1>1. TrueInv => RunsOnTrueNumbers
  BY DEF TrueInv, RunTrue, RunsOnTrueNumbers
<1>2. QED BY <1>1, TrueSound, PTL

(* The last but one of a seed's files is always good to resume from, after *)
(* kills, failed writes and panics in any number ("use the second to last  *)
(* checkpoint", main.rs 521).                                              *)
THEOREM LastButOneIsGood ==
  ASSUME EndsApart
  PROVE  Spec => []FilesSound
<1>1. TrueInv => FilesSound
  BY DEF TrueInv, FilesTrue, FilesSound
<1>2. QED BY <1>1, TrueSound, PTL

(* A run announces what an uninterrupted one would have.                   *)
THEOREM AnnouncesTruth ==
  ASSUME EndsApart
  PROVE  Spec => []AnswersTrue
<1>1. TrueInv => AnswersTrue
  BY DEF TrueInv, AnswersTrue
<1>2. QED BY <1>1, TrueSound, PTL

-----------------------------------------------------------------------------
(* The spinning barrier *)

USE ThreadAssumption, GenModAssumption

(* The inductive invariant: the counter against the set of waiters, the    *)
(* uniqueness of the closer, and the freshness of a loaded generation.     *)
IInv == TypeOK /\ Inv

(* The number of participants is a positive natural, and it bounds the     *)
(* size of every set of them.                                              *)
LEMMA ParticipantsPositive ==
  /\ Participants \in Nat \ {0}
  /\ \A S \in SUBSET Thread :
       /\ IsFiniteSet(S)
       /\ Cardinality(S) \in 0 .. Participants
       /\ Cardinality(S) = Participants => S = Thread
<1>1. Participants \in Nat
  BY FS_CardinalityType DEF Participants
<1>2. Participants # 0
  BY FS_EmptySet DEF Participants
<1>3. ASSUME NEW S \in SUBSET Thread
      PROVE  /\ IsFiniteSet(S)
             /\ Cardinality(S) \in 0 .. Participants
             /\ Cardinality(S) = Participants => S = Thread
  <2>1. IsFiniteSet(S) /\ Cardinality(S) <= Participants
        /\ (Cardinality(S) = Participants => S = Thread)
    BY FS_Subset DEF Participants
  <2>2. Cardinality(S) \in Nat
    BY <2>1, FS_CardinalityType
  <2>3. QED BY <1>1, <2>1, <2>2
<1>4. QED BY <1>1, <1>2, <1>3

(* Advancing the generation always changes it: the counter has more than   *)
(* one value.                                                              *)
LEMMA GenerationMoves ==
  ASSUME NEW g \in 0 .. GenMod - 1
  PROVE  /\ (g + 1) % GenMod \in 0 .. GenMod - 1
         /\ (g + 1) % GenMod # g
<1>1. CASE g + 1 = GenMod
  <2>1. (g + 1) % GenMod = 0 BY <1>1
  <2>2. QED BY <1>1, <2>1
<1>2. CASE g + 1 # GenMod
  <2>1. g + 1 \in 0 .. GenMod - 1 BY <1>2
  <2>2. (g + 1) % GenMod = g + 1 BY <2>1
  <2>3. QED BY <2>1, <2>2
<1>3. QED BY <1>1, <1>2

LEMMA InitInv == WaitInit => IInv
<1> SUFFICES ASSUME WaitInit PROVE IInv
  OBVIOUS
<1>1. TypeOK
  BY ParticipantsPositive DEF WaitInit, TypeOK, PC
<1>2. Waiting = {}
  BY DEF WaitInit, Waiting, Phase, Held, Freed
<1>3. CountExact
  BY <1>2, FS_EmptySet DEF WaitInit, CountExact
<1>4. QED
  BY <1>1, <1>3 DEF IInv, Inv, WaitInit, OneCloser, FreshGeneration

(* Loading the generation changes nobody's phase. *)
LEMMA StepLoadGeneration ==
  ASSUME IInv, NEW t \in Thread, LoadGeneration(t)
  PROVE  IInv' /\ \A u \in Thread : Phase(u)' = Phase(u)
<1> USE DEF LoadGeneration, Goto
<1>1. TypeOK'
  BY DEF IInv, TypeOK, PC
<1>2. \A u \in Thread : Phase(u)' = Phase(u)
  BY DEF IInv, TypeOK, Phase, Held, Freed, PC
<1>3. Waiting' = Waiting
  <2>1. \A u \in Thread : Held(u)' = Held(u)
    BY DEF IInv, TypeOK, Held, PC
  <2>2. QED BY <2>1 DEF Waiting
<1>4. CountExact'
  BY <1>3 DEF IInv, Inv, CountExact, TypeOK
<1>5. OneCloser'
  BY <1>3 DEF IInv, Inv, OneCloser, TypeOK
<1>6. FreshGeneration'
  BY DEF IInv, Inv, FreshGeneration, TypeOK
<1>7. QED BY <1>1, <1>2, <1>4, <1>5, <1>6 DEF IInv, Inv

(* An arrival moves exactly the arriving participant from outside to       *)
(* waiting; nobody can be closing the round at that moment.                *)
LEMMA StepCountArrival ==
  ASSUME IInv, NEW t \in Thread, CountArrival(t)
  PROVE  /\ IInv'
         /\ Phase(t) = "outside" /\ Phase(t)' = "waiting"
         /\ \A u \in Thread \ {t} : Phase(u)' = Phase(u)
<1>1. pc[t] = "arrive" /\ Phase(t) = "outside" /\ t \notin Waiting
  BY DEF CountArrival, Goto, Phase, Waiting, Held, Freed
<1>2. \A u \in Thread : pc[u] \notin {"reset", "release"}
  BY <1>1 DEF IInv, Inv, OneCloser
<1>3. count = Cardinality(Waiting) /\ Waiting \in SUBSET Thread
  BY <1>2 DEF IInv, Inv, CountExact, Waiting
<1>4. /\ pc' = [pc EXCEPT ![t] = IF count = Participants - 1
                                 THEN "reset" ELSE "spin"]
      /\ count' = count + 1
      /\ UNCHANGED <<generation, gen>>
  BY DEF CountArrival, Goto
<1>5. gen[t] = generation
  BY <1>1 DEF IInv, Inv, FreshGeneration
<1>6. /\ Phase(t)' = "waiting"
      /\ \A u \in Thread \ {t} : Phase(u)' = Phase(u)
  BY <1>4, <1>5 DEF IInv, TypeOK, Phase, Held, Freed
<1>7. Waiting' = Waiting \union {t}
  <2>1. Held(t)' /\ \A u \in Thread \ {t} : Held(u)' = Held(u)
    BY <1>4, <1>5 DEF IInv, TypeOK, Held
  <2>2. QED BY <2>1 DEF Waiting
<1>8. /\ Waiting' \in SUBSET Thread
      /\ Cardinality(Waiting') = count'
  BY <1>1, <1>3, <1>4, <1>7, ParticipantsPositive, FS_AddElement
<1>9. TypeOK'
  BY <1>4, <1>8, ParticipantsPositive DEF IInv, TypeOK, PC
<1>10. CountExact'
  BY <1>2, <1>4, <1>8 DEF CountExact, IInv, TypeOK
<1>11. OneCloser'
  <2> SUFFICES ASSUME NEW u \in Thread, pc'[u] \in {"reset", "release"}
               PROVE  /\ Waiting' = Thread
                      /\ \A v \in Thread :
                           pc'[v] \in {"reset", "release"} => v = u
    BY DEF OneCloser
  <2>1. u = t /\ count = Participants - 1
    BY <1>2, <1>4 DEF IInv, TypeOK
  <2>2. Waiting' = Thread
    BY <1>4, <1>8, <2>1, ParticipantsPositive DEF IInv, TypeOK
  <2>3. QED BY <1>2, <1>4, <2>1, <2>2 DEF IInv, TypeOK
<1>12. FreshGeneration'
  BY <1>4 DEF IInv, Inv, FreshGeneration, TypeOK
<1>13. QED BY <1>1, <1>6, <1>9, <1>10, <1>11, <1>12 DEF IInv, Inv

(* Storing 0 to the counter: nobody's phase changes, and the closer is     *)
(* still the only one.                                                     *)
LEMMA StepResetCount ==
  ASSUME IInv, NEW t \in Thread, ResetCount(t)
  PROVE  IInv' /\ \A u \in Thread : Phase(u)' = Phase(u)
<1> USE DEF ResetCount, Goto
<1>1. TypeOK'
  BY ParticipantsPositive DEF IInv, TypeOK, PC
<1>2. \A u \in Thread : Phase(u)' = Phase(u) /\ Held(u)' = Held(u)
  BY DEF IInv, TypeOK, Phase, Held, Freed
<1>3. Waiting' = Waiting
  BY <1>2 DEF Waiting
<1>4. CountExact'
  BY DEF CountExact, IInv, TypeOK
<1>5. OneCloser'
  BY <1>3 DEF IInv, Inv, OneCloser, TypeOK
<1>6. FreshGeneration'
  BY DEF IInv, Inv, FreshGeneration, TypeOK
<1>7. QED BY <1>1, <1>2, <1>4, <1>5, <1>6 DEF IInv, Inv

(* Advancing the generation releases everybody at once, the closer         *)
(* included: this is the moment the abstract barrier opens.                *)
LEMMA StepAdvanceGeneration ==
  ASSUME IInv, NEW t \in Thread, AdvanceGeneration(t)
  PROVE  /\ IInv'
         /\ \A u \in Thread : Phase(u) = "waiting" /\ Phase(u)' = "released"
<1>1. /\ pc[t] = "release"
      /\ pc' = [pc EXCEPT ![t] = "return"]
      /\ generation' = (generation + 1) % GenMod
      /\ UNCHANGED <<count, gen>>
  BY DEF AdvanceGeneration, Goto
<1>2. generation' \in 0 .. GenMod - 1 /\ generation' # generation
  BY <1>1, GenerationMoves DEF IInv, TypeOK
<1>3. Waiting = Thread /\ count = 0
  BY <1>1 DEF IInv, Inv, OneCloser, CountExact
<1>4. \A u \in Thread \ {t} : pc[u] = "spin" /\ gen[u] = generation
  <2> SUFFICES ASSUME NEW u \in Thread \ {t}
               PROVE  pc[u] = "spin" /\ gen[u] = generation
    OBVIOUS
  <2>1. pc[u] \notin {"reset", "release"}
    BY <1>1 DEF IInv, Inv, OneCloser
  <2>2. Held(u)
    BY <1>3 DEF Waiting
  <2>3. QED BY <2>1, <2>2 DEF Held
<1>5. \A u \in Thread : /\ Phase(u) = "waiting"
                         /\ Phase(u)' = "released"
                         /\ ~Held(u)'
  BY <1>1, <1>2, <1>4 DEF IInv, TypeOK, Phase, Held, Freed
<1>6. TypeOK'
  BY <1>1, <1>2 DEF IInv, TypeOK, PC
<1>7. \A u \in Thread : pc'[u] \in {"spin", "return"}
  BY <1>1, <1>4 DEF IInv, TypeOK
<1>8. Waiting' = {}
  BY <1>5 DEF Waiting
<1>9. CountExact'
  BY <1>1, <1>3, <1>7, <1>8, FS_EmptySet DEF CountExact
<1>10. OneCloser' /\ FreshGeneration'
  BY <1>7 DEF OneCloser, FreshGeneration
<1>11. QED BY <1>5, <1>6, <1>9, <1>10 DEF IInv, Inv

(* A spinner sees the new generation: it was free to return already. *)
LEMMA StepSpinLoad ==
  ASSUME IInv, NEW t \in Thread, SpinLoad(t)
  PROVE  IInv' /\ \A u \in Thread : Phase(u)' = Phase(u)
<1> USE DEF SpinLoad, Goto
<1>1. TypeOK'
  BY DEF IInv, TypeOK, PC
<1>2. \A u \in Thread : Phase(u)' = Phase(u) /\ Held(u)' = Held(u)
  BY DEF IInv, TypeOK, Phase, Held, Freed
<1>3. Waiting' = Waiting
  BY <1>2 DEF Waiting
<1>4. CountExact'
  BY <1>3 DEF IInv, Inv, CountExact, TypeOK
<1>5. OneCloser'
  BY <1>3 DEF IInv, Inv, OneCloser, TypeOK
<1>6. FreshGeneration'
  BY DEF IInv, Inv, FreshGeneration, TypeOK
<1>7. QED BY <1>1, <1>2, <1>4, <1>5, <1>6 DEF IInv, Inv

(* A return takes exactly one released participant outside. *)
LEMMA StepReturn ==
  ASSUME IInv, NEW t \in Thread, Return(t)
  PROVE  /\ IInv'
         /\ Phase(t) = "released" /\ Phase(t)' = "outside"
         /\ \A u \in Thread \ {t} : Phase(u)' = Phase(u)
<1> USE DEF Return, Goto
<1>1. TypeOK'
  BY DEF IInv, TypeOK, PC
<1>2. /\ Phase(t) = "released" /\ Phase(t)' = "outside"
      /\ \A u \in Thread \ {t} : Phase(u)' = Phase(u)
      /\ \A u \in Thread : Held(u)' = Held(u)
  BY DEF IInv, TypeOK, Phase, Held, Freed
<1>3. Waiting' = Waiting
  BY <1>2 DEF Waiting
<1>4. CountExact'
  BY <1>3 DEF IInv, Inv, CountExact, TypeOK
<1>5. OneCloser'
  BY <1>3 DEF IInv, Inv, OneCloser, TypeOK
<1>6. FreshGeneration'
  BY DEF IInv, Inv, FreshGeneration, TypeOK
<1>7. QED BY <1>1, <1>2, <1>4, <1>5, <1>6 DEF IInv, Inv

LEMMA StutterInv ==
  ASSUME IInv, UNCHANGED waitVars
  PROVE  IInv' /\ \A u \in Thread : Phase(u)' = Phase(u)
<1> USE DEF waitVars
<1>1. \A u \in Thread : Phase(u)' = Phase(u) /\ Held(u)' = Held(u)
  BY DEF Phase, Held, Freed
<1>2. Waiting' = Waiting
  BY <1>1 DEF Waiting
<1>3. QED
  BY <1>1, <1>2
     DEF IInv, Inv, TypeOK, CountExact, OneCloser, FreshGeneration

LEMMA NextInv == IInv /\ [WaitNext]_waitVars => IInv'
<1> SUFFICES ASSUME IInv, [WaitNext]_waitVars PROVE IInv'
  OBVIOUS
<1>1. ASSUME NEW t \in Thread, LoadGeneration(t) PROVE IInv'
  BY <1>1, StepLoadGeneration
<1>2. ASSUME NEW t \in Thread, CountArrival(t) PROVE IInv'
  BY <1>2, StepCountArrival
<1>3. ASSUME NEW t \in Thread, ResetCount(t) PROVE IInv'
  BY <1>3, StepResetCount
<1>4. ASSUME NEW t \in Thread, AdvanceGeneration(t) PROVE IInv'
  BY <1>4, StepAdvanceGeneration
<1>5. ASSUME NEW t \in Thread, SpinLoad(t) PROVE IInv'
  BY <1>5, StepSpinLoad
<1>6. ASSUME NEW t \in Thread, Return(t) PROVE IInv'
  BY <1>6, StepReturn
<1>7. ASSUME UNCHANGED waitVars PROVE IInv'
  BY <1>7, StutterInv
<1>8. QED
  BY <1>1, <1>2, <1>3, <1>4, <1>5, <1>6, <1>7 DEF WaitNext, Inside

(* The variables of wait() keep their ranges; in particular the arrival    *)
(* counter never exceeds the number of participants.                       *)
THEOREM WaitTypeCorrect == WaitSpec => []TypeOK
<1>1. IInv => TypeOK
  BY DEF IInv
<1>2. QED
  BY <1>1, InitInv, NextInv, PTL DEF WaitSpec

(* The counter always holds exactly the arrivals of the current round, one *)
(* participant at most is closing a round, only when all of them wait, and *)
(* a loaded generation is current when the arrival is counted.             *)
THEOREM RoundsNeverMix == WaitSpec => []Inv
<1>1. IInv => Inv
  BY DEF IInv
<1>2. QED
  BY <1>1, InitInv, NextInv, PTL DEF WaitSpec

(* The spinning barrier implements the abstract one: nobody returns from   *)
(* wait() before everybody has arrived, in every round, for any number of  *)
(* participants and any counter width.                                     *)
THEOREM WaitIsBarrier == WaitSpec => ImplementsBarrier
<1> DEFINE phaseBar == [t \in Thread |-> Phase(t)]
<1>1. WaitInit => Abstract!Init
  BY DEF WaitInit, Abstract!Init, Phase, Held, Freed
<1>2. IInv /\ [WaitNext]_waitVars => [Abstract!Next]_phaseBar
  <2> SUFFICES ASSUME IInv, [WaitNext]_waitVars PROVE [Abstract!Next]_phaseBar
    OBVIOUS
  <2> USE DEF Abstract!Next
  <2>1. ASSUME NEW t \in Thread, LoadGeneration(t) PROVE phaseBar' = phaseBar
    BY <2>1, StepLoadGeneration
  <2>2. ASSUME NEW t \in Thread, CountArrival(t) PROVE Abstract!Arrive(t)
    BY <2>2, StepCountArrival DEF Abstract!Arrive
  <2>3. ASSUME NEW t \in Thread, ResetCount(t) PROVE phaseBar' = phaseBar
    BY <2>3, StepResetCount
  <2>4. ASSUME NEW t \in Thread, AdvanceGeneration(t) PROVE Abstract!Open
    BY <2>4, StepAdvanceGeneration DEF Abstract!Open
  <2>5. ASSUME NEW t \in Thread, SpinLoad(t) PROVE phaseBar' = phaseBar
    BY <2>5, StepSpinLoad
  <2>6. ASSUME NEW t \in Thread, Return(t) PROVE Abstract!Leave(t)
    BY <2>6, StepReturn DEF Abstract!Leave
  <2>7. ASSUME UNCHANGED waitVars PROVE phaseBar' = phaseBar
    BY <2>7, StutterInv
  <2>8. QED
    BY <2>1, <2>2, <2>3, <2>4, <2>5, <2>6, <2>7 DEF WaitNext, Inside
<1>3. QED
  BY <1>1, <1>2, InitInv, NextInv, PTL
     DEF WaitSpec, ImplementsBarrier, Abstract!Spec

=============================================================================
