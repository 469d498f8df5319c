---------------------------- MODULE BenchHarness ----------------------------
(***************************************************************************)
(* One measurement of nanoembed-bench (tools/nanoembed-bench/main.cpp):    *)
(* run_parent, run_worker in the process it forks, and the sampler thread  *)
(* of the parent.                                                          *)
(*                                                                         *)
(* Parent and worker talk over two pipes; the parent watches the worker's  *)
(* memory in /proc, which shows what it shows at the moment it is read.    *)
(* Every step of the worker may be its last one, and until its window is   *)
(* closed it may wedge.  The sampler waits on a condition variable whose   *)
(* predicate the parent changes without holding the mutex.                 *)
(*                                                                         *)
(* Whoever ends the parent from outside, and waitpid failing, are left     *)
(* out: a parent that has ended has a worker only where SIGPIPE killed it, *)
(* and then the worker had ended first.  So the worker never reads the end *)
(* of its pipe.                                                            *)
(***************************************************************************)
EXTENDS BenchArgs

CONSTANTS
  CommandLines,  \* command lines of the user
  Items,         \* lines of the inputs file
  PipeCapacity,  \* messages a pipe holds before its writer blocks
  Memory,        \* resident sizes of the worker, and of the parent
  MaxPeriodic    \* bound: periodic samples

ASSUME CapacityAssumption == PipeCapacity \in Nat \ {0} /\ MaxPeriodic \in Nat \ {0}
ASSUME LinesAssumption    ==
  Items \in Nat /\ \A line \in CommandLines : parse_args(line) \in Arguments
ASSUME MemoryAssumption   == Memory \subseteq Nat \ {0} /\ Memory # {}

VARIABLES
  args,     \* the settings of the parent
  sigpipe,  \* disposition of SIGPIPE, inherited
  parent,   \* where run_parent is
  m,        \* its Measurement
  ctrl,     \* pipe to the worker
  rep,      \* pipe to the parent
  worker,   \* where run_worker is, or how the process ended
  wargs,    \* the settings it parsed
  w,        \* its counters
  mem,      \* its resident size and high-water mark
  truth,    \* the same over its life, at GO, over its window and at the end
  sampler,  \* where the sampler thread is
  signals   \* which of start_sampling and stop_sampling are set

vars == <<args, sigpipe, parent, m, ctrl, rep, worker, wargs, w, mem, truth, sampler, signals>>

settings == <<args, sigpipe>>
pipes    == <<ctrl, rep>>
process  == <<worker, wargs, w, mem, truth>>
thread   == <<sampler, signals>>

Synthetic(a) == a.selftest_alloc_mb > 0
Cold(a)      == ~Synthetic(a) /\ a.cache_state = "cold"
Warm(a)      == ~Synthetic(a) /\ a.cache_state = "warm"

(* run_selftest measures with settings of its own. *)
Settings(line) ==
  LET a == parse_args(line)
  IN  IF a.selftest
      THEN [a EXCEPT !.warmup = 0, !.iter = 1, !.cache_state = "warm", !.strict_cold = FALSE]
      ELSE a

NoWork == [warmup |-> 0, items |-> 0, counts |-> <<>>]

Init ==
  /\ \E line \in CommandLines : Acceptable(parse_args(line)) /\ args = Settings(line)
  /\ sigpipe \in {"default", "ignored"}
  /\ parent = IF Cold(args) THEN "evict" ELSE "fork"
  /\ m = [verified |-> FALSE, through |-> 0, reset |-> FALSE, baseline |-> 0, window |-> 0,
          final |-> 0, sampled |-> 0, attempted |-> 0, timeline |-> <<>>, report |-> NoWork]
  /\ ctrl = <<>> /\ rep = <<>>
  /\ worker = "none" /\ wargs = Default /\ w = NoWork
  /\ mem = [rss |-> 0, hwm |-> 0]
  /\ truth = [life |-> 0, start |-> 0, window |-> 0, end |-> 0]
  /\ sampler = "none" /\ signals = {}

-----------------------------------------------------------------------------
(* A worker that has ended is in the process table until it is waited for, *)
(* with its ends of the pipes closed.                                      *)
Ended == worker \in {"exited", "failed"}
Alive == worker \notin {"none", "exited", "failed", "reaped"}

Returned == parent \in {"succeeded", "refused", "killed"}

(* What /proc shows: nothing once the process has ended. *)
Seen(size) == IF Alive THEN size ELSE 0

Larger(a, b)  == IF a > b THEN a ELSE b
Smaller(a, b) == IF a < b THEN a ELSE b

Goto(pc) == parent' = pc

(* fail, after stop_sampler where there is one. *)
Failing == IF sampler \in {"none", "joined"} THEN "kill" ELSE "stop_and_fail"

(* The parent reads the message it expects, or finds the pipe closed. *)
Receive(tag, next) ==
  \/ /\ rep # <<>> /\ Head(rep).tag = tag
     /\ rep' = Tail(rep) /\ Goto(next)
  \/ /\ rep = <<>> /\ Ended
     /\ Goto(Failing) /\ UNCHANGED rep

\* Slip: the parent waits without a limit.
NoTimeOut == FALSE /\ UNCHANGED <<parent, rep>>

(* wait_readable gives up. *)
TimeOut == rep = <<>> /\ Alive /\ Goto(Failing) /\ UNCHANGED rep

(* A byte for a worker that has ended raises SIGPIPE. *)
Send(msg, next) ==
  \/ Alive /\ ctrl' = Append(ctrl, msg) /\ Goto(next)
  \/ Ended /\ Goto(IF sigpipe = "ignored" THEN Failing ELSE "killed") /\ UNCHANGED ctrl

-----------------------------------------------------------------------------
(* evict_file_pages: observe, advise, observe again.  Each may fail, and   *)
(* pages may stay, or come back, although the advice is taken.             *)
Evict ==
  /\ parent = "evict"
  /\ \E before, advised, after, empty \in BOOLEAN :
       m' = [m EXCEPT !.verified = advised /\ before /\ after /\ empty]
  /\ Goto(IF args.strict_cold /\ ~m'.verified THEN "refused" ELSE "fork")
  /\ UNCHANGED <<settings, pipes, process, thread>>

(* The child has the parent's memory until it calls exec. *)
Fork ==
  /\ parent = "fork"
  /\ \/ Goto("refused") /\ UNCHANGED <<worker, mem>>
     \/ /\ Goto("await_ready")
        /\ worker' = "forked"
        /\ mem' \in {[rss |-> s, hwm |-> s] : s \in Memory}
  /\ UNCHANGED <<settings, m, pipes, wargs, w, truth, thread>>

AwaitReady ==
  /\ parent = "await_ready"
  /\ Receive("ready", "read_peak") \/ TimeOut
  /\ UNCHANGED <<settings, m, ctrl, process, thread>>

(* peak_through_warmup: "must be read before the reset destroys it". *)
ReadPeak ==
  /\ parent = "read_peak"
  /\ m' = [m EXCEPT !.through = Seen(mem.hwm)]
  /\ Goto("reset_peak")
  /\ UNCHANGED <<settings, pipes, process, thread>>

(* The kernel may not know clear_refs. *)
ResetPeak ==
  /\ parent = "reset_peak"
  /\ \E ok \in BOOLEAN :
       /\ ok => Alive
       /\ m'   = [m EXCEPT !.reset = ok]
       /\ mem' = [mem EXCEPT !.hwm = IF ok THEN mem.rss ELSE @]
  /\ Goto("read_baseline")
  /\ UNCHANGED <<settings, pipes, worker, wargs, w, truth, thread>>

(* With a profile the sampler thread is created next. *)
ReadBaseline ==
  /\ parent = "read_baseline"
  /\ m' = [m EXCEPT !.baseline = Seen(mem.rss),
                    !.timeline = IF args.memory_profile THEN <<"baseline">> ELSE <<>>]
  /\ sampler' = IF args.memory_profile THEN "started" ELSE "none"
  /\ Goto("send_go")
  /\ UNCHANGED <<settings, pipes, process, signals>>

SendGo ==
  /\ parent = "send_go"
  /\ Send("go", IF args.memory_profile THEN "store_start" ELSE "await_done")
  /\ UNCHANGED <<settings, m, rep, process, thread>>

Store(pc, signal, next) ==
  /\ parent = pc
  /\ signals' = signals \cup {signal}
  /\ Goto(next)
  /\ UNCHANGED <<settings, m, pipes, process, sampler>>

(* notify_all wakes who is blocked, not who is about to be. *)
Notify(pc, next) ==
  /\ parent = pc
  /\ sampler' = CASE sampler = "blocked"       -> "started"
                  [] sampler = "blocked_timed" -> "sampled"
                  [] OTHER                     -> sampler
  /\ Goto(next)
  /\ UNCHANGED <<settings, m, pipes, process, signals>>

StartSampling ==
  Store("store_start", "start", "notify_start") \/ Notify("notify_start", "await_done")

AwaitDone ==
  /\ parent = "await_done"
  /\ Receive("done", "read_report") \/ TimeOut
  /\ UNCHANGED <<settings, m, ctrl, process, thread>>

(* A report that does not claim the requested mode fails the run. *)
ReadReport ==
  /\ parent = "read_report"
  /\ Receive("report", IF Synthetic(args) \/ Head(rep).streaming = args.streaming
                       THEN "read_latencies" ELSE Failing)
  /\ m' = IF rep = <<>> THEN m ELSE [m EXCEPT !.report = Head(rep).work]
  /\ UNCHANGED <<settings, ctrl, process, thread>>

\* Slip: the sampler runs on.
NotStopping == "read_window"

(* Where the report is complete, the sampler is stopped if there is one. *)
Stopping == IF sampler = "none" THEN "read_window" ELSE "stop"

ReadPayload ==
  /\ \/ parent = "read_latencies" /\ Receive("latencies", "read_counts")
     \/ parent = "read_counts" /\ Receive("counts", Stopping)
  /\ UNCHANGED <<settings, m, ctrl, process, thread>>

Join(pc, next) ==
  /\ parent = pc
  /\ sampler = "exited"
  /\ sampler' = "joined"
  /\ Goto(next)
  /\ UNCHANGED <<settings, m, pipes, process, signals>>

(* stop_sampler, from the regular path and from the failing ones. *)
StopSampler ==
  \/ Store("stop", "stop", "notify_stop")
  \/ Notify("notify_stop", "join")
  \/ Join("join", "read_window")
  \/ Store("stop_and_fail", "stop", "notify_and_fail")
  \/ Notify("notify_and_fail", "join_and_fail")
  \/ Join("join_and_fail", "kill")

ReadWindow ==
  /\ parent = "read_window"
  /\ m' = [m EXCEPT !.window = Seen(mem.hwm)]
  /\ Goto("read_final")
  /\ UNCHANGED <<settings, pipes, process, thread>>

(* An attempt of the profile, periodic or final; 0 is an invalid sample. *)
Attempt(role) ==
  [m EXCEPT !.timeline = Append(@, role), !.attempted = @ + 1,
            !.sampled  = Larger(@, Seen(mem.rss))]

ReadFinal ==
  /\ parent = "read_final"
  /\ m' = [IF args.memory_profile THEN Attempt("final") ELSE m EXCEPT !.final = Seen(mem.rss)]
  /\ Goto("send_exit")
  /\ UNCHANGED <<settings, pipes, process, thread>>

SendExit ==
  /\ parent = "send_exit"
  /\ Send("exit", "wait")
  /\ UNCHANGED <<settings, m, rep, process, thread>>

Wait ==
  /\ parent = "wait" /\ Ended
  /\ Goto(IF worker = "exited" THEN "succeeded" ELSE "refused")
  /\ worker' = "reaped"
  /\ UNCHANGED <<settings, m, pipes, wargs, w, mem, truth, thread>>

(* fail: SIGKILL and wait. *)
Kill ==
  /\ parent = "kill"
  /\ Goto("refused")
  /\ worker' = "reaped"
  /\ UNCHANGED <<settings, m, pipes, wargs, w, mem, truth, thread>>

ParentStep ==
  \/ Evict \/ Fork \/ AwaitReady \/ ReadPeak \/ ResetPeak \/ ReadBaseline \/ SendGo
  \/ StartSampling \/ AwaitDone \/ ReadReport \/ ReadPayload \/ StopSampler
  \/ ReadWindow \/ ReadFinal \/ SendExit \/ Wait \/ Kill

-----------------------------------------------------------------------------
(* The sampler thread: which predicate it evaluated, and what it does next. *)
SamplerGoes(from, to) ==
  /\ sampler = from /\ parent # "killed"
  /\ sampler' = to
  /\ UNCHANGED <<settings, parent, m, pipes, process, signals>>

AwaitStart ==
  \/ signals # {} /\ SamplerGoes("started", "loop")
  \/ signals = {} /\ SamplerGoes("started", "checked")
  \/ SamplerGoes("checked", "blocked")

Sample ==
  /\ sampler = "loop" /\ "stop" \notin signals /\ parent # "killed"
  /\ m' = Attempt("periodic")
  /\ sampler' = "sampled"
  /\ UNCHANGED <<settings, parent, pipes, process, signals>>

AwaitStop ==
  \/ "stop" \in signals /\ \E pc \in {"loop", "sampled"} : SamplerGoes(pc, "exited")
  \/ "stop" \notin signals /\ SamplerGoes("sampled", "checked_timed")
  \/ SamplerGoes("checked_timed", "blocked_timed")
  \/ /\ m.attempted < MaxPeriodic \/ "stop" \in signals
     /\ SamplerGoes("blocked_timed", "loop")

SamplerStep == AwaitStart \/ Sample \/ AwaitStop

SpuriousWakeup ==
  SamplerGoes("blocked", "started") \/ SamplerGoes("blocked_timed", "sampled")

-----------------------------------------------------------------------------
(* The worker. *)
At(pc) == worker = pc

\* Slip: fork without exec; the peak of the parent counts as the worker's.
Inherited(s) == [rss |-> s, hwm |-> Larger(mem.hwm, s)]

(* exec gives the worker an address space of its own. *)
AddressSpace(s) == [rss |-> s, hwm |-> s]

(* "empty inputs file", and "cold execution runs exactly one batch". *)
CannotServe(a) ==
  ~Synthetic(a) /\ (Items = 0 \/ (Cold(a) /\ Items > a.batch_size))

(* exec_worker, parse_args, read_lines. *)
Exec ==
  /\ At("forked")
  /\ \E s \in Memory :
       /\ mem'   = AddressSpace(s)
       /\ truth' = [truth EXCEPT !.life = s]
  /\ wargs'  = parse_args(worker_argv(args))
  /\ worker' = IF ~Acceptable(wargs') \/ CannotServe(wargs') THEN "failed"
               ELSE IF Warm(wargs') THEN "load" ELSE "send_ready"
  /\ UNCHANGED <<settings, parent, m, pipes, w, thread>>

(* The size reaches peak and ends at size. *)
Work(inWindow) ==
  \E peak, size \in Memory :
    /\ size <= peak /\ mem.rss <= peak
    /\ mem'   = [rss |-> size, hwm |-> Larger(mem.hwm, peak)]
    /\ truth' = [truth EXCEPT !.life   = Larger(@, peak),
                              !.window = IF inWindow THEN Larger(@, peak) ELSE @,
                              !.end    = size]

(* load_model_and_context and prepare_output, in the window of a cold run. *)
Load ==
  /\ At("load")
  /\ Work(Cold(wargs))
  /\ worker' = IF Cold(wargs) THEN "window" ELSE "warmup"
  /\ UNCHANGED <<settings, parent, m, pipes, wargs, w, thread>>

BatchesPerIteration ==
  IF Warm(wargs) THEN 1 + ((Items - 1) \div wargs.batch_size) ELSE 1

Expected == IF Warm(wargs) THEN wargs.iter * BatchesPerIteration ELSE 1

(* Items of the n-th batch of an iteration, from 0. *)
BatchItems(n) ==
  IF Synthetic(wargs) THEN 1
  ELSE LET begin == n * wargs.batch_size
       IN  Smaller(begin + wargs.batch_size, Items) - begin

(* A warmup pass over the inputs. *)
Warmup ==
  /\ At("warmup") /\ w.warmup < wargs.warmup * Items
  /\ Work(FALSE)
  /\ w' = [w EXCEPT !.warmup = @ + Items]
  /\ UNCHANGED <<settings, parent, m, pipes, worker, wargs, thread>>

(* The worker writes when the pipe has room. *)
Write(pc, msg, next) ==
  /\ At(pc) /\ Len(rep) < PipeCapacity
  /\ rep' = Append(rep, msg)
  /\ worker' = next
  /\ UNCHANGED <<settings, parent, m, ctrl, wargs, w, mem, truth, thread>>

SendReady ==
  \/ Write("send_ready", [tag |-> "ready"], "await_go")
  \/ w.warmup = wargs.warmup * Items /\ Write("warmup", [tag |-> "ready"], "await_go")

AwaitGo ==
  /\ At("await_go") /\ ctrl # <<>> /\ Head(ctrl) = "go"
  /\ ctrl'   = Tail(ctrl)
  /\ worker' = IF Cold(wargs) THEN "load" ELSE "window"
  /\ truth'  = [truth EXCEPT !.start = mem.rss, !.window = mem.rss]
  /\ UNCHANGED <<settings, parent, m, rep, wargs, w, mem, thread>>

(* A timed batch. *)
Batch ==
  /\ At("window") /\ Len(w.counts) < Expected
  /\ Work(TRUE)
  /\ LET n == BatchItems(Len(w.counts) % BatchesPerIteration)
     IN  w' = [w EXCEPT !.items = @ + n, !.counts = Append(@, n)]
  /\ UNCHANGED <<settings, parent, m, pipes, worker, wargs, thread>>

(* The window is closed: DONE, the report, latencies, counts. *)
Report ==
  \/ Len(w.counts) = Expected /\ Write("window", [tag |-> "done"], "send_report")
  \/ Write("send_report",
           [tag |-> "report", work |-> w, streaming |-> wargs.streaming], "send_latencies")
  \/ Write("send_latencies", [tag |-> "latencies"], "send_counts")
  \/ Write("send_counts", [tag |-> "counts"], "await_exit")

AwaitExit ==
  /\ At("await_exit") /\ ctrl # <<>> /\ Head(ctrl) = "exit"
  /\ ctrl'   = Tail(ctrl)
  /\ worker' = "free"
  /\ UNCHANGED <<settings, parent, m, rep, wargs, w, mem, truth, thread>>

(* free_context and free_model, then the end. *)
Exit ==
  /\ At("free")
  /\ \E s \in Memory : s <= mem.rss /\ mem' = [mem EXCEPT !.rss = s]
  /\ worker' = "exited"
  /\ UNCHANGED <<settings, parent, m, pipes, wargs, w, truth, thread>>

(* Any call fails, or something kills the process. *)
Die ==
  /\ Alive
  /\ worker' = "failed"
  /\ UNCHANGED <<settings, parent, m, pipes, wargs, w, mem, truth, thread>>

ClosingStep == Report \/ AwaitExit \/ Exit

WorkerStep == Exec \/ Load \/ Warmup \/ SendReady \/ AwaitGo \/ Batch \/ ClosingStep \/ Die

-----------------------------------------------------------------------------
Next == ParentStep \/ SamplerStep \/ SpuriousWakeup \/ WorkerStep

(* The worker may wedge until its window is closed, and wakeups need not   *)
(* be spurious.                                                            *)
Spec ==
  /\ Init /\ [][Next]_vars
  /\ WF_vars(ParentStep) /\ WF_vars(SamplerStep) /\ WF_vars(ClosingStep)

-----------------------------------------------------------------------------
Succeeded == parent = "succeeded"

(* "so we can report both windows separately and honestly": in a run that  *)
(* succeeds, every number read from /proc is the worker's true one for the *)
(* phase it is reported for, whenever either process ran.  A synthetic run *)
(* has no model file whose eviction a strict one could verify.             *)
MeasurementIsOfWindow ==
  Succeeded =>
    /\ Larger(m.through, m.window) = truth.life
    /\ m.reset => m.window = truth.window /\ m.sampled <= m.window
    /\ m.baseline = truth.start
    /\ m.final = truth.end
    /\ args.strict_cold /\ ~Synthetic(args) => m.verified

(* What the result file says was requested is what the worker did.         *)
ReportIsOfRequest ==
  Succeeded =>
    /\ ~Synthetic(args) => \A s \in WorkerSettings : Effective(wargs)[s] = Effective(args)[s]
    /\ m.report.items = CASE Synthetic(args) -> 1
                          [] Cold(args)      -> Items
                          [] Warm(args)      -> args.iter * Items
    /\ m.report.warmup = IF Warm(args) THEN args.warmup * Items ELSE 0
    /\ FoldLeft(+, 0, m.report.counts) = m.report.items

(* "raw memory timeline preserves baseline plus every attempt" and         *)
(* "brackets GO and DONE with baseline/final": the two threads that append *)
(* to it never overlap.  Without a profile there is none.                  *)
TimelineIsComplete ==
  Succeeded =>
    IF args.memory_profile
    THEN /\ Len(m.timeline) = m.attempted + 1
         /\ \A i \in DOMAIN m.timeline :
              m.timeline[i] = CASE i = 1               -> "baseline"
                                [] i = Len(m.timeline) -> "final"
                                [] OTHER               -> "periodic"
    ELSE m.timeline = <<>> /\ m.attempted = 0

(* "Guards against a wedged worker hanging the harness forever": whatever  *)
(* the worker does before its window closes, the parent returns and leaves *)
(* neither process nor thread, except that it waits for ever for a sampler *)
(* that went to sleep after both notifications.                            *)
SleptThrough == parent \in {"join", "join_and_fail"} /\ sampler = "blocked"

LeftNothing ==
  Returned /\ ~Alive /\ (parent # "killed" => sampler \in {"none", "joined"})

OnlyMissedWakeupHangs == <>[](SleptThrough \/ LeftNothing)
=============================================================================
