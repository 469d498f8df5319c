------------------------- MODULE BenchHarnessProofs -------------------------
(***************************************************************************)
(* Proofs about BenchHarness, for any command lines, inputs, pipes, memory *)
(* sizes and numbers of samples.                                           *)
(***************************************************************************)
EXTENDS BenchHarness, CommonFacts, TLAPS

\* Where the parent is: before READY, before GO, before the report is
\* complete, before EXIT is sent, after, and on the way out of a failure.
Starting == {"evict", "fork", "await_ready"}
Ready    == {"read_peak", "reset_peak", "read_baseline", "send_go"}
Running  == {"store_start", "notify_start", "await_done", "read_report", "read_latencies",
             "read_counts"}
Closing  == {"stop", "notify_stop", "join", "read_window", "read_final", "send_exit"}
Leaving  == {"wait", "succeeded"}
Failed   == {"stop_and_fail", "notify_and_fail", "join_and_fail", "kill", "refused", "killed"}

\* Where the worker is before and after GO.
Preparing == {"none", "forked", "load", "warmup", "send_ready", "await_go"}
Measuring == {"load", "window", "send_report", "send_latencies", "send_counts"}

Measures == {"verified", "through", "reset", "baseline", "window", "final", "sampled",
             "attempted", "timeline", "report"}

Role == {"baseline", "periodic", "final"}

IsSequence(s) == s \in Seq({s[i] : i \in DOMAIN s})

Types ==
  /\ parent  \in Starting \cup Ready \cup Running \cup Closing \cup Leaving \cup Failed
  /\ worker  \in Preparing \cup Measuring \cup {"await_exit", "free", "exited", "failed", "reaped"}
  /\ sampler \in {"none", "started", "checked", "blocked", "loop", "sampled", "checked_timed",
                  "blocked_timed", "exited", "joined"}
  /\ mem   \in [rss : Nat, hwm : Nat]
  /\ truth \in [life : Nat, start : Nat, window : Nat, end : Nat]
  /\ DOMAIN m = Measures
  /\ {m.through, m.baseline, m.window, m.final, m.sampled, m.attempted} \subseteq Nat
  /\ m.timeline \in Seq(Role)
  /\ DOMAIN w = {"warmup", "items", "counts"}
  /\ IsSequence(ctrl) /\ IsSequence(rep)

Told(msg)     == \E i \in DOMAIN ctrl : ctrl[i] = msg
Reported(tag) == \E i \in DOMAIN rep : rep[i].tag = tag

(* What each knows of the other: a message received, or still in a pipe,   *)
(* says how far its sender is, and nobody goes on without one.             *)
Handshake ==
  /\ parent \in {"evict", "fork"} => worker = "none"
  /\ parent \in Starting \cup Ready => ctrl = <<>> /\ worker \in Preparing \cup {"failed"}
  /\ parent \in Starting /\ worker = "load" => Warm(wargs)
  /\ parent \in Ready => worker \in {"await_go", "failed"}
  /\ parent \in Running => worker \in Measuring \cup {"await_go", "await_exit", "failed"}
  /\ parent \in Running /\ worker = "load" => Cold(wargs)
  /\ parent \in Closing => worker \in {"await_exit", "failed"}
  /\ parent = "wait" => worker \in {"await_exit", "free", "exited", "failed"}
  /\ parent = "succeeded" => worker = "reaped"
  /\ parent \notin Leaving => ~Told("exit")
  /\ Reported("ready") => worker \notin Preparing \ {"load", "await_go"} /\ (worker = "load" => Cold(wargs))
  /\ Reported("counts") => worker \in {"await_exit", "free", "exited", "failed", "reaped"}

(* The sizes while the worker has not failed: what was read of them, and   *)
(* how they relate to the true ones.                                       *)
BeforeReset == Starting \cup {"read_peak", "reset_peak"}

Memories ==
  /\ worker # "none" => mem.rss <= mem.hwm
  /\ worker \notin {"none", "forked"} =>
       truth.life = IF parent \in Starting \cup {"read_peak"} THEN mem.hwm
                                                              ELSE Larger(m.through, mem.hwm)
  /\ parent = "reset_peak" => m.through = mem.hwm
  /\ parent \notin BeforeReset /\ worker = "await_go" => (m.reset => mem.hwm = mem.rss)
  /\ parent \notin BeforeReset \cup {"read_baseline"} /\ worker = "await_go" =>
       m.baseline = mem.rss
  /\ parent \notin Starting \cup Ready /\ worker # "await_go" =>
       /\ m.baseline = truth.start
       /\ m.reset => mem.hwm = truth.window
  /\ m.sampled <= mem.hwm
  /\ worker \in {"none", "forked", "send_ready"} => w.counts = <<>>
  /\ worker = "send_ready" => ~Warm(wargs)
  /\ worker \in {"warmup", "await_go", "window"} =>
       truth.end = mem.rss \/ (w.counts = <<>> /\ ~Warm(wargs))
  /\ worker \in {"send_report", "send_latencies", "send_counts", "await_exit"} =>
       truth.end = mem.rss
  /\ parent \in {"read_final", "send_exit"} \cup Leaving => m.window = mem.hwm
  /\ parent \in {"send_exit"} \cup Leaving => m.final = truth.end

Verified == parent # "evict" /\ args.strict_cold /\ ~Synthetic(args) => m.verified

(* What each thread has appended to the timeline. *)
Timeline ==
  /\ parent \in BeforeReset \cup {"read_baseline"} =>
       sampler = "none" /\ m.timeline = <<>> /\ m.attempted = 0 /\ m.sampled = 0
  /\ parent \notin BeforeReset \cup {"read_baseline"} =>
       IF args.memory_profile
       THEN /\ sampler # "none"
            /\ Len(m.timeline) = m.attempted + 1
            /\ parent \in {"send_exit"} \cup Leaving => m.attempted > 0
            /\ \A i \in DOMAIN m.timeline :
                 m.timeline[i] =
                   IF i = 1 THEN "baseline"
                   ELSE IF i = Len(m.timeline) /\ parent \in {"send_exit"} \cup Leaving
                   THEN "final" ELSE "periodic"
       ELSE sampler = "none" /\ m.timeline = <<>> /\ m.attempted = 0
  /\ parent \in {"read_window", "read_final", "send_exit"} \cup Leaving =>
       sampler \in {"none", "joined"}

(* The inductive invariant. *)
IInv ==
  /\ Types
  /\ parent \notin Failed =>
       Handshake /\ Verified /\ Timeline /\ (worker # "failed" => Memories)

-----------------------------------------------------------------------------
(* A sequence over any set is one over its elements. *)
LEMMA Elements ==
  ASSUME NEW S, NEW t \in Seq(S)
  PROVE  IsSequence(t)
<1>1. t = [i \in 1 .. Len(t) |-> t[i]] /\ Len(t) \in Nat /\ DOMAIN t = 1 .. Len(t)
  OBVIOUS
<1>2. \A i \in 1 .. Len(t) : t[i] \in {t[j] : j \in DOMAIN t}
  BY <1>1
<1> QED
  BY <1>1, <1>2 DEF IsSequence

(* Sending appends, receiving takes the first; nothing else is in a pipe.  *)
LEMMA Sending ==
  ASSUME NEW s, IsSequence(s), NEW v
  PROVE  /\ IsSequence(Append(s, v))
         /\ \A i \in DOMAIN Append(s, v) : Append(s, v)[i] = v \/ \E j \in DOMAIN s : Append(s, v)[i] = s[j]
<1> DEFINE t == Append(s, v)
           S == {s[i] : i \in DOMAIN s} \cup {v}
<1>1. s \in Seq(S)
  BY DEF IsSequence
<1>2. t \in Seq(S) /\ DOMAIN t = 1 .. Len(s) + 1 /\ Len(s) \in Nat /\ DOMAIN s = 1 .. Len(s)
  BY <1>1
<1>3. \A i \in DOMAIN t : t[i] = IF i = Len(s) + 1 THEN v ELSE s[i]
  BY <1>1
<1>4. IsSequence(t)
  BY <1>2, Elements
<1> QED
  BY <1>2, <1>3, <1>4

(* Receiving takes the first. *)
LEMMA Receiving ==
  ASSUME NEW s, IsSequence(s), s # <<>>
  PROVE  /\ IsSequence(Tail(s))
         /\ 1 \in DOMAIN s /\ Head(s) = s[1]
         /\ \A i \in DOMAIN Tail(s) : \E j \in DOMAIN s : Tail(s)[i] = s[j]
<1> DEFINE t == Tail(s)
           S == {s[i] : i \in DOMAIN s}
<1>1. s \in Seq(S)
  BY DEF IsSequence
<1>2. t \in Seq(S) /\ Len(s) \in Nat \ {0} /\ DOMAIN t = 1 .. Len(s) - 1 /\ DOMAIN s = 1 .. Len(s)
  BY <1>1
<1>3. \A i \in DOMAIN t : t[i] = s[i + 1]
  BY <1>1
<1>4. IsSequence(t)
  BY <1>2, Elements
<1>5. 1 \in DOMAIN s /\ Head(s) = s[1]
  BY <1>1, <1>2
<1>6. \A i \in DOMAIN t : i + 1 \in DOMAIN s
  BY <1>2
<1> QED
  BY <1>3, <1>4, <1>5, <1>6

(* What the parent does when it waits for a message, and when it sends.    *)
LEMMA ReceiveEffect ==
  ASSUME Types, NEW tag, NEW next, Receive(tag, next) \/ TimeOut
  PROVE  /\ IsSequence(rep') /\ (\A t : Reported(t)' => Reported(t))
         /\ \/ parent' = next /\ Reported(tag)
            \/ parent' \in Failed
<1>1. CASE rep # <<>> /\ Head(rep).tag = tag /\ rep' = Tail(rep) /\ Goto(next)
  BY <1>1, Receiving DEF Types, Reported, Goto
<1>2. CASE Goto(Failing) /\ UNCHANGED rep
  BY <1>2 DEF Types, Reported, Goto, Failing, Failed
<1> QED
  BY <1>1, <1>2 DEF Receive, TimeOut

(* A byte for the worker, or a failure. *)
LEMMA SendEffect ==
  ASSUME Types, NEW msg, NEW next, Send(msg, next)
  PROVE  /\ IsSequence(ctrl') /\ (\A t : Told(t)' => Told(t) \/ t = msg)
         /\ \/ parent' = next
            \/ parent' \in Failed
<1>1. CASE ctrl' = Append(ctrl, msg) /\ Goto(next)
  BY <1>1, Sending DEF Types, Told, Goto
<1>2. CASE Goto(IF sigpipe = "ignored" THEN Failing ELSE "killed") /\ UNCHANGED ctrl
  BY <1>2 DEF Types, Told, Goto, Failing, Failed
<1> QED
  BY <1>1, <1>2 DEF Send

(* Sizes are sizes. *)
LEMMA SizeFacts ==
  /\ \A s \in Memory : s \in Nat /\ s > 0
  /\ \A a, b \in Nat : Larger(a, b) \in Nat /\ Larger(a, b) >= a /\ Larger(a, b) >= b
                       /\ Larger(a, b) \in {a, b}
BY MemoryAssumption DEF Larger

(* /proc never shows more than there is. *)
LEMMA SeenFacts ==
  ASSUME NEW s \in Nat
  PROVE  Seen(s) \in Nat /\ Seen(s) <= s /\ (Alive => Seen(s) = s)
BY DEF Seen

(* The parent's measurements, one or several of them replaced.             *)
MTyped(x) ==
  /\ DOMAIN x = Measures
  /\ {x.through, x.baseline, x.window, x.final, x.sampled, x.attempted} \subseteq Nat
  /\ x.timeline \in Seq(Role)

(* An attempt appends to the timeline and leaves the other numbers. *)
LEMMA AttemptEffect ==
  ASSUME Types, NEW role \in Role
  PROVE  LET x == Attempt(role)
         IN  /\ MTyped(x)
             /\ x.timeline = Append(m.timeline, role)
             /\ x.attempted = m.attempted + 1
             /\ x.sampled = Larger(m.sampled, Seen(mem.rss))
             /\ \A f \in Measures \ {"timeline", "attempted", "sampled"} : x[f] = m[f]
<1> DEFINE x == Attempt(role)
<1>1. /\ DOMAIN m = Measures /\ m.timeline \in Seq(Role) /\ mem.rss \in Nat
      /\ m.attempted \in Nat /\ m.sampled \in Nat /\ m.through \in Nat /\ m.baseline \in Nat
      /\ m.window \in Nat /\ m.final \in Nat
  BY DEF Types
<1>2. /\ DOMAIN x = Measures
      /\ x.timeline = Append(m.timeline, role)
      /\ x.attempted = m.attempted + 1
      /\ x.sampled = Larger(m.sampled, Seen(mem.rss))
      /\ \A f \in Measures \ {"timeline", "attempted", "sampled"} : x[f] = m[f]
  BY <1>1 DEF Attempt, Measures
<1>3. x.timeline \in Seq(Role) /\ x.attempted \in Nat /\ x.sampled \in Nat
  BY <1>1, <1>2, SizeFacts, SeenFacts
<1>4. x.through = m.through /\ x.baseline = m.baseline /\ x.window = m.window /\ x.final = m.final
  BY <1>2 DEF Measures
<1> QED
  BY <1>1, <1>2, <1>3, <1>4 DEF MTyped

(* A message of the worker. *)
LEMMA WriteEffect ==
  ASSUME Types, NEW pc, NEW msg, NEW next, Write(pc, msg, next)
  PROVE  /\ worker = pc /\ worker' = next
         /\ IsSequence(rep') /\ \A t : Reported(t)' => Reported(t) \/ msg.tag = t
         /\ UNCHANGED <<settings, parent, m, ctrl, wargs, w, mem, truth, thread>>
BY Sending DEF Write, At, Types, Reported

(* A stretch of work of the worker. *)
LEMMA WorkEffect ==
  ASSUME Types, NEW inWindow \in BOOLEAN, Work(inWindow)
  PROVE  \E peak, size \in Nat :
           /\ size <= peak
           /\ mem' \in [rss : Nat, hwm : Nat]
           /\ truth' \in [life : Nat, start : Nat, window : Nat, end : Nat]
           /\ mem'.rss = size /\ mem'.hwm = Larger(mem.hwm, peak)
           /\ truth'.life = Larger(truth.life, peak) /\ truth'.start = truth.start
           /\ truth'.window = IF inWindow THEN Larger(truth.window, peak) ELSE truth.window
           /\ truth'.end = size
<1>1. PICK peak \in Memory, size \in Memory :
        /\ size <= peak
        /\ mem'   = [rss |-> size, hwm |-> Larger(mem.hwm, peak)]
        /\ truth' = [truth EXCEPT !.life   = Larger(@, peak),
                                  !.window = IF inWindow THEN Larger(@, peak) ELSE @,
                                  !.end    = size]
  BY DEF Work
<1>2. /\ peak \in Nat /\ size \in Nat /\ mem \in [rss : Nat, hwm : Nat]
      /\ truth \in [life : Nat, start : Nat, window : Nat, end : Nat]
  BY SizeFacts DEF Types
<1>3. mem.hwm \in Nat /\ truth.life \in Nat /\ truth.window \in Nat
  BY <1>2
<1>4. /\ Larger(mem.hwm, peak) \in Nat
      /\ Larger(truth.life, peak) \in Nat /\ Larger(truth.window, peak) \in Nat
  BY <1>2, <1>3, SizeFacts
<1> QED
  BY <1>1, <1>2, <1>4

-----------------------------------------------------------------------------
(* The types, action by action. *)
LEMMA ParentTypes == Types /\ ParentStep => Types'
<1> SUFFICES ASSUME Types, ParentStep PROVE Types'
  OBVIOUS
<1> USE DEF settings, pipes, process, thread, Goto, Starting, Ready, Running, Closing, Leaving
<1>0. /\ mem.rss \in Nat /\ mem.hwm \in Nat
      /\ Seen(mem.rss) \in Nat /\ Seen(mem.hwm) \in Nat
  <2>1. mem.rss \in Nat /\ mem.hwm \in Nat
    BY DEF Types
  <2> QED
    BY <2>1, SeenFacts
<1>1. CASE Evict
  BY <1>1 DEF Evict, Types, Measures, Failed
<1>2. CASE Fork
  <2>1. mem' \in [rss : Nat, hwm : Nat]
    <3>1. CASE mem' = mem
      BY <3>1 DEF Types
    <3>2. ASSUME NEW s \in Memory, mem' = [rss |-> s, hwm |-> s]
          PROVE  mem' \in [rss : Nat, hwm : Nat]
      <4>1. s \in Nat
        BY SizeFacts
      <4> QED
        BY <3>2, <4>1
    <3> QED
      BY <1>2, <3>1, <3>2 DEF Fork
  <2> QED
    BY <1>2, <2>1 DEF Fork, Types, Preparing, Failed
<1>3. CASE AwaitReady \/ AwaitDone
  <2>1. PICK tag, next : (Receive(tag, next) \/ TimeOut) /\ next \in Ready \cup Running
    BY <1>3 DEF AwaitReady, AwaitDone
  <2>2. UNCHANGED <<settings, m, ctrl, process, thread>>
    BY <1>3 DEF AwaitReady, AwaitDone
  <2> QED
    BY <2>1, <2>2, ReceiveEffect DEF Types
<1>4. CASE ReadPeak \/ ReadWindow
  BY <1>0, <1>4 DEF ReadPeak, ReadWindow, Types, Measures
<1>5. CASE ResetPeak
  BY <1>0, <1>5 DEF ResetPeak, Types, Measures
<1>6. CASE ReadBaseline
  <2>1. <<"baseline">> \in Seq(Role) /\ <<>> \in Seq(Role)
    BY DEF Role
  <2> QED
    BY <1>0, <1>6, <2>1 DEF ReadBaseline, Types, Measures
<1>7. CASE SendGo \/ SendExit
  <2>1. PICK msg, next : Send(msg, next) /\ next \in Running \cup Leaving
    BY <1>7 DEF SendGo, SendExit
  <2>2. UNCHANGED <<settings, m, rep, process, thread>>
    BY <1>7 DEF SendGo, SendExit
  <2> QED
    BY <2>1, <2>2, SendEffect DEF Types
<1>8. CASE StartSampling \/ StopSampler
  <2>1. /\ sampler' \in {sampler, "started", "sampled", "joined"}
        /\ UNCHANGED <<settings, m, pipes, process>>
    BY <1>8 DEF StartSampling, StopSampler, Store, Notify, Join
  <2>2. parent' \in Running \cup Closing \cup Failed
    BY <1>8 DEF StartSampling, StopSampler, Store, Notify, Join, Failed
  <2> QED
    BY <2>1, <2>2 DEF Types
<1>9. CASE ReadReport
  <2>1. /\ IsSequence(rep') /\ parent' \in Running \cup Failed
        /\ UNCHANGED <<settings, ctrl, process, thread>>
    BY <1>9, ReceiveEffect DEF ReadReport, Failing, Failed
  <2>2. DOMAIN m' = Measures /\ \A f \in Measures \ {"report"} : m'[f] = m[f]
    BY <1>9 DEF ReadReport, Types
  <2> QED
    BY <2>1, <2>2 DEF Types, Measures
<1>10. CASE ReadPayload
  <2>1. PICK tag, next : Receive(tag, next) /\ next \in Running \cup Closing
    BY <1>10 DEF ReadPayload, Stopping
  <2>2. UNCHANGED <<settings, m, ctrl, process, thread>>
    BY <1>10 DEF ReadPayload
  <2> QED
    BY <2>1, <2>2, ReceiveEffect DEF Types
<1>11. CASE ReadFinal
  <2>1. PICK x : /\ MTyped(x) /\ m' = [x EXCEPT !.final = Seen(mem.rss)]
    BY <1>11, AttemptEffect DEF ReadFinal, Types, MTyped, Role
  <2>2. MTyped(m')
    BY <1>0, <2>1 DEF MTyped, Measures
  <2> QED
    BY <1>11, <2>2 DEF ReadFinal, Types, MTyped
<1>12. CASE Wait \/ Kill
  BY <1>12 DEF Wait, Kill, Types, Failed
<1> QED
  BY <1>1, <1>2, <1>3, <1>4, <1>5, <1>6, <1>7, <1>8, <1>9, <1>10, <1>11, <1>12 DEF ParentStep

(* The sampler's steps. *)
LEMMA SamplerTypes == Types /\ (SamplerStep \/ SpuriousWakeup) => Types'
<1> SUFFICES ASSUME Types, SamplerStep \/ SpuriousWakeup PROVE Types'
  OBVIOUS
<1> USE DEF settings, pipes, process, thread
<1>1. CASE Sample
  <2>1. MTyped(m')
    BY <1>1, AttemptEffect DEF Sample, Role
  <2> QED
    BY <1>1, <2>1 DEF Sample, Types, MTyped
<1>2. CASE AwaitStart \/ AwaitStop \/ SpuriousWakeup
  BY <1>2 DEF AwaitStart, AwaitStop, SpuriousWakeup, SamplerGoes, Types
<1> QED
  BY <1>1, <1>2 DEF SamplerStep

(* The worker's. *)
LEMMA WorkerTypes == Types /\ WorkerStep => Types'
<1> SUFFICES ASSUME Types, WorkerStep PROVE Types'
  OBVIOUS
<1> USE DEF settings, pipes, process, thread, At
<1>1. CASE Exec
  <2>1. PICK s \in Memory : mem' = AddressSpace(s) /\ truth' = [truth EXCEPT !.life = s]
    BY <1>1 DEF Exec
  <2>2. mem' \in [rss : Nat, hwm : Nat] /\ truth' \in [life : Nat, start : Nat, window : Nat, end : Nat]
    BY <2>1, SizeFacts DEF AddressSpace, Types
  <2>3. worker' \in {"failed", "load", "send_ready"}
    BY <1>1 DEF Exec
  <2> QED
    BY <1>1, <2>2, <2>3 DEF Exec, Types, Preparing
<1>2. CASE Load \/ Warmup \/ Batch
  <2>1. PICK inWindow \in BOOLEAN : Work(inWindow)
    BY <1>2 DEF Load, Warmup, Batch, Cold
  <2>2. mem' \in [rss : Nat, hwm : Nat] /\ truth' \in [life : Nat, start : Nat, window : Nat, end : Nat]
    BY <2>1, WorkEffect
  <2>3. /\ DOMAIN w' = {"warmup", "items", "counts"} /\ worker' \in {worker, "window", "warmup"}
        /\ UNCHANGED <<settings, parent, m, pipes, wargs, thread>>
    BY <1>2 DEF Load, Warmup, Batch, Types
  <2> QED
    BY <2>2, <2>3 DEF Types, Measuring, Preparing
<1>3. CASE SendReady \/ Report
  <2>2. /\ IsSequence(rep') /\ worker' \in Preparing \cup Measuring \cup {"await_exit"}
        /\ UNCHANGED <<settings, parent, m, ctrl, wargs, w, mem, truth, thread>>
    BY <1>3, WriteEffect DEF SendReady, Report, Preparing, Measuring
  <2> QED
    BY <2>2 DEF Types
<1>4. CASE AwaitGo
  <2>1. truth' \in [life : Nat, start : Nat, window : Nat, end : Nat]
    BY <1>4 DEF AwaitGo, Types
  <2>2. IsSequence(ctrl') /\ worker' \in Measuring
    BY <1>4, Receiving DEF AwaitGo, Types, Measuring
  <2> QED
    BY <1>4, <2>1, <2>2 DEF AwaitGo, Types
<1>5. CASE AwaitExit
  BY <1>5, Receiving DEF AwaitExit, Types
<1>6. CASE Exit
  <2>1. mem' \in [rss : Nat, hwm : Nat]
    BY <1>6, SizeFacts DEF Exit, Types
  <2> QED
    BY <1>6, <2>1 DEF Exit, Types
<1>7. CASE Die
  BY <1>7 DEF Die, Types
<1> QED
  BY <1>1, <1>2, <1>3, <1>4, <1>5, <1>6, <1>7 DEF WorkerStep, ClosingStep

(* Every step. *)
LEMMA StepTypes == Types /\ [Next]_vars => Types'
<1>1. Types /\ UNCHANGED vars => Types'
  BY DEF vars, Types
<1> QED
  BY <1>1, ParentTypes, SamplerTypes, WorkerTypes DEF Next

-----------------------------------------------------------------------------
(* A failure is final. *)
LEMMA GoingOn ==
  ASSUME Next, parent' \notin Failed, parent \notin Failed => Handshake
  PROVE  parent \notin Failed /\ (worker' # "failed" => worker # "failed")
<1> USE DEF settings, pipes, process, thread, Goto, Failed
<1>1. CASE ParentStep
  <2>1. parent \notin Failed
    BY <1>1 DEF ParentStep, Evict, Fork, AwaitReady, ReadPeak, ResetPeak, ReadBaseline, SendGo,
       StartSampling, AwaitDone, ReadReport, ReadPayload, StopSampler, ReadWindow, ReadFinal,
       SendExit, Wait, Kill, Store, Notify, Join
  <2>2. parent = "fork" => worker = "none"
    BY <2>1 DEF Handshake
  <2>3. worker' # "failed" => worker # "failed"
    BY <1>1, <2>2 DEF ParentStep, Evict, Fork, AwaitReady, ReadPeak, ResetPeak, ReadBaseline, SendGo,
       StartSampling, AwaitDone, ReadReport, ReadPayload, StopSampler, ReadWindow, ReadFinal,
       SendExit, Wait, Kill, Store, Notify, Join, Ended
  <2> QED
    BY <2>1, <2>3
<1>2. CASE SamplerStep \/ SpuriousWakeup
  BY <1>2 DEF SamplerStep, SpuriousWakeup, AwaitStart, Sample, AwaitStop, SamplerGoes
<1>3. CASE WorkerStep
  <2>1. parent' = parent
    BY <1>3 DEF WorkerStep, ClosingStep, Exec, Load, Warmup, SendReady, AwaitGo, Batch, Report,
       AwaitExit, Exit, Die, Write
  <2>2. worker' # "failed" => worker # "failed"
    BY <1>3 DEF WorkerStep, ClosingStep, Exec, Load, Warmup, SendReady, AwaitGo, Batch, Report,
       AwaitExit, Exit, Die, Write, At, Alive
  <2> QED
    BY <2>1, <2>2
<1> QED
  BY <1>1, <1>2, <1>3 DEF Next

(* Where each goes next: every step of the parent that does not fail, and  *)
(* what it leaves alone.                                                   *)
LEMMA HandshakeStep ==
  ASSUME Types, Types', Next, parent' \notin Failed, Handshake
  PROVE  Handshake'
<1> USE DEF settings, pipes, process, thread, Goto, Starting, Ready, Running, Closing, Leaving,
            Preparing, Measuring
<1>0. parent \notin Failed
  BY GoingOn
<1>1. CASE ParentStep
  <2>1. CASE Evict \/ ReadPeak \/ ReadBaseline \/ ResetPeak \/ ReadWindow \/ ReadFinal
    <3>1. /\ UNCHANGED <<pipes, worker, wargs>>
          /\ \/ parent = "evict" /\ parent' = "fork"
             \/ parent \in Ready /\ parent' \in Ready
             \/ parent \in Closing /\ parent' \in Closing
      BY <2>1 DEF Evict, ReadPeak, ReadBaseline, ResetPeak, ReadWindow, ReadFinal, Failed
    <3> QED
      BY <3>1 DEF Handshake, Told, Reported
  <2>2. CASE Fork
    BY <2>2 DEF Fork, Handshake, Failed, Told, Reported
  <2>3. CASE AwaitReady
    <3>1. parent' = "read_peak" /\ Reported("ready") /\ \A t : Reported(t)' => Reported(t)
      BY <2>3, ReceiveEffect DEF AwaitReady, Failed
    <3>2. parent = "await_ready" /\ UNCHANGED <<ctrl, worker, wargs>>
      BY <2>3 DEF AwaitReady
    <3>3. worker \in {"await_go", "failed"}
      BY <3>1, <3>2 DEF Handshake, Warm, Cold
    <3> QED
      BY <3>1, <3>2, <3>3 DEF Handshake, Told
  <2>4. CASE SendGo
    <3>1. parent' \in {"store_start", "await_done"} /\ \A t : Told(t)' => Told(t) \/ t = "go"
      BY <2>4, SendEffect DEF SendGo, Failed
    <3>2. parent = "send_go" /\ UNCHANGED <<rep, worker, wargs>>
      BY <2>4 DEF SendGo
    <3> QED
      BY <3>1, <3>2 DEF Handshake, Reported
  <2>5. CASE StartSampling
    BY <2>5, <1>0 DEF StartSampling, Store, Notify, Handshake, Told, Reported
  <2>6. CASE AwaitDone \/ ReadReport
    <3>1. parent' \in Running /\ \A t : Reported(t)' => Reported(t)
      BY <2>6, ReceiveEffect DEF AwaitDone, ReadReport, Failing, Failed
    <3>2. parent \in Running /\ UNCHANGED <<ctrl, worker, wargs>>
      BY <2>6 DEF AwaitDone, ReadReport
    <3> QED
      BY <3>1, <3>2 DEF Handshake, Told
  <2>7. CASE ReadPayload
    <3>1. /\ parent' \in {"read_counts"} \cup Closing /\ (parent' \in Closing => Reported("counts"))
          /\ \A t : Reported(t)' => Reported(t)
      BY <2>7, ReceiveEffect DEF ReadPayload, Stopping, Failed
    <3>2. parent \in Running /\ UNCHANGED <<ctrl, worker, wargs>>
      BY <2>7 DEF ReadPayload
    <3>3. parent' \in Closing => worker \in {"await_exit", "failed"}
      BY <3>1, <3>2 DEF Handshake
    <3> QED
      BY <3>1, <3>2, <3>3 DEF Handshake, Told
  <2>8. CASE StopSampler
    <3>1. parent \in Closing /\ parent' \in Closing /\ UNCHANGED <<pipes, worker, wargs>>
      BY <2>8, <1>0 DEF StopSampler, Store, Notify, Join, Failed
    <3> QED
      BY <3>1 DEF Handshake, Told, Reported
  <2>9. CASE SendExit
    <3>1. parent' = "wait" /\ parent = "send_exit" /\ UNCHANGED <<rep, worker, wargs>>
      BY <2>9, SendEffect DEF SendExit
    <3> QED
      BY <3>1 DEF Handshake, Reported
  <2>10. CASE Wait
    BY <2>10 DEF Wait, Handshake, Failed, Reported, Told, Ended
  <2>11. CASE Kill
    BY <2>11 DEF Kill, Failed
  <2> QED
    BY <1>1, <2>1, <2>2, <2>3, <2>4, <2>5, <2>6, <2>7, <2>8, <2>9, <2>10, <2>11 DEF ParentStep
<1>2. CASE SamplerStep \/ SpuriousWakeup
  <2>1. UNCHANGED <<parent, pipes, worker, wargs>>
    BY <1>2 DEF SamplerStep, SpuriousWakeup, AwaitStart, Sample, AwaitStop, SamplerGoes
  <2> QED
    BY <2>1 DEF Handshake, Told, Reported
<1>3. CASE WorkerStep
  <2>1. CASE Exec
    BY <2>1 DEF Exec, At, Handshake, Told, Reported
  <2>2. CASE Load \/ Warmup \/ Batch
    <3>1. /\ UNCHANGED <<parent, pipes, wargs>>
          /\ \/ worker = "load" /\ worker' = IF Cold(wargs) THEN "window" ELSE "warmup"
             \/ worker \in {"warmup", "window"} /\ worker' = worker
      BY <2>2 DEF Load, Warmup, Batch, At
    <3>2. ~(Cold(wargs) /\ Warm(wargs))
      BY DEF Cold, Warm
    <3> QED
      BY <3>1, <3>2 DEF Handshake, Told, Reported
  <2>3. CASE SendReady
    <3>1. /\ worker \in {"warmup", "send_ready"} /\ worker' = "await_go"
          /\ \A t : Reported(t)' => Reported(t) \/ t = "ready"
          /\ UNCHANGED <<parent, ctrl, wargs>>
      BY <2>3, WriteEffect DEF SendReady
    <3> QED
      BY <3>1 DEF Handshake, Told
  <2>4. CASE AwaitGo
    <3>0. ctrl # <<>> /\ \A t : Told(t)' => Told(t)
      <4>1. ctrl # <<>> /\ ctrl' = Tail(ctrl) /\ IsSequence(ctrl)
        BY <2>4 DEF AwaitGo, Types
      <4> QED
        BY <4>1, Receiving DEF Told
    <3>1. /\ worker = "await_go" /\ worker' = IF Cold(wargs) THEN "load" ELSE "window"
          /\ UNCHANGED <<parent, rep, wargs>>
      BY <2>4 DEF AwaitGo, At
    <3>2. wargs' = wargs /\ Cold(wargs)' = Cold(wargs) /\ Warm(wargs)' = Warm(wargs)
      BY <3>1 DEF Cold, Warm
    <3> QED
      BY <3>0, <3>1, <3>2 DEF Handshake, Reported
  <2>5. CASE Report
    <3>1. /\ \/ worker = "window" /\ worker' = "send_report" /\ \A t : Reported(t)' => Reported(t) \/ t = "done"
             \/ worker = "send_report" /\ worker' = "send_latencies" /\ \A t : Reported(t)' => Reported(t) \/ t = "report"
             \/ worker = "send_latencies" /\ worker' = "send_counts" /\ \A t : Reported(t)' => Reported(t) \/ t = "latencies"
             \/ worker = "send_counts" /\ worker' = "await_exit" /\ \A t : Reported(t)' => Reported(t) \/ t = "counts"
          /\ UNCHANGED <<parent, ctrl, wargs>>
      BY <2>5, WriteEffect DEF Report
    <3> QED
      BY <3>1 DEF Handshake, Told
  <2>6. CASE AwaitExit
    <3>1. /\ worker = "await_exit" /\ worker' = "free"
          /\ Told("exit") /\ \A t : Told(t)' => Told(t)
          /\ UNCHANGED <<parent, rep, wargs>>
      BY <2>6, Receiving DEF AwaitExit, At, Types, Told
    <3> QED
      BY <3>1 DEF Handshake, Reported
  <2>7. CASE Exit \/ Die
    <3>1. /\ \/ worker = "free" /\ worker' = "exited"
             \/ worker \notin {"none", "exited", "failed", "reaped"} /\ worker' = "failed"
          /\ UNCHANGED <<parent, pipes, wargs>>
      BY <2>7 DEF Exit, Die, At, Alive
    <3> QED
      BY <3>1 DEF Handshake, Told, Reported
  <2> QED
    BY <1>3, <2>1, <2>2, <2>3, <2>4, <2>5, <2>6, <2>7 DEF WorkerStep, ClosingStep
<1> QED
  BY <1>1, <1>2, <1>3 DEF Next

(* The parent's moves between phases, without those that fail. *)
LEMMA ParentMoves ==
  ASSUME Types, ParentStep, parent' \notin Failed, parent \notin Failed
  PROVE  /\ UNCHANGED settings
         /\ \/ parent = "evict"         /\ parent' = "fork"
            \/ parent = "fork"          /\ parent' = "await_ready"
            \/ parent = "await_ready"   /\ parent' = "read_peak"
            \/ parent = "read_peak"     /\ parent' = "reset_peak"
            \/ parent = "reset_peak"    /\ parent' = "read_baseline"
            \/ parent = "read_baseline" /\ parent' = "send_go"
            \/ parent = "send_go"       /\ parent' \in {"store_start", "await_done"}
            \/ parent \in Running       /\ parent' \in Running \cup {"stop"}
            \/ parent \in Running       /\ parent' = "read_window" /\ sampler = "none"
            \/ parent \in {"stop", "notify_stop"} /\ parent' \in {"notify_stop", "join"}
            \/ parent = "join"          /\ parent' = "read_window" /\ sampler' = "joined"
            \/ parent = "read_window"   /\ parent' = "read_final"
            \/ parent = "read_final"    /\ parent' = "send_exit"
            \/ parent = "send_exit"     /\ parent' = "wait"
            \/ parent = "wait"          /\ parent' = "succeeded" /\ worker = "exited" /\ worker' = "reaped"
<1> USE DEF settings, Goto, Running
<1>1. CASE Evict \/ Fork \/ ReadPeak \/ ResetPeak \/ ReadBaseline \/ ReadWindow \/ ReadFinal \/ Wait \/ Kill
  BY <1>1 DEF Evict, Fork, ReadPeak, ResetPeak, ReadBaseline, ReadWindow, ReadFinal, Wait, Kill, Failed
<1>2. CASE AwaitReady
  BY <1>2, ReceiveEffect DEF AwaitReady
<1>3. CASE SendGo
  BY <1>3, SendEffect DEF SendGo
<1>4. CASE SendExit
  BY <1>4, SendEffect DEF SendExit
<1>5. CASE AwaitDone
  BY <1>5, ReceiveEffect DEF AwaitDone
<1>6. CASE ReadReport
  BY <1>6, ReceiveEffect DEF ReadReport, Failing, Failed
<1>7. CASE ReadPayload
  BY <1>7, ReceiveEffect DEF ReadPayload, Stopping
<1>8. CASE StartSampling \/ StopSampler
  BY <1>8 DEF StartSampling, StopSampler, Store, Notify, Join, Failed
<1> QED
  BY <1>1, <1>2, <1>3, <1>4, <1>5, <1>6, <1>7, <1>8 DEF ParentStep

(* What the parent's moves do to its measurement and to the sampler.       *)
LEMMA ParentMeasures ==
  ASSUME Types, ParentStep, parent' \notin Failed, parent \notin Failed
  PROVE  /\ parent = "evict" => /\ \A f \in Measures \ {"verified"} : m'[f] = m[f]
                                /\ args.strict_cold => m'.verified
         /\ parent = "read_peak" =>
              m'.through = Seen(mem.hwm) /\ \A f \in Measures \ {"through"} : m'[f] = m[f]
         /\ parent = "reset_peak" => \A f \in Measures \ {"reset"} : m'[f] = m[f]
         /\ parent = "read_baseline" =>
              /\ m'.baseline = Seen(mem.rss)
              /\ m'.timeline = (IF args.memory_profile THEN <<"baseline">> ELSE <<>>)
              /\ \A f \in Measures \ {"baseline", "timeline"} : m'[f] = m[f]
         /\ parent = "read_window" =>
              m'.window = Seen(mem.hwm) /\ \A f \in Measures \ {"window"} : m'[f] = m[f]
         /\ parent = "read_final" =>
              /\ m'.final = Seen(mem.rss)
              /\ \A f \in {"verified", "through", "reset", "baseline", "window", "report"} : m'[f] = m[f]
              /\ m'.timeline = (IF args.memory_profile THEN Append(m.timeline, "final") ELSE m.timeline)
              /\ m'.attempted = (IF args.memory_profile THEN m.attempted + 1 ELSE m.attempted)
              /\ m'.sampled = (IF args.memory_profile THEN Larger(m.sampled, Seen(mem.rss)) ELSE m.sampled)
         /\ parent \notin {"evict", "read_peak", "reset_peak", "read_baseline", "read_window", "read_final"} =>
              \A f \in Measures \ {"report"} : m'[f] = m[f]
         /\ parent \notin {"evict", "read_peak", "reset_peak", "read_baseline", "read_report",
                           "read_window", "read_final"} => m' = m
         /\ IF parent = "read_baseline"
            THEN sampler' = IF args.memory_profile THEN "started" ELSE "none"
            ELSE /\ sampler' = "none" <=> sampler = "none"
                 /\ sampler = "joined" => sampler' = "joined"
<1> USE DEF settings, Goto
<1>0. DOMAIN m = Measures
  BY DEF Types
<1>1. CASE Evict
  BY <1>0, <1>1 DEF Evict, Measures, Failed, thread
<1>2. CASE ReadPeak \/ ResetPeak
  BY <1>0, <1>2 DEF ReadPeak, ResetPeak, Measures, thread
<1>3. CASE ReadBaseline
  BY <1>0, <1>3 DEF ReadBaseline, Measures
<1>4. CASE ReadWindow
  BY <1>0, <1>4 DEF ReadWindow, Measures, thread
<1>5. CASE ReadFinal
  <2>1. CASE args.memory_profile
    <3>1. /\ m' = [Attempt("final") EXCEPT !.final = Seen(mem.rss)]
          /\ parent = "read_final" /\ UNCHANGED thread
      BY <1>5, <2>1 DEF ReadFinal
    <3> QED
      BY <2>1, <3>1, AttemptEffect DEF MTyped, Measures, Role, thread
  <2>2. CASE ~args.memory_profile
    <3>1. m' = [m EXCEPT !.final = Seen(mem.rss)] /\ parent = "read_final" /\ UNCHANGED thread
      BY <1>5, <2>2 DEF ReadFinal
    <3> QED
      BY <1>0, <2>2, <3>1 DEF Measures, thread
  <2> QED
    BY <2>1, <2>2
<1>6. CASE ReadReport
  BY <1>0, <1>6 DEF ReadReport, Measures, thread
<1>7. CASE Fork \/ AwaitReady \/ SendGo \/ AwaitDone \/ ReadPayload \/ SendExit \/ Wait \/ Kill
  BY <1>7 DEF Fork, AwaitReady, SendGo, AwaitDone, ReadPayload, SendExit, Wait, Kill, thread
<1>8. CASE StartSampling \/ StopSampler
  BY <1>8 DEF StartSampling, StopSampler, Store, Notify, Join
<1> QED
  BY <1>1, <1>2, <1>3, <1>4, <1>5, <1>6, <1>7, <1>8 DEF ParentStep

(* What the sampler's steps do, and that the worker's leave both alone.    *)
LEMMA OtherMeasures ==
  ASSUME Types, SamplerStep \/ SpuriousWakeup \/ WorkerStep
  PROVE  /\ UNCHANGED <<settings, parent>>
         /\ \/ m' = m /\ sampler' = sampler
            \/ m' = m /\ {sampler, sampler'} \cap {"none", "joined"} = {}
            \/ /\ m' = Attempt("periodic") /\ sampler = "loop" /\ sampler' = "sampled"
               /\ UNCHANGED <<process, pipes>>
         /\ WorkerStep => UNCHANGED <<m, sampler>>
         /\ ~WorkerStep => UNCHANGED <<process, pipes>>
<1> USE DEF settings, pipes, process, thread
<1>1. CASE WorkerStep
  BY <1>1 DEF WorkerStep, ClosingStep, Exec, Load, Warmup, SendReady, AwaitGo, Batch, Report,
     AwaitExit, Exit, Die, Write
<1>2. CASE ~WorkerStep
  BY <1>2 DEF SamplerStep, SpuriousWakeup, AwaitStart, Sample, AwaitStop, SamplerGoes
<1> QED
  BY <1>1, <1>2

(* Only a strict run that was verified goes on. *)
LEMMA VerifiedStep ==
  ASSUME Types, Next, parent \notin Failed, parent' \notin Failed, Verified
  PROVE  Verified'
<1>1. CASE ParentStep
  <2>1. args' = args /\ Synthetic(args)' = Synthetic(args)
    BY <1>1, ParentMoves DEF settings, Synthetic
  <2>2. parent # "evict" => m'.verified = m.verified
    BY <1>1, ParentMeasures DEF Measures
  <2>3. parent = "evict" => (args.strict_cold => m'.verified)
    BY <1>1, ParentMeasures
  <2> QED
    BY <2>1, <2>2, <2>3 DEF Verified
<1>2. CASE SamplerStep \/ SpuriousWakeup \/ WorkerStep
  <2>1. UNCHANGED <<args, parent>> /\ m'.verified = m.verified
    BY <1>2, OtherMeasures, AttemptEffect DEF settings, Measures, Role
  <2> QED
    BY <2>1 DEF Verified, Synthetic
<1> QED
  BY <1>1, <1>2 DEF Next

(* The timeline grows at its end. *)
LEMMA TimelineGrows ==
  ASSUME NEW t \in Seq(Role), NEW r \in Role
  PROVE  /\ Append(t, r) \in Seq(Role) /\ Len(Append(t, r)) = Len(t) + 1 /\ Len(t) \in Nat
         /\ DOMAIN t = 1 .. Len(t) /\ DOMAIN Append(t, r) = 1 .. Len(t) + 1
         /\ \A i \in 1 .. Len(t) + 1 : Append(t, r)[i] = IF i = Len(t) + 1 THEN r ELSE t[i]
OBVIOUS

(* Both threads' attempts. *)
LEMMA TimelineStep ==
  ASSUME Types, Types', Next, parent \notin Failed, parent' \notin Failed, Timeline
  PROVE  Timeline'
<1> USE DEF Starting, Ready, Running, Closing, Leaving, BeforeReset
<1>0. m.timeline \in Seq(Role) /\ m.attempted \in Nat
  BY DEF Types
<1>1. CASE ParentStep
  <2>1. args' = args
    BY <1>1, ParentMoves DEF settings
  <2>2. CASE parent = "read_baseline"
    <3>1. parent' = "send_go" /\ m'.attempted = 0
      BY <1>1, <2>2, ParentMoves, ParentMeasures DEF Timeline, Measures
    <3>2. CASE args.memory_profile
      <4>1. m'.timeline = <<"baseline">> /\ sampler' = "started"
        BY <1>1, <2>2, <3>2, ParentMeasures
      <4>2. Len(<<"baseline">>) = 1 /\ DOMAIN <<"baseline">> = {1} /\ <<"baseline">>[1] = "baseline"
        OBVIOUS
      <4> QED
        BY <2>1, <3>1, <3>2, <4>1, <4>2 DEF Timeline
    <3>3. CASE ~args.memory_profile
      <4>1. m'.timeline = <<>> /\ sampler' = "none"
        BY <1>1, <2>2, <3>3, ParentMeasures
      <4> QED
        BY <2>1, <3>1, <3>3, <4>1 DEF Timeline
    <3> QED
      BY <3>2, <3>3
  <2>3. CASE parent = "read_final"
    <3>1. parent' = "send_exit" /\ sampler \in {"none", "joined"} /\ sampler' = sampler
      BY <1>1, <2>3, ParentMoves, ParentMeasures DEF Timeline
    <3>2. CASE args.memory_profile
      <4>1. m'.timeline = Append(m.timeline, "final") /\ m'.attempted = m.attempted + 1
        BY <1>1, <2>3, <3>2, ParentMeasures
      <4>2. /\ sampler # "none" /\ Len(m.timeline) = m.attempted + 1
            /\ \A i \in DOMAIN m.timeline : m.timeline[i] = IF i = 1 THEN "baseline" ELSE "periodic"
        BY <2>3, <3>2 DEF Timeline
      <4>3. "final" \in Role
        BY DEF Role
      <4> QED
        BY <1>0, <2>1, <3>1, <3>2, <4>1, <4>2, <4>3, TimelineGrows DEF Timeline
    <3>3. CASE ~args.memory_profile
      <4>1. m'.timeline = m.timeline /\ m'.attempted = m.attempted
        BY <1>1, <2>3, <3>3, ParentMeasures
      <4> QED
        BY <2>1, <2>3, <3>1, <3>3, <4>1 DEF Timeline
    <3> QED
      BY <3>2, <3>3
  <2>4. CASE parent \notin {"read_baseline", "read_final"}
    <3>1. m'.timeline = m.timeline /\ m'.attempted = m.attempted /\ m'.sampled = m.sampled
      BY <1>1, <2>4, ParentMeasures DEF Measures
    <3>2. (sampler' = "none" <=> sampler = "none") /\ (sampler = "joined" => sampler' = "joined")
      BY <1>1, <2>4, ParentMeasures
    <3>3. /\ parent' \in BeforeReset \cup {"read_baseline"} <=> parent \in BeforeReset \cup {"read_baseline"}
          /\ parent' \in {"send_exit"} \cup Leaving <=> parent \in {"send_exit"} \cup Leaving
          /\ parent' \in {"read_window", "read_final", "send_exit"} \cup Leaving =>
               \/ parent \in {"read_window", "read_final", "send_exit"} \cup Leaving
               \/ sampler = "none" \/ sampler' = "joined"
      BY <1>1, <2>4, ParentMoves
    <3> HIDE DEF Starting, Ready, Running, Closing, Leaving, BeforeReset
    <3> QED
      BY <2>1, <3>1, <3>2, <3>3 DEF Timeline
  <2> QED
    BY <2>2, <2>3, <2>4
<1>2. CASE SamplerStep \/ SpuriousWakeup \/ WorkerStep
  <2>1. UNCHANGED <<args, parent>>
    BY <1>2, OtherMeasures DEF settings
  <2>2. CASE m' = m /\ (sampler' = sampler \/ {sampler, sampler'} \cap {"none", "joined"} = {})
    <3>1. (sampler' = "none" <=> sampler = "none") /\ (sampler = "joined" <=> sampler' = "joined")
      BY <2>2
    <3> QED
      BY <2>1, <2>2, <3>1 DEF Timeline
  <2>3. CASE m' = Attempt("periodic") /\ sampler = "loop" /\ sampler' = "sampled"
    <3>1. /\ m'.timeline = Append(m.timeline, "periodic") /\ m'.attempted = m.attempted + 1
          /\ "periodic" \in Role
      BY <2>3, AttemptEffect DEF Role
    <3>2. /\ parent \notin BeforeReset \cup {"read_baseline", "send_exit"} \cup Leaving
          /\ args.memory_profile
          /\ Len(m.timeline) = m.attempted + 1
          /\ \A i \in DOMAIN m.timeline : m.timeline[i] = IF i = 1 THEN "baseline" ELSE "periodic"
      BY <2>3 DEF Timeline
    <3>3. parent \notin {"read_window", "read_final"}
      BY <2>3 DEF Timeline
    <3>4. /\ Len(m'.timeline) = m'.attempted + 1
          /\ \A i \in DOMAIN m'.timeline : m'.timeline[i] = IF i = 1 THEN "baseline" ELSE "periodic"
      BY <1>0, <3>1, <3>2, TimelineGrows
    <3> QED
      BY <2>1, <2>3, <3>2, <3>3, <3>4 DEF Timeline
  <2> QED
    BY <1>2, <2>2, <2>3, OtherMeasures
<1> QED
  BY <1>1, <1>2 DEF Next

-----------------------------------------------------------------------------
(* The sizes: what the parent reads while the worker stands still.         *)
LEMMA MemoriesOfParent ==
  ASSUME Types, Types', ParentStep, parent \notin Failed, parent' \notin Failed,
         worker # "failed", Handshake, Handshake', Timeline, Memories
  PROVE  Memories'
<1> USE DEF Starting, Ready, Running, Closing, Leaving, BeforeReset
<1>0. /\ mem.rss \in Nat /\ mem.hwm \in Nat /\ truth.life \in Nat /\ m.through \in Nat
      /\ m.sampled \in Nat /\ m.window \in Nat /\ truth.window \in Nat
  BY DEF Types
<1>1. wargs' = wargs /\ w' = w /\ truth' = truth /\ Warm(wargs)' = Warm(wargs)
  BY DEF ParentStep, Evict, Fork, AwaitReady, ReadPeak, ResetPeak, ReadBaseline, SendGo,
     StartSampling, AwaitDone, ReadReport, ReadPayload, StopSampler, ReadWindow, ReadFinal,
     SendExit, Wait, Kill, Store, Notify, Join, process, Warm
<1>2. CASE parent \in {"evict", "fork"}
  <2>1. worker = "none" /\ m.sampled = 0 /\ w.counts = <<>>
    BY <1>2 DEF Handshake, Memories, Timeline
  <2>2. /\ parent' \in {"fork", "await_ready"} /\ m'.sampled = 0
        /\ worker' \in {"none", "forked"} /\ (worker' # "none" => mem'.rss = mem'.hwm)
    <3>1. m'.sampled = 0 /\ parent' \in {"fork", "await_ready"}
      BY <1>2, <2>1, ParentMoves, ParentMeasures DEF Measures
    <3>2. CASE Evict
      BY <2>1, <3>1, <3>2 DEF Evict, process
    <3>3. CASE Fork
      <4>1. PICK s \in Memory : worker' = "forked" /\ mem' = [rss |-> s, hwm |-> s]
        BY <3>1, <3>3 DEF Fork, Goto
      <4> QED
        BY <3>1, <4>1
    <3> QED
      BY <1>2, <3>2, <3>3 DEF ParentStep, AwaitReady, ReadPeak, ResetPeak, ReadBaseline, SendGo,
         StartSampling, AwaitDone, ReadReport, ReadPayload, StopSampler, ReadWindow, ReadFinal,
         SendExit, Wait, Kill, Store, Notify, Join, Failed
  <2>3. mem'.rss \in Nat /\ mem'.hwm \in Nat
    BY DEF Types
  <2> QED
    BY <1>1, <2>1, <2>2, <2>3 DEF Memories
<1>3. CASE parent = "reset_peak"
  <2>1. PICK ok \in BOOLEAN :
          /\ ok => Alive
          /\ m'   = [m EXCEPT !.reset = ok]
          /\ mem' = [mem EXCEPT !.hwm = IF ok THEN mem.rss ELSE @]
          /\ worker' = worker /\ parent' = "read_baseline"
    BY <1>3 DEF ParentStep, Evict, Fork, AwaitReady, ReadPeak, ResetPeak, ReadBaseline, SendGo,
       StartSampling, AwaitDone, ReadReport, ReadPayload, StopSampler, ReadWindow, ReadFinal,
       SendExit, Wait, Kill, Store, Notify, Join, Failed, Goto
  <2>2. worker = "await_go" /\ m.sampled = 0
    BY <1>3 DEF Handshake, Timeline
  <2>3. /\ m'.reset = ok /\ m'.sampled = 0 /\ m'.through = m.through
        /\ mem'.rss = mem.rss /\ mem'.hwm = IF ok THEN mem.rss ELSE mem.hwm
    BY <1>0, <2>1, <2>2 DEF Types, Measures
  <2>4. mem.rss <= mem.hwm /\ truth.life = Larger(m.through, mem.hwm)
    BY <1>3, <2>2 DEF Memories
  <2>5. m.through = mem.hwm
    BY <1>3 DEF Memories
  <2> QED
    BY <1>0, <1>1, <1>3, <2>1, <2>2, <2>3, <2>4, <2>5 DEF Memories, Larger
<1>4. CASE parent \notin {"evict", "fork", "reset_peak"}
  <2>1. mem' = mem /\ (worker' = worker \/ (parent = "wait" /\ worker' = "reaped"))
    BY <1>4 DEF ParentStep, Evict, Fork, AwaitReady, ReadPeak, ResetPeak, ReadBaseline, SendGo,
       StartSampling, AwaitDone, ReadReport, ReadPayload, StopSampler, ReadWindow, ReadFinal,
       SendExit, Wait, Kill, Store, Notify, Join, process, Failed, Goto
  <2>2. worker \in {"await_go", "await_exit"} => Seen(mem.rss) = mem.rss /\ Seen(mem.hwm) = mem.hwm
    BY <1>0, SeenFacts DEF Alive
  <2>3. CASE parent = "read_peak"
    <3>1. /\ parent' = "reset_peak" /\ worker = "await_go" /\ worker' = worker
          /\ m'.through = mem.hwm /\ m'.sampled = m.sampled
      BY <1>4, <2>1, <2>2, <2>3, ParentMoves, ParentMeasures DEF Handshake, Measures
    <3> QED
      BY <1>0, <1>1, <2>1, <2>3, <3>1 DEF Memories, Larger
  <2>4. CASE parent = "read_baseline"
    <3>1. /\ parent' = "send_go" /\ worker = "await_go" /\ worker' = worker
          /\ m'.baseline = mem.rss
          /\ m'.sampled = m.sampled /\ m'.through = m.through /\ m'.reset = m.reset
      BY <1>4, <2>1, <2>2, <2>4, ParentMoves, ParentMeasures DEF Handshake, Measures
    <3> QED
      BY <1>1, <2>1, <2>4, <3>1 DEF Memories, Larger
  <2>5. CASE parent = "read_window"
    <3>1. /\ parent' = "read_final" /\ worker = "await_exit" /\ worker' = worker /\ m'.window = mem.hwm
          /\ m'.sampled = m.sampled
          /\ m'.through = m.through /\ m'.reset = m.reset /\ m'.baseline = m.baseline
      BY <1>4, <2>1, <2>2, <2>5, ParentMoves, ParentMeasures DEF Handshake, Measures
    <3> QED
      BY <1>1, <2>1, <2>5, <3>1 DEF Memories, Larger
  <2>6. CASE parent = "read_final"
    <3>1. /\ parent' = "send_exit" /\ worker = "await_exit" /\ worker' = worker /\ m'.final = mem.rss
          /\ m'.through = m.through
          /\ m'.reset = m.reset /\ m'.baseline = m.baseline /\ m'.window = m.window
          /\ m'.sampled \in {m.sampled, Larger(m.sampled, mem.rss)}
      BY <1>4, <2>1, <2>2, <2>6, ParentMoves, ParentMeasures DEF Handshake
    <3>2. mem.rss <= mem.hwm /\ m.sampled <= mem.hwm
      BY <2>6, <3>1 DEF Memories
    <3>3. m'.sampled <= mem.hwm
      BY <1>0, <3>1, <3>2 DEF Larger
    <3> QED
      BY <1>1, <2>1, <2>6, <3>1, <3>3 DEF Memories, Larger
  <2>7. CASE parent \notin {"read_peak", "read_baseline", "read_window", "read_final"}
    <3>1. \A f \in Measures \ {"report"} : m'[f] = m[f]
      BY <1>4, <2>7, ParentMeasures
    <3>2. /\ m'.through = m.through /\ m'.reset = m.reset /\ m'.baseline = m.baseline
          /\ m'.window = m.window /\ m'.final = m.final /\ m'.sampled = m.sampled
      BY <3>1 DEF Measures
    <3>3. /\ parent' \notin {"reset_peak", "send_go"}
          /\ parent' \in Starting \cup {"read_peak"} <=> parent \in Starting \cup {"read_peak"}
          /\ parent' \in BeforeReset <=> parent \in BeforeReset
          /\ parent' \in BeforeReset \cup {"read_baseline"} <=> parent \in BeforeReset \cup {"read_baseline"}
          /\ parent' \notin Starting \cup Ready => parent \notin Starting \cup Ready \/ parent = "send_go"
          /\ parent' \in {"read_final", "send_exit"} \cup Leaving <=> parent \in {"read_final", "send_exit"} \cup Leaving
          /\ parent' \in {"send_exit"} \cup Leaving <=> parent \in {"send_exit"} \cup Leaving
      BY <1>4, <2>7, ParentMoves
    <3>4. parent = "send_go" => worker = "await_go"
      BY DEF Handshake
    <3>5. worker' = worker \/ (worker = "exited" /\ worker' = "reaped")
      BY <2>1, ParentMoves
    <3> HIDE DEF Starting, Ready, Running, Closing, Leaving, BeforeReset
    <3>6. parent = "send_go" => worker' = "await_go"
      BY <3>4, <3>5
    <3> QED
      BY <1>1, <2>1, <3>2, <3>3, <3>5, <3>6 DEF Memories, Larger
  <2> QED
    BY <2>3, <2>4, <2>5, <2>6, <2>7
<1> QED
  BY <1>2, <1>3, <1>4

(* The sampler reads no more than the high-water mark. *)
LEMMA MemoriesOfSampler ==
  ASSUME Types, SamplerStep \/ SpuriousWakeup, parent \notin Failed, Handshake, Timeline, Memories
  PROVE  ~WorkerStep => Memories'
<1> SUFFICES ASSUME ~WorkerStep PROVE Memories'
  OBVIOUS
<1>1. UNCHANGED <<parent, worker, wargs, w, mem, truth>>
  BY OtherMeasures DEF process
<1>2. CASE m' = m
  BY <1>1, <1>2 DEF Memories, Larger, Warm, Synthetic
<1>3. CASE m' = Attempt("periodic") /\ sampler = "loop"
  <2>1. /\ m'.sampled = Larger(m.sampled, Seen(mem.rss)) /\ "periodic" \in Role
        /\ \A f \in Measures \ {"timeline", "attempted", "sampled"} : m'[f] = m[f]
    BY <1>3, AttemptEffect DEF Role
  <2>2. /\ m'.through = m.through /\ m'.reset = m.reset /\ m'.baseline = m.baseline
        /\ m'.window = m.window /\ m'.final = m.final
    BY <2>1 DEF Measures
  <2>3. worker # "none"
    BY <1>3 DEF Timeline, Handshake, BeforeReset, Types, Starting, Ready, Running, Closing,
       Leaving, Preparing, Measuring
  <2>4. /\ mem.rss \in Nat
        /\ mem.hwm \in Nat /\ m.sampled \in Nat /\ mem.rss <= mem.hwm /\ m.sampled <= mem.hwm
    BY <2>3 DEF Types, Memories
  <2>5. m'.sampled <= mem.hwm
    BY <2>1, <2>4, SeenFacts DEF Larger
  <2> QED
    BY <1>1, <2>2, <2>5 DEF Memories, Larger, Warm, Synthetic
<1> QED
  BY <1>2, <1>3, OtherMeasures

(* The larger of two may be taken in any order. *)
LEMMA LargerFacts ==
  ASSUME NEW a \in Nat, NEW b \in Nat, NEW c \in Nat
  PROVE  Larger(Larger(a, b), c) = Larger(a, Larger(b, c))
BY DEF Larger

(* The worker's true sizes grow with what /proc will show. *)
LEMMA MemoriesOfWorker ==
  ASSUME Types, Types', WorkerStep, parent \notin Failed, worker' # "failed",
         Handshake, Timeline, Memories
  PROVE  Memories'
<1> USE DEF Starting, Ready, Running, Closing, Leaving, Preparing, Measuring, BeforeReset, At
<1>0. /\ mem.rss \in Nat /\ mem.hwm \in Nat /\ truth.life \in Nat /\ truth.window \in Nat
      /\ m.through \in Nat /\ m.sampled \in Nat /\ m.sampled <= mem.hwm
      /\ parent \in Starting \cup Ready \cup Running \cup Closing \cup Leaving
  BY DEF Types, Memories
<1>1. UNCHANGED <<parent, m>>
  BY OtherMeasures
<1>2. CASE Exec
  <2>1. PICK s \in Memory : mem' = AddressSpace(s) /\ truth' = [truth EXCEPT !.life = s]
    BY <1>2 DEF Exec
  <2>2. mem'.rss = s /\ mem'.hwm = s /\ truth'.life = s /\ s \in Nat
    BY <2>1, SizeFacts DEF AddressSpace, Types
  <2>3. parent = "await_ready" /\ m.sampled = 0 /\ w.counts = <<>>
    BY <1>0, <1>2 DEF Exec, Handshake, Timeline, Memories
  <2>4. /\ worker' \in {"load", "send_ready"} /\ w' = w
        /\ worker' = "send_ready" => ~Warm(wargs)'
    BY <1>2 DEF Exec, Warm, Synthetic
  <2> QED
    BY <1>1, <2>2, <2>3, <2>4 DEF Memories
<1>3. CASE Load \/ Warmup \/ Batch
  <2> DEFINE inWindow == worker = "window" \/ (worker = "load" /\ Cold(wargs))
  <2>1. /\ Work(inWindow) /\ UNCHANGED wargs
        /\ \/ worker = "load" /\ worker' \in {"warmup", "window"}
           \/ worker \in {"warmup", "window"} /\ worker' = worker
    BY <1>3 DEF Load, Warmup, Batch, Cold
  <2>2. PICK peak \in Nat, size \in Nat :
           /\ size <= peak
           /\ mem'.rss = size /\ mem'.hwm = Larger(mem.hwm, peak)
           /\ truth'.life = Larger(truth.life, peak) /\ truth'.start = truth.start
           /\ truth'.window = IF inWindow THEN Larger(truth.window, peak) ELSE truth.window
           /\ truth'.end = size
    BY <2>1, WorkEffect
  <2>3. \/ parent \in Starting /\ ~inWindow
        \/ parent \in Running /\ inWindow
    BY <1>0, <2>1 DEF Handshake, Warm, Cold
  <2>4. mem'.rss <= mem'.hwm /\ m.sampled <= mem'.hwm
    BY <1>0, <2>2 DEF Larger
  <2>5. truth.life = IF parent \in Starting THEN mem.hwm ELSE Larger(m.through, mem.hwm)
    BY <2>1, <2>3 DEF Memories
  <2>6. truth'.life = IF parent \in Starting THEN mem'.hwm ELSE Larger(m.through, mem'.hwm)
    BY <1>0, <2>2, <2>5, LargerFacts
  <2>7. parent \in Running =>
          /\ m.baseline = truth'.start
          /\ m.reset => mem'.hwm = truth'.window
    BY <2>1, <2>2, <2>3 DEF Memories
  <2> QED
    BY <1>1, <2>1, <2>2, <2>3, <2>4, <2>6, <2>7 DEF Memories
<1>4. CASE SendReady
  <2>1. /\ worker \in {"warmup", "send_ready"} /\ worker' = "await_go"
        /\ UNCHANGED <<wargs, w, mem, truth>>
    BY <1>4, WriteEffect DEF SendReady
  <2>2. parent \in Starting
    BY <1>0, <2>1 DEF Handshake
  <2> QED
    BY <1>1, <2>1, <2>2 DEF Memories, Warm, Synthetic
<1>5. CASE AwaitGo
  <2>1. /\ worker = "await_go" /\ worker' \in {"load", "window"} /\ UNCHANGED <<wargs, w, mem>>
        /\ truth'.start = mem.rss /\ truth'.window = mem.rss
        /\ truth'.life = truth.life /\ truth'.end = truth.end
    BY <1>5 DEF AwaitGo, Types
  <2>2. parent \in Running
    BY <1>0, <1>5 DEF AwaitGo, Handshake
  <2> QED
    BY <1>1, <2>1, <2>2 DEF Memories, Warm, Synthetic
<1>6. CASE Report
  <2>1. /\ \/ worker = "window" /\ worker' = "send_report" /\ Len(w.counts) = Expected
           \/ worker = "send_report" /\ worker' = "send_latencies"
           \/ worker = "send_latencies" /\ worker' = "send_counts"
           \/ worker = "send_counts" /\ worker' = "await_exit"
        /\ UNCHANGED <<wargs, w, mem, truth>>
    BY <1>6, WriteEffect DEF Report
  <2>2. parent \in Running
    BY <1>0, <2>1 DEF Handshake
  <2>3. truth.end = mem.rss
    <3>1. w.counts = <<>> /\ ~Warm(wargs) => Len(w.counts) # Expected
      BY DEF Expected
    <3> QED
      BY <2>1, <3>1 DEF Memories
  <2> QED
    BY <1>1, <2>1, <2>2, <2>3 DEF Memories
<1>7. CASE AwaitExit
  <2>1. /\ worker = "await_exit" /\ worker' = "free" /\ UNCHANGED <<wargs, w, mem, truth>>
    BY <1>7 DEF AwaitExit
  <2>2. parent \in Closing \cup Running \cup Leaving
    BY <1>0, <2>1 DEF Handshake
  <2> QED
    BY <1>1, <2>1, <2>2 DEF Memories
<1>8. CASE Exit
  <2>1. PICK s \in Memory : s <= mem.rss /\ mem' = [mem EXCEPT !.rss = s]
    BY <1>8 DEF Exit
  <2>2. mem'.rss = s /\ mem'.hwm = mem.hwm /\ s \in Nat
    BY <2>1, SizeFacts DEF Types
  <2>3. worker = "free" /\ worker' = "exited" /\ UNCHANGED <<wargs, w, truth>>
    BY <1>8 DEF Exit
  <2>4. parent \in Leaving /\ mem.rss <= mem.hwm
    BY <1>0, <2>3 DEF Handshake, Memories
  <2> QED
    BY <1>0, <1>1, <2>1, <2>2, <2>3, <2>4 DEF Memories
<1>9. CASE Die
  BY <1>9 DEF Die
<1> QED
  BY <1>2, <1>3, <1>4, <1>5, <1>6, <1>7, <1>8, <1>9 DEF WorkerStep, ClosingStep

-----------------------------------------------------------------------------
(* A strict run is a cold one, unless it is synthetic. *)
LEMMA InitIInv == Init => IInv
<1> SUFFICES ASSUME Init PROVE IInv
  OBVIOUS
<1> USE DEF Init, Starting
<1>1. Types
  <2>1. <<>> \in Seq(Role) /\ IsSequence(<<>>)
    BY DEF IsSequence
  <2> QED
    BY <2>1 DEF Types, Measures, NoWork, Preparing
<1>2. Handshake /\ Timeline /\ Memories
  <2>1. ~Told("exit") /\ ~Reported("ready") /\ ~Reported("counts")
    BY DEF Told, Reported
  <2> QED
    BY <2>1 DEF Handshake, Timeline, Memories, Preparing, Ready, Running, Closing, Leaving,
       BeforeReset, NoWork
<1>3. Verified
  <2>1. PICK line \in CommandLines : Acceptable(parse_args(line)) /\ args = Settings(line)
    OBVIOUS
  <2>2. CASE parse_args(line).selftest
    <3>1. "strict_cold" \in DOMAIN parse_args(line)
      BY LinesAssumption DEF Arguments
    <3>2. ~args.strict_cold
      BY <2>1, <2>2, <3>1 DEF Settings
    <3> QED
      BY <3>2 DEF Verified
  <2>3. CASE ~parse_args(line).selftest
    <3>1. args.strict_cold => args.cache_state = "cold"
      BY <2>1, <2>3 DEF Settings, Acceptable
    <3> QED
      BY <3>1 DEF Verified, Cold
  <2> QED
    BY <2>2, <2>3
<1> QED
  BY <1>1, <1>2, <1>3 DEF IInv

(* Every step. *)
LEMMA StepIInv == IInv /\ [Next]_vars => IInv'
<1>1. IInv /\ Next => IInv'
  <2> SUFFICES ASSUME IInv, Next PROVE IInv'
    OBVIOUS
  <2>1. Types /\ Types'
    BY StepTypes DEF IInv
  <2>2. CASE parent' \in Failed
    BY <2>1, <2>2 DEF IInv
  <2>3. CASE parent' \notin Failed
    <3>1. parent \notin Failed /\ (worker' # "failed" => worker # "failed")
      BY <2>3, GoingOn DEF IInv
    <3>2. Handshake /\ Verified /\ Timeline /\ (worker # "failed" => Memories)
      BY <3>1 DEF IInv
    <3>3. Handshake' /\ Verified' /\ Timeline'
      BY <2>1, <2>3, <3>1, <3>2, HandshakeStep, VerifiedStep, TimelineStep
    <3>4. ASSUME worker' # "failed" PROVE Memories'
      <4>1. CASE ParentStep
        BY <2>1, <2>3, <3>1, <3>2, <3>3, <3>4, <4>1, MemoriesOfParent
      <4>2. CASE WorkerStep
        BY <2>1, <3>1, <3>2, <3>4, <4>2, MemoriesOfWorker
      <4>3. CASE (SamplerStep \/ SpuriousWakeup) /\ ~WorkerStep
        BY <2>1, <3>1, <3>2, <3>4, <4>3, MemoriesOfSampler
      <4> QED
        BY <4>1, <4>2, <4>3 DEF Next
    <3> QED
      BY <2>1, <3>3, <3>4 DEF IInv
  <2> QED
    BY <2>2, <2>3
<1>2. IInv /\ UNCHANGED vars => IInv'
  BY DEF IInv, vars, Types, Handshake, Verified, Timeline, Memories, Told, Reported, Synthetic,
     Warm, Cold, Larger
<1> QED
  BY <1>1, <1>2

(* IInv holds throughout. *)
LEMMA Inductive == Spec => []IInv
BY InitIInv, StepIInv, PTL DEF Spec

-----------------------------------------------------------------------------
(* Every size a run reports that succeeds is the one of its phase.         *)
THEOREM MeasuresTheWindow == Spec => []MeasurementIsOfWindow
<1>1. IInv => MeasurementIsOfWindow
  <2> SUFFICES ASSUME IInv, Succeeded PROVE MeasurementIsOfWindow
    BY DEF MeasurementIsOfWindow
  <2>1. Types /\ Handshake /\ Verified /\ Timeline /\ parent = "succeeded" /\ worker = "reaped"
    BY DEF IInv, Succeeded, Failed, Handshake
  <2>2. Memories
    BY <2>1 DEF IInv, Failed
  <2>3. /\ truth.life = Larger(m.through, mem.hwm) /\ m.window = mem.hwm
        /\ m.reset => mem.hwm = truth.window
        /\ m.baseline = truth.start /\ m.final = truth.end /\ m.sampled <= mem.hwm
    BY <2>1, <2>2 DEF Memories, Starting, Ready, Leaving
  <2>4. args.strict_cold /\ ~Synthetic(args) => m.verified
    BY <2>1 DEF Verified
  <2> QED
    BY <2>3, <2>4 DEF MeasurementIsOfWindow
<1> QED
  BY <1>1, Inductive, PTL

(* Its timeline holds the baseline, every attempt in order, and the final  *)
(* one, although two threads append to it.                                 *)
THEOREM TimelineIsWhole == Spec => []TimelineIsComplete
<1>1. IInv => TimelineIsComplete
  <2> SUFFICES ASSUME IInv, Succeeded PROVE TimelineIsComplete
    BY DEF TimelineIsComplete
  <2>1. Types /\ Timeline /\ parent = "succeeded"
    BY DEF IInv, Succeeded, Failed
  <2>2. m.timeline \in Seq(Role) /\ m.attempted \in Nat
    BY <2>1 DEF Types
  <2>3. CASE args.memory_profile
    <3>1. /\ Len(m.timeline) = m.attempted + 1 /\ m.attempted > 0
          /\ \A i \in DOMAIN m.timeline :
               m.timeline[i] = IF i = 1 THEN "baseline"
                               ELSE IF i = Len(m.timeline) THEN "final" ELSE "periodic"
      BY <2>1, <2>3 DEF Timeline, BeforeReset, Starting, Leaving
    <3>2. 1 # Len(m.timeline)
      BY <2>2, <3>1
    <3>3. ASSUME NEW i \in DOMAIN m.timeline
          PROVE  m.timeline[i] = CASE i = 1               -> "baseline"
                                   [] i = Len(m.timeline) -> "final"
                                   [] OTHER               -> "periodic"
      BY <3>1, <3>2
    <3> QED
      BY <2>3, <3>1, <3>3 DEF TimelineIsComplete
  <2>4. CASE ~args.memory_profile
    BY <2>1, <2>4 DEF Timeline, BeforeReset, Starting, TimelineIsComplete
  <2> QED
    BY <2>3, <2>4
<1> QED
  BY <1>1, Inductive, PTL

-----------------------------------------------------------------------------
(* What a sequence holds: a command line its options, a pipe its messages. *)
Members(line) == {line[i] : i \in DOMAIN line}

(* Those of two that are joined. *)
LEMMA JoinedMembers ==
  ASSUME NEW u, NEW v, IsSequence(u), IsSequence(v)
  PROVE  IsSequence(u \o v) /\ Members(u \o v) = Members(u) \cup Members(v)
<1> DEFINE S == Members(u) \cup Members(v)
           t == u \o v
<1>1. u \in Seq(S) /\ v \in Seq(S)
  <2>1. u \in Seq(Members(u)) /\ v \in Seq(Members(v))
    BY DEF IsSequence, Members
  <2> HIDE DEF S
  <2>2. Members(u) \subseteq S /\ Members(v) \subseteq S
    BY DEF S
  <2> QED
    BY <2>1, <2>2
<1> HIDE DEF S
<1>2. /\ t \in Seq(S)
      /\ Len(u) \in Nat /\ Len(v) \in Nat /\ DOMAIN u = 1 .. Len(u) /\ DOMAIN v = 1 .. Len(v)
      /\ DOMAIN t = 1 .. Len(u) + Len(v)
  BY <1>1
<1>3. IsSequence(t)
  BY <1>2, Elements
<1>4. \A i \in DOMAIN u : i \in DOMAIN t /\ t[i] = u[i]
  BY <1>1, <1>2, JoinedBefore
<1>5. \A i \in DOMAIN v : Len(u) + i \in DOMAIN t /\ t[Len(u) + i] = v[i]
  BY <1>1, <1>2, JoinedBehind
<1>6. \A i \in DOMAIN t : i \in DOMAIN u \/ \E j \in DOMAIN v : i = Len(u) + j
  <2>1. ASSUME NEW i \in DOMAIN t, i \notin DOMAIN u
        PROVE  i - Len(u) \in DOMAIN v /\ i = Len(u) + (i - Len(u))
    BY <1>2, <2>1
  <2> QED
    BY <2>1
<1> HIDE DEF t
<1>7. ASSUME NEW o PROVE o \in Members(t) <=> o \in Members(u) \cup Members(v)
  BY <1>4, <1>5, <1>6 DEF Members
<1> QED
  BY <1>3, <1>7 DEF t

(* Of a single one, and of none. *)
LEMMA OneMember ==
  ASSUME NEW o
  PROVE  /\ IsSequence(<<o>>) /\ Members(<<o>>) = {o}
         /\ IsSequence(<<>>) /\ Members(<<>>) = {}
<1>1. <<o>> \in Seq({o}) /\ DOMAIN <<o>> = {1} /\ <<o>>[1] = o
  OBVIOUS
<1>2. <<>> \in Seq({}) /\ DOMAIN <<>> = {}
  OBVIOUS
<1> QED
  BY <1>1, <1>2, Elements DEF Members

(* Of one that depends on a condition. *)
LEMMA MemberWhen ==
  ASSUME NEW condition, NEW o
  PROVE  /\ IsSequence(When(condition, o))
         /\ Members(When(condition, o)) = IF condition THEN {o} ELSE {}
BY OneMember DEF When

(* The setting of a line whose options agree on it. *)
LEMMA ParsedSetting ==
  ASSUME NEW line, IsSequence(line), NEW s \in DOMAIN Default, NEW v,
         \A o \in Members(line) : Setting(o[1]) = s => Value(o) = v
  PROVE  Parsed(line)[s] = IF \E o \in Members(line) : Setting(o[1]) = s THEN v ELSE Default[s]
<1> DEFINE W == Writing(line, s)
<1>1. Len(line) \in Nat /\ W \in SUBSET (1 .. Len(line)) /\ DOMAIN line = 1 .. Len(line)
  BY DEF IsSequence, Writing
<1>2. Parsed(line)[s] = IF W = {} THEN Default[s] ELSE Value(line[Max(W)])
  BY DEF Parsed
<1>3. ASSUME W # {} PROVE Max(W) \in W
  BY <1>1, <1>3, MaxOfIndexes
<1>4. W # {} <=> \E o \in Members(line) : Setting(o[1]) = s
  BY DEF Members, Writing
<1>5. \A i \in W : Value(line[i]) = v
  BY DEF Members, Writing
<1> HIDE DEF W
<1> QED
  BY <1>2, <1>3, <1>4, <1>5

Maybe(condition, o) == IF condition THEN {o} ELSE {}

(* The options that the worker of a run with a model is given. *)
ModelOptions(a) ==
  {<<"--worker">>, <<"--model", a.model>>, <<"--inputs", a.inputs>>, <<"--warmup", a.warmup>>,
   <<"--iter", a.iter>>, <<"--threads", a.threads>>, <<"--batch-size", a.batch_size>>,
   <<"--max-batch", a.max_batch>>, <<"--batch-layout", a.batch_layout>>,
   <<"--cache-state", a.cache_state>>}
  \cup Maybe(a.max_seq_len > 0, <<"--max-seq-len", a.max_seq_len>>)
  \cup Maybe(a.pooling = "mean", <<"--mean">>)
  \cup Maybe(a.pooling = "cls", <<"--cls">>)
  \cup Maybe(a.pooling = "last", <<"--last">>)
  \cup Maybe(~a.normalize, <<"--no-normalize">>)
  \cup Maybe(a.streaming, <<"--streaming">>)
  \cup Maybe(a.batch_control, <<"--batch-control">>)
  \cup Maybe(a.partition # "", <<"--partition", a.partition>>)

(* worker_argv joins them one after the other. *)
LEMMA OptionsOfModelRun ==
  ASSUME NEW a \in Arguments, ~Synthetic(a)
  PROVE  IsSequence(worker_argv(a)) /\ Members(worker_argv(a)) = ModelOptions(a)
<1> DEFINE first == << <<"--worker">> >>
           fixed == << <<"--model", a.model>>, <<"--inputs", a.inputs>>, <<"--warmup", a.warmup>>,
                       <<"--iter", a.iter>>, <<"--threads", a.threads>>,
                       <<"--batch-size", a.batch_size>>, <<"--max-batch", a.max_batch>>,
                       <<"--batch-layout", a.batch_layout>>, <<"--cache-state", a.cache_state>> >>
           w1 == When(a.max_seq_len > 0, <<"--max-seq-len", a.max_seq_len>>)
           w2 == When(a.pooling = "mean", <<"--mean">>)
           w3 == When(a.pooling = "cls", <<"--cls">>)
           w4 == When(a.pooling = "last", <<"--last">>)
           w5 == When(~a.normalize, <<"--no-normalize">>)
           w6 == When(a.streaming, <<"--streaming">>)
           w7 == When(a.batch_control, <<"--batch-control">>)
           w8 == When(a.partition # "", <<"--partition", a.partition>>)
           S == {<<"--model", a.model>>, <<"--inputs", a.inputs>>, <<"--warmup", a.warmup>>,
                 <<"--iter", a.iter>>, <<"--threads", a.threads>>,
                 <<"--batch-size", a.batch_size>>, <<"--max-batch", a.max_batch>>,
                 <<"--batch-layout", a.batch_layout>>, <<"--cache-state", a.cache_state>>}
<1>1. a.selftest_alloc_mb \in Int /\ ~(a.selftest_alloc_mb > 0) /\ a.selftest_alloc_mb <= 0
  BY DEF Arguments, Synthetic
<1>2. worker_argv(a) = (first \o ((((((((fixed \o w1) \o w2) \o w3) \o w4) \o w5) \o w6) \o w7))) \o w8
  BY <1>1 DEF worker_argv, ExecutionArgv
<1>3. IsSequence(first) /\ Members(first) = {<<"--worker">>}
  BY OneMember
<1>4. IsSequence(fixed) /\ Members(fixed) = S
  <2>1. DOMAIN fixed = 1 .. 9 /\ fixed \in Seq(S)
    OBVIOUS
  <2>2. 1 .. 9 = {1, 2, 3, 4, 5, 6, 7, 8, 9}
    OBVIOUS
  <2>3. Members(fixed) = {fixed[1], fixed[2], fixed[3], fixed[4], fixed[5], fixed[6], fixed[7], fixed[8], fixed[9]}
    <3> HIDE DEF fixed
    <3> QED
      BY <2>1, <2>2 DEF Members
  <2>4. Members(fixed) = S
    BY <2>3
  <2>5. IsSequence(fixed)
    <3> HIDE DEF fixed, S
    <3> QED
      BY <2>1, Elements
  <2> QED
    BY <2>4, <2>5
<1>5. /\ IsSequence(w1) /\ Members(w1) = Maybe(a.max_seq_len > 0, <<"--max-seq-len", a.max_seq_len>>)
      /\ IsSequence(w2) /\ Members(w2) = Maybe(a.pooling = "mean", <<"--mean">>)
      /\ IsSequence(w3) /\ Members(w3) = Maybe(a.pooling = "cls", <<"--cls">>)
      /\ IsSequence(w4) /\ Members(w4) = Maybe(a.pooling = "last", <<"--last">>)
      /\ IsSequence(w5) /\ Members(w5) = Maybe(~a.normalize, <<"--no-normalize">>)
      /\ IsSequence(w6) /\ Members(w6) = Maybe(a.streaming, <<"--streaming">>)
      /\ IsSequence(w7) /\ Members(w7) = Maybe(a.batch_control, <<"--batch-control">>)
      /\ IsSequence(w8) /\ Members(w8) = Maybe(a.partition # "", <<"--partition", a.partition>>)
  BY MemberWhen DEF Maybe
<1> HIDE DEF first, fixed, w1, w2, w3, w4, w5, w6, w7, w8
<1> DEFINE t1 == fixed \o w1
           t2 == t1 \o w2
           t3 == t2 \o w3
           t4 == t3 \o w4
           t5 == t4 \o w5
           t6 == t5 \o w6
           t7 == t6 \o w7
           t8 == first \o t7
           t9 == t8 \o w8
<1>6. worker_argv(a) = t9
  BY <1>2
<1>7. /\ IsSequence(t9)
      /\ Members(t9) = {<<"--worker">>} \cup
           (S \cup Members(w1) \cup Members(w2) \cup Members(w3) \cup Members(w4)
             \cup Members(w5) \cup Members(w6) \cup Members(w7)) \cup Members(w8)
  <2>1. IsSequence(t1) /\ Members(t1) = Members(fixed) \cup Members(w1)
    <3>1. IsSequence(fixed) /\ IsSequence(w1)
      BY <1>4, <1>5
    <3> QED
      BY <3>1, JoinedMembers
  <2>2. IsSequence(t2) /\ Members(t2) = Members(t1) \cup Members(w2)
    <3>1. IsSequence(t1) /\ IsSequence(w2)
      BY <2>1, <1>5
    <3> QED
      BY <3>1, JoinedMembers
  <2>3. IsSequence(t3) /\ Members(t3) = Members(t2) \cup Members(w3)
    <3>1. IsSequence(t2) /\ IsSequence(w3)
      BY <2>2, <1>5
    <3> QED
      BY <3>1, JoinedMembers
  <2>4. IsSequence(t4) /\ Members(t4) = Members(t3) \cup Members(w4)
    <3>1. IsSequence(t3) /\ IsSequence(w4)
      BY <2>3, <1>5
    <3> QED
      BY <3>1, JoinedMembers
  <2>5. IsSequence(t5) /\ Members(t5) = Members(t4) \cup Members(w5)
    <3>1. IsSequence(t4) /\ IsSequence(w5)
      BY <2>4, <1>5
    <3> QED
      BY <3>1, JoinedMembers
  <2>6. IsSequence(t6) /\ Members(t6) = Members(t5) \cup Members(w6)
    <3>1. IsSequence(t5) /\ IsSequence(w6)
      BY <2>5, <1>5
    <3> QED
      BY <3>1, JoinedMembers
  <2>7. IsSequence(t7) /\ Members(t7) = Members(t6) \cup Members(w7)
    <3>1. IsSequence(t6) /\ IsSequence(w7)
      BY <2>6, <1>5
    <3> QED
      BY <3>1, JoinedMembers
  <2>8. IsSequence(t8) /\ Members(t8) = Members(first) \cup Members(t7)
    <3>1. IsSequence(first) /\ IsSequence(t7)
      BY <1>3, <2>7
    <3> QED
      BY <3>1, JoinedMembers
  <2>9. IsSequence(t9) /\ Members(t9) = Members(t8) \cup Members(w8)
    <3>1. IsSequence(t8) /\ IsSequence(w8)
      BY <2>8, <1>5
    <3> QED
      BY <3>1, JoinedMembers
  <2> HIDE DEF S, t1, t2, t3, t4, t5, t6, t7, t8, t9
  <2> QED
    BY <1>3, <1>4, <2>1, <2>2, <2>3, <2>4, <2>5, <2>6, <2>7, <2>8, <2>9
<1> DEFINE M == {<<"--worker">>, <<"--model", a.model>>, <<"--inputs", a.inputs>>,
                 <<"--warmup", a.warmup>>, <<"--iter", a.iter>>, <<"--threads", a.threads>>,
                 <<"--batch-size", a.batch_size>>, <<"--max-batch", a.max_batch>>,
                 <<"--batch-layout", a.batch_layout>>, <<"--cache-state", a.cache_state>>}
<1>8. {<<"--worker">>} \cup S = M
  OBVIOUS
<1>9. ModelOptions(a) =
        M \cup Members(w1) \cup Members(w2) \cup Members(w3) \cup Members(w4)
          \cup Members(w5) \cup Members(w6) \cup Members(w7) \cup Members(w8)
  BY <1>5 DEF ModelOptions
<1> HIDE DEF S, M, t9
<1> QED
  BY <1>6, <1>7, <1>8, <1>9

(* A synthetic worker is given the size only. *)
LEMMA OptionsOfSynthetic ==
  ASSUME NEW a, a.selftest_alloc_mb \in Int, Synthetic(a)
  PROVE  /\ IsSequence(worker_argv(a))
         /\ Members(worker_argv(a)) = {<<"--worker">>, <<"--selftest-alloc-mb", a.selftest_alloc_mb>>}
<1> DEFINE u == << <<"--worker">> >>
           v == << <<"--selftest-alloc-mb", a.selftest_alloc_mb>> >>
           last == When(FALSE, <<"--partition", a.partition>>)
<1>1. a.selftest_alloc_mb \in Int /\ a.selftest_alloc_mb > 0 /\ ~(a.selftest_alloc_mb <= 0)
  BY DEF Synthetic
<1>2. worker_argv(a) = (u \o v) \o last
  BY <1>1 DEF worker_argv, ExecutionArgv, When
<1>3. /\ IsSequence(u) /\ Members(u) = {<<"--worker">>}
      /\ IsSequence(v) /\ Members(v) = {<<"--selftest-alloc-mb", a.selftest_alloc_mb>>}
      /\ IsSequence(last) /\ Members(last) = {}
  BY OneMember, MemberWhen
<1> HIDE DEF u, v, last
<1> QED
  BY <1>2, <1>3, JoinedMembers

(* What each of these options writes: the setting it was made of. *)
Agrees(a, o) ==
  /\ Setting(o[1]) \in WorkerSettings \cup {"is_worker"}
  /\ Setting(o[1]) \in WorkerSettings => Value(o) = a[Setting(o[1])]

Gives(a, s) == \E o \in ModelOptions(a) : Setting(o[1]) = s

(* Each says what the setting is, and one left out is the default. *)
LEMMA OptionsAgree ==
  ASSUME NEW a \in Arguments
  PROVE  /\ \A o \in ModelOptions(a) : Agrees(a, o)
         /\ \A s \in {"model", "inputs", "warmup", "iter", "threads", "batch_size", "max_batch",
                       "batch_layout", "cache_state"} : Gives(a, s)
         /\ Gives(a, "max_seq_len") <=> a.max_seq_len > 0
         /\ Gives(a, "pooling") <=> a.pooling # "model-default"
         /\ Gives(a, "normalize") <=> ~a.normalize
         /\ Gives(a, "streaming") <=> a.streaming
         /\ Gives(a, "batch_control") <=> a.batch_control
         /\ Gives(a, "partition") <=> a.partition # ""
         /\ ~Gives(a, "selftest") /\ ~Gives(a, "selftest_alloc_mb")
<1>1. /\ a.normalize \in BOOLEAN /\ a.streaming \in BOOLEAN /\ a.batch_control \in BOOLEAN
      /\ a.pooling \in {"model-default", "mean", "cls", "last"}
  BY DEF Arguments
<1>2. Agrees(a, <<"--model", a.model>>) /\ Setting(<<"--model", a.model>>[1]) = "model"
  BY DEF Setting, Value, Agrees, WorkerSettings
<1>3. Agrees(a, <<"--inputs", a.inputs>>) /\ Setting(<<"--inputs", a.inputs>>[1]) = "inputs"
  BY DEF Setting, Value, Agrees, WorkerSettings
<1>4. Agrees(a, <<"--warmup", a.warmup>>) /\ Setting(<<"--warmup", a.warmup>>[1]) = "warmup"
  BY DEF Setting, Value, Agrees, WorkerSettings
<1>5. Agrees(a, <<"--iter", a.iter>>) /\ Setting(<<"--iter", a.iter>>[1]) = "iter"
  BY DEF Setting, Value, Agrees, WorkerSettings
<1>6. Agrees(a, <<"--threads", a.threads>>) /\ Setting(<<"--threads", a.threads>>[1]) = "threads"
  BY DEF Setting, Value, Agrees, WorkerSettings
<1>7. /\ Agrees(a, <<"--batch-size", a.batch_size>>)
      /\ Setting(<<"--batch-size", a.batch_size>>[1]) = "batch_size"
  BY DEF Setting, Value, Agrees, WorkerSettings
<1>8. /\ Agrees(a, <<"--max-batch", a.max_batch>>)
      /\ Setting(<<"--max-batch", a.max_batch>>[1]) = "max_batch"
  BY DEF Setting, Value, Agrees, WorkerSettings
<1>9. /\ Agrees(a, <<"--batch-layout", a.batch_layout>>)
      /\ Setting(<<"--batch-layout", a.batch_layout>>[1]) = "batch_layout"
  BY DEF Setting, Value, Agrees, WorkerSettings
<1>10. /\ Agrees(a, <<"--cache-state", a.cache_state>>)
       /\ Setting(<<"--cache-state", a.cache_state>>[1]) = "cache_state"
  BY DEF Setting, Value, Agrees, WorkerSettings
<1>11. /\ Agrees(a, <<"--max-seq-len", a.max_seq_len>>)
       /\ Setting(<<"--max-seq-len", a.max_seq_len>>[1]) = "max_seq_len"
  BY DEF Setting, Value, Agrees, WorkerSettings
<1>12. /\ Agrees(a, <<"--partition", a.partition>>)
       /\ Setting(<<"--partition", a.partition>>[1]) = "partition"
  BY DEF Setting, Value, Agrees, WorkerSettings
<1>13. Agrees(a, <<"--worker">>) /\ Setting(<<"--worker">>[1]) = "is_worker"
  BY DEF Setting, Agrees, WorkerSettings
<1>14. Setting(<<"--mean">>[1]) = "pooling" /\ (a.pooling = "mean" => Agrees(a, <<"--mean">>))
  <2>1. /\ Setting(<<"--mean">>[1]) = "pooling"
        /\ Value(<<"--mean">>) = Constant("--mean") /\ "pooling" \in WorkerSettings
    BY DEF Setting, Value, WorkerSettings
  <2>2. Constant("--mean") = "mean"
    BY Zenon DEF Constant
  <2>3. a.pooling = "mean" => a["pooling"] = "mean"
    BY <1>1, Zenon
  <2> QED
    BY <2>1, <2>2, <2>3, Zenon DEF Agrees
<1>15. Setting(<<"--cls">>[1]) = "pooling" /\ (a.pooling = "cls" => Agrees(a, <<"--cls">>))
  <2>1. /\ Setting(<<"--cls">>[1]) = "pooling"
        /\ Value(<<"--cls">>) = Constant("--cls") /\ "pooling" \in WorkerSettings
    BY DEF Setting, Value, WorkerSettings
  <2>2. Constant("--cls") = "cls"
    BY Zenon DEF Constant
  <2>3. a.pooling = "cls" => a["pooling"] = "cls"
    BY <1>1, Zenon
  <2> QED
    BY <2>1, <2>2, <2>3, Zenon DEF Agrees
<1>16. Setting(<<"--last">>[1]) = "pooling" /\ (a.pooling = "last" => Agrees(a, <<"--last">>))
  <2>1. /\ Setting(<<"--last">>[1]) = "pooling"
        /\ Value(<<"--last">>) = Constant("--last") /\ "pooling" \in WorkerSettings
    BY DEF Setting, Value, WorkerSettings
  <2>2. Constant("--last") = "last"
    BY Zenon DEF Constant
  <2>3. a.pooling = "last" => a["pooling"] = "last"
    BY <1>1, Zenon
  <2> QED
    BY <2>1, <2>2, <2>3, Zenon DEF Agrees
<1>17. /\ Setting(<<"--no-normalize">>[1]) = "normalize"
       /\ (~a.normalize => Agrees(a, <<"--no-normalize">>))
  <2>1. /\ Setting(<<"--no-normalize">>[1]) = "normalize"
        /\ Value(<<"--no-normalize">>) = Constant("--no-normalize")
        /\ "normalize" \in WorkerSettings
    BY DEF Setting, Value, WorkerSettings
  <2>2. Constant("--no-normalize") = FALSE
    BY Zenon DEF Constant
  <2>3. ~a.normalize => a["normalize"] = FALSE
    BY <1>1, Zenon
  <2> QED
    BY <2>1, <2>2, <2>3, Zenon DEF Agrees
<1>18. Setting(<<"--streaming">>[1]) = "streaming" /\ (a.streaming => Agrees(a, <<"--streaming">>))
  <2>1. /\ Setting(<<"--streaming">>[1]) = "streaming"
        /\ Value(<<"--streaming">>) = Constant("--streaming") /\ "streaming" \in WorkerSettings
    BY DEF Setting, Value, WorkerSettings
  <2>2. Constant("--streaming") = TRUE
    BY Zenon DEF Constant
  <2>3. a.streaming => a["streaming"] = TRUE
    BY <1>1, Zenon
  <2> QED
    BY <2>1, <2>2, <2>3, Zenon DEF Agrees
<1>19. /\ Setting(<<"--batch-control">>[1]) = "batch_control"
       /\ (a.batch_control => Agrees(a, <<"--batch-control">>))
  <2>1. /\ Setting(<<"--batch-control">>[1]) = "batch_control"
        /\ Value(<<"--batch-control">>) = Constant("--batch-control")
        /\ "batch_control" \in WorkerSettings
    BY DEF Setting, Value, WorkerSettings
  <2>2. Constant("--batch-control") = TRUE
    BY Zenon DEF Constant
  <2>3. a.batch_control => a["batch_control"] = TRUE
    BY <1>1, Zenon
  <2> QED
    BY <2>1, <2>2, <2>3, Zenon DEF Agrees
<1> DEFINE M == {<<"--worker">>, <<"--model", a.model>>, <<"--inputs", a.inputs>>,
                 <<"--warmup", a.warmup>>, <<"--iter", a.iter>>, <<"--threads", a.threads>>,
                 <<"--batch-size", a.batch_size>>, <<"--max-batch", a.max_batch>>,
                 <<"--batch-layout", a.batch_layout>>, <<"--cache-state", a.cache_state>>}
<1>20. ASSUME NEW o PROVE o \in ModelOptions(a) <=>
         \/ o \in M
         \/ a.max_seq_len > 0 /\ o = <<"--max-seq-len", a.max_seq_len>>
         \/ a.pooling = "mean" /\ o = <<"--mean">>
         \/ a.pooling = "cls" /\ o = <<"--cls">>
         \/ a.pooling = "last" /\ o = <<"--last">>
         \/ ~a.normalize /\ o = <<"--no-normalize">>
         \/ a.streaming /\ o = <<"--streaming">>
         \/ a.batch_control /\ o = <<"--batch-control">>
         \/ a.partition # "" /\ o = <<"--partition", a.partition>>
  BY Zenon DEF ModelOptions, Maybe
<1>21. \A o \in M : /\ Agrees(a, o)
                     /\ Setting(o[1]) \in {"is_worker", "model", "inputs", "warmup", "iter", "threads",
                          "batch_size", "max_batch", "batch_layout", "cache_state"}
  BY <1>2, <1>3, <1>4, <1>5, <1>6, <1>7, <1>8, <1>9, <1>10, <1>13
<1>22. \A s \in {"model", "inputs", "warmup", "iter", "threads", "batch_size", "max_batch",
               "batch_layout", "cache_state"} : \E o \in M : Setting(o[1]) = s
  BY <1>2, <1>3, <1>4, <1>5, <1>6, <1>7, <1>8, <1>9, <1>10
<1> HIDE DEF M
<1>23. \A o \in ModelOptions(a) : Agrees(a, o)
  BY <1>11, <1>12, <1>14, <1>15, <1>16, <1>17, <1>18, <1>19, <1>20, <1>21, Zenon
<1> DEFINE Named == {"is_worker", "model", "inputs", "warmup", "iter", "threads",
                     "batch_size", "max_batch", "batch_layout", "cache_state"}
<1> DEFINE Optional(s) ==
         \/ a.max_seq_len > 0 /\ s = "max_seq_len"
         \/ a.pooling = "mean" /\ s = "pooling"
         \/ a.pooling = "cls" /\ s = "pooling"
         \/ a.pooling = "last" /\ s = "pooling"
         \/ ~a.normalize /\ s = "normalize"
         \/ a.streaming /\ s = "streaming"
         \/ a.batch_control /\ s = "batch_control"
         \/ a.partition # "" /\ s = "partition"
<1>24. ASSUME NEW s, s \notin Named
       PROVE  Gives(a, s) <=> Optional(s)
  <2>1. \A o \in M : Setting(o[1]) # s
    BY <1>21, <1>24
  <2> HIDE DEF Named
  <2> DEFINE Chosen(o) ==
         \/ a.max_seq_len > 0 /\ o = <<"--max-seq-len", a.max_seq_len>>
         \/ a.pooling = "mean" /\ o = <<"--mean">>
         \/ a.pooling = "cls" /\ o = <<"--cls">>
         \/ a.pooling = "last" /\ o = <<"--last">>
         \/ ~a.normalize /\ o = <<"--no-normalize">>
         \/ a.streaming /\ o = <<"--streaming">>
         \/ a.batch_control /\ o = <<"--batch-control">>
         \/ a.partition # "" /\ o = <<"--partition", a.partition>>
  <2>2. Gives(a, s) <=> \E o : Chosen(o) /\ Setting(o[1]) = s
    <3>1. \A o : o \in ModelOptions(a) <=> o \in M \/ Chosen(o)
      BY <1>20, Zenon
    <3> HIDE DEF Chosen
    <3> QED
      BY <2>1, <3>1, Zenon DEF Gives
  <2>3. ASSUME NEW o, Chosen(o), Setting(o[1]) = s
        PROVE  Optional(s)
    BY <1>11, <1>12, <1>14, <1>15, <1>16, <1>17, <1>18, <1>19, <2>3, Zenon
  <2>4. /\ a.max_seq_len > 0 => Chosen(<<"--max-seq-len", a.max_seq_len>>)
        /\ a.pooling = "mean" => Chosen(<<"--mean">>)
        /\ a.pooling = "cls" => Chosen(<<"--cls">>)
        /\ a.pooling = "last" => Chosen(<<"--last">>)
        /\ ~a.normalize => Chosen(<<"--no-normalize">>)
        /\ a.streaming => Chosen(<<"--streaming">>)
        /\ a.batch_control => Chosen(<<"--batch-control">>)
        /\ a.partition # "" => Chosen(<<"--partition", a.partition>>)
    BY Zenon
  <2> HIDE DEF Chosen
  <2> QED
    BY <1>11, <1>12, <1>14, <1>15, <1>16, <1>17, <1>18, <1>19, <2>2, <2>3, <2>4, Zenon
<1>25. \A s \in {"model", "inputs", "warmup", "iter", "threads", "batch_size", "max_batch",
               "batch_layout", "cache_state"} : Gives(a, s)
  BY <1>20, <1>22, Zenon DEF Gives
<1>26. /\ Gives(a, "max_seq_len") <=> a.max_seq_len > 0
       /\ Gives(a, "normalize") <=> ~a.normalize
       /\ Gives(a, "streaming") <=> a.streaming
       /\ Gives(a, "batch_control") <=> a.batch_control
       /\ Gives(a, "partition") <=> a.partition # ""
       /\ ~Gives(a, "selftest") /\ ~Gives(a, "selftest_alloc_mb")
       /\ Gives(a, "pooling") <=> a.pooling \in {"mean", "cls", "last"}
  <2>1. /\ "max_seq_len" \notin Named
        /\ "normalize" \notin Named
        /\ "streaming" \notin Named
        /\ "batch_control" \notin Named
        /\ "partition" \notin Named
        /\ "selftest" \notin Named
        /\ "selftest_alloc_mb" \notin Named
        /\ "pooling" \notin Named
    BY DEF Named
  <2>2. /\ Optional("max_seq_len") <=> a.max_seq_len > 0
        /\ Optional("normalize") <=> ~a.normalize
        /\ Optional("streaming") <=> a.streaming
        /\ Optional("batch_control") <=> a.batch_control
        /\ Optional("partition") <=> a.partition # ""
        /\ Optional("selftest") <=> FALSE
        /\ Optional("selftest_alloc_mb") <=> FALSE
        /\ Optional("pooling") <=> a.pooling \in {"mean", "cls", "last"}
    OBVIOUS
  <2> HIDE DEF Named, Optional
  <2> QED
    BY <1>24, <2>1, <2>2, Zenon
<1>27. Gives(a, "pooling") <=> a.pooling # "model-default"
  BY <1>1, <1>26
<1> QED
  BY <1>23, <1>25, <1>26, <1>27

(* A command line survives being written for the worker and parsed there.  *)
LEMMA WorkerParses ==
  ASSUME NEW a \in Arguments, Acceptable(a), ~Synthetic(a)
  PROVE  LET p == parse_args(worker_argv(a))
         IN  /\ \A s \in WorkerSettings : Effective(p)[s] = Effective(a)[s]
             /\ p.warmup = a.warmup /\ p.iter = a.iter /\ p.batch_size = a.batch_size
             /\ p.cache_state = a.cache_state /\ p.streaming = a.streaming
             /\ ~Synthetic(p)
<1> DEFINE line == worker_argv(a)
           q == Parsed(line)
           p == parse_args(line)
<1>1. IsSequence(line) /\ Members(line) = ModelOptions(a)
  BY OptionsOfModelRun
<1>2. WorkerSettings \subseteq DOMAIN Default /\ DOMAIN q = DOMAIN Default
      /\ {"selftest", "selftest_alloc_mb"} \subseteq DOMAIN Default
  BY DEF WorkerSettings, Default, Parsed
<1> HIDE DEF line
<1>3. ASSUME NEW s \in WorkerSettings
      PROVE  q[s] = IF Gives(a, s) THEN a[s] ELSE Default[s]
  <2>1. \A o \in Members(line) : Setting(o[1]) = s => Value(o) = a[s]
    BY <1>1, OptionsAgree DEF Agrees
  <2>2. q[s] = IF \E o \in Members(line) : Setting(o[1]) = s THEN a[s] ELSE Default[s]
    BY <1>1, <1>2, <2>1, ParsedSetting
  <2> QED
    BY <1>1, <2>2 DEF Gives
<1>4. q["selftest"] = FALSE /\ q["selftest_alloc_mb"] = 0
  <2>1. ASSUME NEW s \in {"selftest", "selftest_alloc_mb"}
        PROVE  q[s] = Default[s]
    <3>1. ~Gives(a, s)
      BY OptionsAgree
    <3>2. \A o \in Members(line) : Setting(o[1]) = s => Value(o) = 0
      BY <1>1, <3>1 DEF Gives
    <3>3. q[s] = IF \E o \in Members(line) : Setting(o[1]) = s THEN 0 ELSE Default[s]
      BY <1>1, <1>2, <3>2, ParsedSetting
    <3> QED
      BY <1>1, <3>1, <3>3 DEF Gives
  <2>2. q["selftest"] = Default["selftest"] /\ q["selftest_alloc_mb"] = Default["selftest_alloc_mb"]
    BY <2>1
  <2> QED
    BY <2>2, Zenon DEF Default
<1>5. Given(line, "--warmup") /\ Given(line, "--iter")
  <2>1. <<"--warmup", a.warmup>> \in Members(line) /\ <<"--iter", a.iter>> \in Members(line)
    BY <1>1 DEF ModelOptions
  <2> QED
    BY <2>1 DEF Members, Given
<1>6. \A s \in DOMAIN Default : p[s] = q[s]
  <2> HIDE DEF q
  <2> DEFINE c == ColdDefaults(q, line)
  <2>1. DOMAIN c = DOMAIN Default /\ \A s \in DOMAIN Default : c[s] = q[s]
    BY <1>2, <1>5 DEF ColdDefaults
  <2>2. ~c.selftest
    BY <1>2, <1>4, <2>1
  <2> HIDE DEF c
  <2> QED
    BY <2>1, <2>2 DEF parse_args, SelftestDefault, q, c
<1> DEFINE Named == {"model", "inputs", "warmup", "iter", "threads", "batch_size", "max_batch",
                     "batch_layout", "cache_state"}
<1>7. ASSUME NEW s \in Named
      PROVE  p[s] = a[s]
  <2>1. Gives(a, s)
    BY OptionsAgree
  <2>2. s \in WorkerSettings
    BY DEF WorkerSettings
  <2> QED
    BY <1>2, <1>3, <1>6, <2>1, <2>2
<1>8. \A s \in WorkerSettings : p[s] = IF Gives(a, s) THEN a[s] ELSE Default[s]
  BY <1>2, <1>3, <1>6
<1> HIDE DEF p, q
<1>9. /\ Default["normalize"] = TRUE /\ Default["streaming"] = FALSE
      /\ Default["batch_control"] = FALSE /\ Default["partition"] = ""
      /\ Default["pooling"] = "model-default" /\ Default["max_seq_len"] = 0
  BY Zenon DEF Default
<1>10. /\ a["normalize"] \in BOOLEAN /\ a["streaming"] \in BOOLEAN /\ a["batch_control"] \in BOOLEAN
       /\ a["max_seq_len"] \in Int /\ DOMAIN a = DOMAIN Default
  BY DEF Arguments, Default
<1>11. p["normalize"] = a["normalize"]
  <2>1. "normalize" \in WorkerSettings /\ (Gives(a, "normalize") <=> ~a["normalize"])
    BY OptionsAgree DEF WorkerSettings
  <2> QED
    BY <1>8, <1>9, <1>10, <2>1, Zenon
<1>12. p["streaming"] = a["streaming"]
  <2>1. "streaming" \in WorkerSettings /\ (Gives(a, "streaming") <=> a["streaming"])
    BY OptionsAgree DEF WorkerSettings
  <2> QED
    BY <1>8, <1>9, <1>10, <2>1, Zenon
<1>13. p["batch_control"] = a["batch_control"]
  <2>1. "batch_control" \in WorkerSettings /\ (Gives(a, "batch_control") <=> a["batch_control"])
    BY OptionsAgree DEF WorkerSettings
  <2> QED
    BY <1>8, <1>9, <1>10, <2>1, Zenon
<1>14. p["partition"] = a["partition"] /\ p["pooling"] = a["pooling"]
  <2>1. /\ "partition" \in WorkerSettings /\ (Gives(a, "partition") <=> a["partition"] # "")
        /\ "pooling" \in WorkerSettings /\ (Gives(a, "pooling") <=> a["pooling"] # "model-default")
    BY OptionsAgree DEF WorkerSettings
  <2> QED
    BY <1>8, <1>9, <2>1, Zenon
<1>15. p["max_seq_len"] = IF a["max_seq_len"] > 0 THEN a["max_seq_len"] ELSE 0
  <2>1. "max_seq_len" \in WorkerSettings /\ (Gives(a, "max_seq_len") <=> a["max_seq_len"] > 0)
    BY OptionsAgree DEF WorkerSettings
  <2> QED
    BY <1>8, <1>9, <2>1
<1>16. DOMAIN p = DOMAIN Default
  BY <1>2 DEF p, q, parse_args, SelftestDefault, ColdDefaults
<1>17. "max_seq_len" \in DOMAIN Default
  BY DEF Default
<1>18. ASSUME NEW s \in WorkerSettings
       PROVE  Effective(p)[s] = Effective(a)[s]
  <2>1. CASE s = "max_seq_len"
    BY <1>10, <1>15, <1>16, <1>17, <2>1 DEF Effective
  <2>2. CASE s # "max_seq_len"
    <3>1. p[s] = a[s]
      BY <1>7, <1>11, <1>12, <1>13, <1>14, <2>2 DEF WorkerSettings
    <3>2. Effective(p)[s] = p[s] /\ Effective(a)[s] = a[s]
      BY <1>2, <1>10, <1>16, <2>2 DEF Effective
    <3> QED
      BY <3>1, <3>2
  <2> QED
    BY <2>1, <2>2
<1>19. ~Synthetic(p)
  <2>1. p["selftest_alloc_mb"] = 0
    BY <1>2, <1>4, <1>6
  <2> QED
    BY <2>1 DEF Synthetic
<1>20. /\ p.warmup = a.warmup /\ p.iter = a.iter /\ p.batch_size = a.batch_size
       /\ p.cache_state = a.cache_state
  BY <1>7
<1> QED
  BY <1>12, <1>18, <1>19, <1>20, Zenon DEF p, line

(* A synthetic one stays synthetic. *)
LEMMA SyntheticParses ==
  ASSUME NEW a, a.selftest_alloc_mb \in Int, Synthetic(a)
  PROVE  Synthetic(parse_args(worker_argv(a)))
<1> DEFINE line == worker_argv(a)
           q == Parsed(line)
           o == <<"--selftest-alloc-mb", a.selftest_alloc_mb>>
<1>1. IsSequence(line) /\ Members(line) = {<<"--worker">>, o}
  BY OptionsOfSynthetic
<1>2. Setting(o[1]) = "selftest_alloc_mb" /\ Value(o) = a.selftest_alloc_mb
  BY DEF Setting, Value
<1>3. Setting(<<"--worker">>[1]) = "is_worker"
  BY DEF Setting
<1>4. /\ DOMAIN q = DOMAIN Default /\ "selftest_alloc_mb" \in DOMAIN Default
      /\ a.selftest_alloc_mb \in Int /\ a.selftest_alloc_mb > 0
  BY DEF Default, Parsed, Synthetic
<1> HIDE DEF line, o
<1>5. q["selftest_alloc_mb"] = a.selftest_alloc_mb
  <2>1. \A x \in Members(line) : Setting(x[1]) = "selftest_alloc_mb" => Value(x) = a.selftest_alloc_mb
    BY <1>1, <1>2, <1>3
  <2>2. \E x \in Members(line) : Setting(x[1]) = "selftest_alloc_mb"
    BY <1>1, <1>2
  <2> QED
    BY <1>1, <1>4, <2>1, <2>2, ParsedSetting
<1> HIDE DEF q
<1>6. ColdDefaults(q, line)["selftest_alloc_mb"] = a.selftest_alloc_mb
  BY <1>4, <1>5 DEF ColdDefaults
<1>7. parse_args(line)["selftest_alloc_mb"] = a.selftest_alloc_mb
  BY <1>4, <1>6 DEF parse_args, SelftestDefault, q
<1> QED
  BY <1>4, <1>7 DEF Synthetic, line
-----------------------------------------------------------------------------
(* What the worker does is what was asked for. *)
Asked ==
  wargs = parse_args(worker_argv(args)) /\ Acceptable(wargs) /\ ~CannotServe(wargs)

Idle   == w.warmup = 0 /\ w.items = 0 /\ w.counts = <<>>
Warmed == w.warmup = IF Warm(wargs) THEN wargs.warmup * Items ELSE 0

\* The items of the first n timed batches.
Timed(n) ==
  IF Warm(wargs)
  THEN Items * (n \div BatchesPerIteration) + wargs.batch_size * (n % BatchesPerIteration)
  ELSE n * (IF Synthetic(wargs) THEN 1 ELSE Items)

Counted ==
  /\ w.counts \in Seq(Int) /\ Len(w.counts) <= Expected
  /\ w.items = Timed(Len(w.counts))
  /\ Total(w.counts) = w.items

\* Where the worker serves the request, where it has closed its window, and
\* where its counters are final since it has reported them.
Served   == {"send_report", "send_latencies", "send_counts", "await_exit", "free", "exited"}
Serving  == {"load", "warmup", "send_ready", "await_go", "window"} \cup Served
Settled  == {"send_latencies", "send_counts", "await_exit", "free", "exited", "failed", "reaped"}

RequestIsSound ==
  /\ args.selftest_alloc_mb \in Int
  /\ ~Synthetic(args) => args \in Arguments /\ Acceptable(args)

CountersAreTrue ==
  /\ worker \in Serving \/ parent = "succeeded" => Asked
  /\ worker \in {"none", "forked", "load", "send_ready"} => Idle
  /\ worker = "send_ready" => ~Warm(wargs)
  /\ worker = "load" /\ ~Warm(wargs) => Cold(wargs)
  /\ worker \in {"warmup", "await_go"} => w.items = 0 /\ w.counts = <<>>
  /\ worker = "warmup" => Warm(wargs)
  /\ worker = "await_go" => Warmed
  /\ worker \in {"window"} \cup Served \/ parent = "succeeded" => Warmed /\ Counted
  /\ worker \in Served \/ parent = "succeeded" => Len(w.counts) = Expected

ReportIsFinal ==
  /\ \A i \in DOMAIN rep : rep[i].tag = "report" => worker \in Settled /\ rep[i].work = w
  /\ parent \in {"read_latencies", "read_counts"} \cup Closing \cup Leaving =>
       worker \in Settled /\ m.report = w

(* Inductive together with IInv. *)
Bookkeeping == RequestIsSound /\ CountersAreTrue /\ ReportIsFinal
(* What the worker was asked for is what the parent was.                   *)
LEMMA AskedIsRequested ==
  ASSUME RequestIsSound, Asked
  PROVE  /\ Synthetic(wargs) <=> Synthetic(args)
         /\ Cold(wargs) <=> Cold(args)
         /\ Warm(wargs) <=> Warm(args)
         /\ Synthetic(args) \/ Cold(args) \/ Warm(args)
         /\ ~Synthetic(args) =>
              /\ \A s \in WorkerSettings : Effective(wargs)[s] = Effective(args)[s]
              /\ wargs.warmup = args.warmup /\ wargs.iter = args.iter
              /\ wargs.warmup \in Nat /\ wargs.iter \in Nat \ {0}
              /\ wargs.batch_size \in Nat \ {0} /\ Items \in Nat \ {0}
         /\ Cold(wargs) => Items <= wargs.batch_size
<1>0. Items \in Nat /\ wargs = parse_args(worker_argv(args))
  BY LinesAssumption DEF RequestIsSound, Asked
<1>1. CASE Synthetic(args)
  <2>1. Synthetic(wargs)
    BY <1>0, <1>1, SyntheticParses DEF RequestIsSound
  <2> QED
    BY <1>1, <2>1 DEF Cold, Warm
<1>2. CASE ~Synthetic(args)
  <2>1. args \in Arguments /\ Acceptable(args)
    BY <1>2 DEF RequestIsSound
  <2> DEFINE p == parse_args(worker_argv(args))
  <2>2. /\ \A s \in WorkerSettings : Effective(p)[s] = Effective(args)[s]
        /\ p.warmup = args.warmup /\ p.iter = args.iter /\ p.batch_size = args.batch_size
        /\ p.cache_state = args.cache_state /\ ~Synthetic(p)
    BY <1>0, <1>2, <2>1, WorkerParses
  <2>3. p = wargs
    BY <1>0
  <2> HIDE DEF p
  <2>4. /\ args.warmup \in Int /\ args.iter \in Int /\ args.batch_size \in Int
        /\ args.warmup >= 0 /\ args.iter > 0 /\ args.batch_size > 0
        /\ args.cache_state \in {"cold", "warm"}
    BY <2>1 DEF Arguments, Acceptable
  <2>5. ~CannotServe(wargs)
    BY DEF Asked
  <2>6. Items # 0 /\ (Cold(wargs) => ~(Items > wargs.batch_size))
    BY <2>2, <2>3, <2>5 DEF CannotServe
  <2>7. (Cold(wargs) <=> Cold(args)) /\ (Warm(wargs) <=> Warm(args)) /\ (Cold(args) \/ Warm(args))
    BY <1>2, <2>2, <2>3, <2>4 DEF Cold, Warm
  <2> QED
    BY <1>0, <1>2, <2>2, <2>3, <2>4, <2>6, <2>7
<1> QED
  BY <1>1, <1>2

(* How many batches an iteration has: the last one begins inside the       *)
(* inputs and ends at their end.                                           *)
LEMMA BatchesCover ==
  ASSUME NEW n \in Nat \ {0}, NEW b \in Nat \ {0}
  PROVE  LET B == 1 + ((n - 1) \div b)
         IN  /\ B \in Nat \ {0}
             /\ b * (B - 1) < n /\ n <= b * (B - 1) + b
<1>1. /\ (n - 1) \div b \in Nat /\ (n - 1) % b \in 0 .. b - 1
      /\ n - 1 = b * ((n - 1) \div b) + ((n - 1) % b)
  <2>1. n - 1 \in Nat
    OBVIOUS
  <2> QED
    BY <2>1, Quotient
<1> DEFINE c == (n - 1) \div b
           r == (n - 1) % b
<1>2. b * c \in Nat /\ c \in Nat /\ r \in 0 .. b - 1 /\ n - 1 = b * c + r /\ (1 + c) - 1 = c
  BY <1>1
<1> HIDE DEF c, r
<1>3. b * c < n /\ n <= b * c + b
  BY <1>2
<1> QED
  BY <1>2, <1>3 DEF c

(* One more batch. *)
LEMMA TimedNext ==
  ASSUME RequestIsSound, Asked, NEW n \in Nat, n < Expected
  PROVE  LET x == BatchItems(n % BatchesPerIteration)
         IN  /\ Timed(n) \in Int /\ x \in Int
             /\ Timed(n + 1) = Timed(n) + x
<1> DEFINE B == BatchesPerIteration
           b == wargs.batch_size
           q == n \div B
           k == n % B
           x == BatchItems(k)
<1>1. CASE ~Warm(wargs)
  <2>1. B = 1 /\ n = 0 /\ k = 0
    BY <1>1 DEF BatchesPerIteration, Expected
  <2>2. CASE Synthetic(wargs)
    BY <1>1, <2>1, <2>2 DEF Timed, BatchItems
  <2>3. CASE ~Synthetic(wargs)
    <3>1. b \in Nat \ {0} /\ Items \in Nat \ {0} /\ Items <= b
      BY <1>1, <2>3, AskedIsRequested
    <3>2. x = Items
      BY <2>1, <2>3, <3>1 DEF BatchItems, Smaller
    <3> QED
      BY <1>1, <2>1, <2>3, <3>1, <3>2 DEF Timed
  <2> QED
    BY <2>2, <2>3
<1>2. CASE Warm(wargs)
  <2>1. ~Synthetic(wargs) /\ b \in Nat \ {0} /\ Items \in Nat \ {0}
    BY <1>2, AskedIsRequested DEF Warm
  <2>2. B \in Nat \ {0} /\ b * (B - 1) < Items /\ Items <= b * (B - 1) + b
    BY <1>2, <2>1, BatchesCover DEF BatchesPerIteration
  <2>3. /\ q \in Nat /\ k \in 0 .. B - 1 /\ n = B * q + k
    <3> HIDE DEF B
    <3> QED
      BY <2>2, Quotient
  <2>4. x = Smaller(k * b + b, Items) - k * b
    BY <2>1 DEF BatchItems
  <2>5. \A j : Timed(j) = Items * (j \div B) + b * (j % B)
    BY <1>2 DEF Timed
  <2> HIDE DEF B, b, q, k, x
  <2>6. b * k \in Int /\ Items * q \in Int /\ k * b = b * k /\ b * (k + 1) = b * k + b
        /\ Items * (q + 1) = Items * q + Items /\ B * q \in Nat
    BY <2>1, <2>2, <2>3
  <2>7. Timed(n) = Items * q + b * k
    BY <2>5 DEF q, k
  <2>8. CASE k < B - 1
    <3>1. (k + 1) + B * q = n + 1 /\ k + 1 \in 0 .. B - 1
      BY <2>2, <2>3, <2>6, <2>8
    <3>2. ((k + 1) + B * q) \div B = q /\ ((k + 1) + B * q) % B = k + 1
      BY <2>2, <2>3, <3>1, CellOf
    <3>3. Timed(n + 1) = Items * q + b * (k + 1)
      BY <2>5, <3>1, <3>2
    <3>4. b * k + b <= b * (B - 1)
      BY <2>1, <2>2, <2>3, <2>8, Monotone
    <3>5. b * (B - 1) \in Int
      BY <2>1, <2>2
    <3>6. x = b
      BY <2>1, <2>2, <2>4, <2>6, <3>4, <3>5 DEF Smaller
    <3> QED
      BY <2>1, <2>6, <2>7, <3>3, <3>6 DEF x, k, B
  <2>9. CASE ~(k < B - 1)
    <3>1. k = B - 1 /\ B * (q + 1) = B * q + B
      BY <2>2, <2>3, <2>9
    <3>2. 0 + B * (q + 1) = n + 1 /\ 0 \in 0 .. B - 1 /\ q + 1 \in Nat
      BY <2>2, <2>3, <2>6, <3>1
    <3>3. (0 + B * (q + 1)) \div B = q + 1 /\ (0 + B * (q + 1)) % B = 0
      BY <2>2, <3>2, CellOf
    <3>4. Timed(n + 1) = Items * (q + 1) + b * 0
      BY <2>5, <3>2, <3>3
    <3>5. x = Items - b * k
      BY <2>1, <2>2, <2>4, <2>6, <3>1 DEF Smaller
    <3> QED
      BY <2>1, <2>6, <2>7, <3>4, <3>5 DEF x, k, B
  <2> QED
    BY <2>8, <2>9
<1> QED
  BY <1>1, <1>2

(* All of them. *)
LEMMA TimedAll ==
  ASSUME RequestIsSound, Asked
  PROVE  /\ Timed(0) = 0 /\ Expected \in Nat \ {0}
         /\ Timed(Expected) = CASE Synthetic(args) -> 1
                                [] Cold(args)      -> Items
                                [] Warm(args)      -> args.iter * Items
<1>1. CASE ~Warm(wargs)
  <2>1. Expected = 1 /\ Timed(1) = IF Synthetic(wargs) THEN 1 ELSE Items
    <3>1. Items \in Nat
      BY LinesAssumption
    <3> QED
      BY <1>1, <3>1 DEF Expected, Timed
  <2>2. Timed(0) = 0
    <3>1. Items \in Nat
      BY LinesAssumption
    <3> QED
      BY <1>1, <3>1 DEF Timed
  <2>3. ~Warm(args) /\ (Synthetic(wargs) <=> Synthetic(args)) /\ (Synthetic(args) \/ Cold(args))
    BY <1>1, AskedIsRequested
  <2>4. Cold(args) => ~Synthetic(args)
    BY DEF Cold
  <2> QED
    BY <2>1, <2>2, <2>3, <2>4
<1>2. CASE Warm(wargs)
  <2> DEFINE B == BatchesPerIteration
             i == wargs.iter
  <2>1. /\ Warm(args) /\ i = args.iter /\ i \in Nat \ {0} /\ Items \in Nat \ {0}
        /\ wargs.batch_size \in Nat \ {0}
    BY <1>2, AskedIsRequested DEF Warm
  <2>2. B \in Nat \ {0}
    BY <1>2, <2>1, BatchesCover DEF BatchesPerIteration
  <2>3. Expected = i * B
    BY <1>2 DEF Expected
  <2>4. \A j : Timed(j) = Items * (j \div B) + wargs.batch_size * (j % B)
    BY <1>2 DEF Timed
  <2>5. ~Synthetic(args) /\ ~Cold(args)
    BY <2>1 DEF Warm, Cold
  <2> HIDE DEF B, i
  <2>6. i * B = 0 + B * i /\ 0 \in 0 .. B - 1 /\ i * B \in Nat \ {0} /\ B * 0 = 0
    BY <2>1, <2>2
  <2>7. (0 + B * i) \div B = i /\ (0 + B * i) % B = 0
    BY <2>1, <2>2, <2>6, CellOf
  <2>8. (0 + B * 0) \div B = 0 /\ (0 + B * 0) % B = 0
    BY <2>2, <2>6, CellOf
  <2>9. Timed(Expected) = Items * i
    BY <2>1, <2>3, <2>4, <2>6, <2>7
  <2>10. Timed(0) = 0
    BY <2>1, <2>4, <2>6, <2>8
  <2>11. Items * i = args.iter * Items
    BY <2>1
  <2> QED
    BY <2>1, <2>3, <2>5, <2>6, <2>9, <2>10, <2>11
<1> QED
  BY <1>1, <1>2
-----------------------------------------------------------------------------
(* A line that is accepted has sound settings, and so has the selftest.    *)
LEMMA InitBookkeeping == Init => Bookkeeping
<1> SUFFICES ASSUME Init PROVE Bookkeeping
  OBVIOUS
<1>1. RequestIsSound
  <2>1. PICK line \in CommandLines : Acceptable(parse_args(line)) /\ args = Settings(line)
    BY DEF Init
  <2> DEFINE p == parse_args(line)
             c == ColdDefaults(Parsed(line), line)
  <2>2. p \in Arguments /\ Acceptable(p)
    BY <2>1, LinesAssumption
  <2>3. p = SelftestDefault(c)
    BY DEF parse_args
  <2>4. args = IF p.selftest
               THEN [p EXCEPT !.warmup = 0, !.iter = 1, !.cache_state = "warm", !.strict_cold = FALSE]
               ELSE p
    BY <2>1 DEF Settings
  <2> HIDE DEF p, c
  <2>5. CASE ~p.selftest
    BY <2>2, <2>4, <2>5 DEF RequestIsSound, Arguments
  <2>6. CASE p.selftest
    <3>1. args = [p EXCEPT !.warmup = 0, !.iter = 1, !.cache_state = "warm", !.strict_cold = FALSE]
      BY <2>4, <2>6
    <3>3. args.selftest_alloc_mb = p.selftest_alloc_mb /\ p.selftest_alloc_mb \in Int
      BY <2>2, <3>1 DEF Arguments
    <3>4. p.selftest_alloc_mb > 0
      <4>1. CASE c.selftest /\ c.selftest_alloc_mb <= 0
        <5>1. p = [c EXCEPT !.selftest_alloc_mb = 64]
          BY <2>3, <4>1 DEF SelftestDefault
        <5>2. "selftest_alloc_mb" \in DOMAIN p
          BY <2>2 DEF Arguments
        <5>3. p.selftest_alloc_mb = 64
          BY <5>1, <5>2
        <5> QED
          BY <5>3
      <4>2. CASE ~(c.selftest /\ c.selftest_alloc_mb <= 0)
        <5>1. p = c
          BY <2>3, <4>2 DEF SelftestDefault
        <5> QED
          BY <2>6, <3>3, <4>2, <5>1
      <4> QED
        BY <4>1, <4>2
    <3> QED
      BY <3>3, <3>4 DEF RequestIsSound, Synthetic
  <2> QED
    BY <2>5, <2>6
<1>2. CountersAreTrue /\ ReportIsFinal
  BY DEF Init, CountersAreTrue, ReportIsFinal, NoWork, Idle, Serving, Served, Closing, Leaving
<1> QED
  BY <1>1, <1>2 DEF Bookkeeping

(* The settings stay. *)
LEMMA SettingsStay == Next => UNCHANGED args
<1> USE DEF settings
<1>1. ParentStep => UNCHANGED args
  BY DEF ParentStep, Evict, Fork, AwaitReady, ReadPeak, ResetPeak, ReadBaseline, SendGo,
     StartSampling, AwaitDone, ReadReport, ReadPayload, StopSampler, ReadWindow, ReadFinal,
     SendExit, Wait, Kill, Store, Notify, Join
<1>2. SamplerStep \/ SpuriousWakeup => UNCHANGED args
  BY DEF SamplerStep, SpuriousWakeup, AwaitStart, Sample, AwaitStop, SamplerGoes
<1>3. WorkerStep => UNCHANGED args
  BY DEF WorkerStep, ClosingStep, Exec, Load, Warmup, SendReady, AwaitGo, Batch, Report,
     AwaitExit, Exit, Die, Write
<1> QED
  BY <1>1, <1>2, <1>3 DEF Next

(* What is received was in the pipe.                                       *)
LEMMA ReceivedWasSent ==
  ASSUME Types, NEW tag, NEW next, Receive(tag, next) \/ TimeOut
  PROVE  /\ Members(rep') \subseteq Members(rep)
         /\ \/ parent' = next /\ rep # <<>> /\ Head(rep) \in Members(rep) /\ Head(rep).tag = tag
            \/ parent' \in Failed
<1>1. CASE rep # <<>> /\ Head(rep).tag = tag /\ rep' = Tail(rep) /\ Goto(next)
  BY <1>1, Receiving DEF Types, Members, Goto
<1>2. CASE Goto(Failing) /\ UNCHANGED rep
  BY <1>2 DEF Goto, Failing, Failed, Members
<1> QED
  BY <1>1, <1>2 DEF Receive, TimeOut

(* The parent leaves the worker's counters alone, and ends with success    *)
(* only where the worker has exited.                                       *)
LEMMA ParentLeaves ==
  ASSUME Types, ParentStep
  PROVE  /\ UNCHANGED <<wargs, w>> /\ Members(rep') \subseteq Members(rep)
         /\ \/ worker' = worker /\ parent' # "succeeded"
            \/ parent = "fork" /\ parent' = "await_ready" /\ worker' = "forked"
            \/ worker' = "reaped" /\ (parent' = "succeeded" => worker = "exited")
<1> USE DEF process, pipes, Goto
<1>1. CASE Evict \/ Fork \/ ReadPeak \/ ResetPeak \/ ReadBaseline \/ ReadWindow \/ ReadFinal \/ Wait \/ Kill
  BY <1>1 DEF Evict, Fork, ReadPeak, ResetPeak, ReadBaseline, ReadWindow, ReadFinal, Wait, Kill
<1>2. CASE AwaitReady
  BY <1>2, ReceivedWasSent DEF AwaitReady, Failed
<1>3. CASE SendGo \/ SendExit
  BY <1>3, SendEffect DEF SendGo, SendExit, Failed
<1>4. CASE AwaitDone
  BY <1>4, ReceivedWasSent DEF AwaitDone, Failed
<1>5. CASE ReadReport
  BY <1>5, ReceivedWasSent DEF ReadReport, Failing, Failed
<1>6. CASE ReadPayload
  BY <1>6, ReceivedWasSent DEF ReadPayload, Stopping, Failed
<1>7. CASE StartSampling \/ StopSampler
  BY <1>7 DEF StartSampling, StopSampler, Store, Notify, Join
<1> QED
  BY <1>1, <1>2, <1>3, <1>4, <1>5, <1>6, <1>7 DEF ParentStep

(* The report, once it is read, is kept. *)
LEMMA ReportIsKept ==
  ASSUME Types, ParentStep, parent' \notin Failed, parent \notin Failed,
         parent' \in {"read_latencies", "read_counts"} \cup Closing \cup Leaving
  PROVE  \/ /\ parent \in {"read_latencies", "read_counts"} \cup Closing \cup Leaving
            /\ m'.report = m.report
         \/ /\ parent = "read_report"
            /\ rep # <<>> /\ Head(rep) \in Members(rep) /\ Head(rep).tag = "report"
            /\ m'.report = Head(rep).work
<1>1. CASE parent = "read_report"
  <2>1. ReadReport
    BY <1>1 DEF ParentStep, Evict, Fork, AwaitReady, ReadPeak, ResetPeak, ReadBaseline, SendGo,
       StartSampling, AwaitDone, ReadReport, ReadPayload, StopSampler, ReadWindow, ReadFinal,
       SendExit, Wait, Kill, Store, Notify, Join
  <2>2. rep # <<>> /\ Head(rep) \in Members(rep) /\ Head(rep).tag = "report"
    BY <2>1, ReceivedWasSent DEF ReadReport
  <2>3. m'.report = Head(rep).work
    BY <2>1, <2>2 DEF ReadReport, Types, Measures
  <2> QED
    BY <1>1, <2>2, <2>3
<1>2. CASE parent # "read_report"
  <2>1. parent \in {"read_latencies", "read_counts"} \cup Closing \cup Leaving
    <3>1. ReadPayload => parent \in {"read_latencies", "read_counts"}
      BY DEF ReadPayload
    <3>2. SendGo => parent' \in {"store_start", "await_done"}
      BY SendEffect DEF SendGo
    <3>3. AwaitDone => parent' = "read_report"
      BY ReceivedWasSent DEF AwaitDone
    <3>4. AwaitReady => parent' = "read_peak"
      BY ReceivedWasSent DEF AwaitReady
    <3>5. Fork \/ Evict \/ ReadPeak \/ ResetPeak \/ ReadBaseline \/ Kill =>
            parent' \notin {"read_latencies", "read_counts"} \cup Closing \cup Leaving
      BY DEF Fork, Evict, ReadPeak, ResetPeak, ReadBaseline, Kill, Goto, Closing, Leaving
    <3>6. StartSampling => parent' \notin {"read_latencies", "read_counts"} \cup Closing \cup Leaving
      BY DEF StartSampling, Store, Notify, Goto, Closing, Leaving
    <3>7. StopSampler \/ ReadWindow \/ ReadFinal \/ SendExit \/ Wait => parent \in Closing \cup Leaving
      BY DEF StopSampler, Store, Notify, Join, ReadWindow, ReadFinal, SendExit, Wait, Closing,
         Leaving, Failed
    <3>8. ~ReadReport
      BY <1>2 DEF ReadReport
    <3> QED
      BY <3>1, <3>2, <3>3, <3>4, <3>5, <3>6, <3>7, <3>8 DEF ParentStep, Closing, Leaving
  <2>2. m'.report = m.report
    <3>1. CASE parent = "read_window"
      <4>1. \A f \in Measures \ {"window"} : m'[f] = m[f]
        BY <3>1, ParentMeasures
      <4> QED
        BY <4>1 DEF Measures
    <3>2. CASE parent = "read_final"
      BY <3>2, ParentMeasures
    <3>3. CASE parent \notin {"read_window", "read_final"}
      <4>1. parent \notin {"evict", "read_peak", "reset_peak", "read_baseline", "read_report",
                            "read_window", "read_final"}
        BY <1>2, <2>1, <3>3 DEF Closing, Leaving
      <4> QED
        BY <4>1, ParentMeasures
    <3> QED
      BY <3>1, <3>2, <3>3
  <2> QED
    BY <2>1, <2>2
<1> QED
  BY <1>1, <1>2
(* The conditions are about the settings and the counters.                 *)
LEMMA SameCounters ==
  ASSUME UNCHANGED <<args, wargs, w>>
  PROVE  /\ Asked' <=> Asked
         /\ Idle' <=> Idle
         /\ Warmed' <=> Warmed
         /\ Counted' <=> Counted
         /\ (Len(w.counts) = Expected)' <=> (Len(w.counts) = Expected)
         /\ Warm(wargs)' <=> Warm(wargs)
         /\ Cold(wargs)' <=> Cold(wargs)
<1>1. Warm(wargs)' <=> Warm(wargs)
  BY DEF Warm, Synthetic
<1>2. Cold(wargs)' <=> Cold(wargs)
  BY DEF Cold, Synthetic
<1>3. Synthetic(wargs)' <=> Synthetic(wargs)
  BY DEF Synthetic
<1>4. BatchesPerIteration' = BatchesPerIteration
  BY DEF BatchesPerIteration, Warm, Synthetic
<1>5. Expected' = Expected
  BY <1>1, <1>4 DEF Expected
<1>6. Timed(Len(w.counts))' = Timed(Len(w.counts))
  BY <1>1, <1>3, <1>4 DEF Timed
<1>7. Counted' <=> Counted
  BY <1>5, <1>6 DEF Counted
<1>8. Asked' <=> Asked
  BY DEF Asked, CannotServe, Cold, Synthetic
<1>9. (Idle' <=> Idle) /\ (Warmed' <=> Warmed)
  BY <1>1 DEF Idle, Warmed
<1> QED
  BY <1>1, <1>2, <1>5, <1>7, <1>8, <1>9

(* Nothing is counted before the first batch. *)
LEMMA NothingCounted ==
  ASSUME RequestIsSound, Asked, w.items = 0, w.counts = <<>>
  PROVE  Counted
<1>1. Timed(0) = 0 /\ Expected \in Nat \ {0}
  BY TimedAll
<1>2. <<>> \in Seq(Int) /\ Len(<<>>) = 0 /\ Total(<<>>) = 0
  BY SumOfNone
<1> QED
  BY <1>1, <1>2 DEF Counted

(* The parent's steps. *)
LEMMA BookkeepingOfParent ==
  ASSUME IInv, Bookkeeping, ParentStep
  PROVE  Bookkeeping'
<1>0. Types /\ Next /\ (parent \notin Failed => Handshake)
  BY DEF IInv, Next
<1>1. UNCHANGED <<args, wargs, w>> /\ Members(rep') \subseteq Members(rep)
  BY <1>0, ParentLeaves, SettingsStay
<1>2. RequestIsSound'
  BY <1>1 DEF Bookkeeping, RequestIsSound, Synthetic, Acceptable
<1>3. \/ worker' = worker /\ parent' # "succeeded"
      \/ worker = "none" /\ parent' = "await_ready" /\ worker' = "forked"
      \/ worker' = "reaped" /\ (parent' = "succeeded" => worker = "exited")
  <2>1. parent = "fork" => worker = "none"
    BY <1>0 DEF Handshake, Failed
  <2> QED
    BY <1>0, <2>1, ParentLeaves
<1>4. CountersAreTrue'
  <2>1. CountersAreTrue
    BY DEF Bookkeeping
  <2>2. CASE worker' = worker /\ parent' # "succeeded"
    BY <1>1, <2>1, <2>2, SameCounters DEF CountersAreTrue
  <2>3. CASE worker = "none" /\ parent' = "await_ready" /\ worker' = "forked"
    BY <1>1, <2>1, <2>3, SameCounters DEF CountersAreTrue, Serving, Served
  <2>4. CASE worker' = "reaped" /\ (parent' = "succeeded" => worker = "exited")
    BY <1>1, <2>1, <2>4, SameCounters DEF CountersAreTrue, Serving, Served
  <2> QED
    BY <1>3, <2>2, <2>3, <2>4
<1>5. ReportIsFinal'
  <2>0. ReportIsFinal
    BY DEF Bookkeeping
  <2>1. worker \in Settled => worker' \in Settled
    BY <1>3 DEF Settled
  <2>2. \A x \in Members(rep) : x.tag = "report" => worker \in Settled /\ x.work = w
    BY <2>0 DEF ReportIsFinal, Members
  <2>3. \A i \in DOMAIN rep' : rep'[i].tag = "report" => worker' \in Settled /\ rep'[i].work = w'
    <3>1. \A i \in DOMAIN rep' : rep'[i] \in Members(rep)
      BY <1>1 DEF Members
    <3> QED
      BY <1>1, <2>1, <2>2, <3>1
  <2>4. ASSUME parent' \in {"read_latencies", "read_counts"} \cup Closing \cup Leaving
        PROVE  worker' \in Settled /\ m'.report = w'
    <3>1. parent' \notin Failed
      BY <2>4 DEF Closing, Leaving, Failed
    <3>2. parent \notin Failed
      BY <1>0, <3>1, GoingOn
    <3>3. CASE /\ parent \in {"read_latencies", "read_counts"} \cup Closing \cup Leaving
               /\ m'.report = m.report
      BY <1>1, <2>0, <2>1, <3>3 DEF ReportIsFinal
    <3>4. CASE /\ Head(rep) \in Members(rep) /\ Head(rep).tag = "report"
               /\ m'.report = Head(rep).work
      BY <1>1, <2>1, <2>2, <3>4
    <3> QED
      BY <1>0, <2>4, <3>1, <3>2, <3>3, <3>4, ReportIsKept
  <2> QED
    BY <2>3, <2>4 DEF ReportIsFinal
<1> QED
  BY <1>2, <1>4, <1>5 DEF Bookkeeping

(* The sampler's. *)
LEMMA BookkeepingOfSampler ==
  ASSUME Types, Bookkeeping, SamplerStep \/ SpuriousWakeup, ~WorkerStep
  PROVE  Bookkeeping'
<1>1. UNCHANGED <<args, parent, rep, worker, wargs, w>>
  BY OtherMeasures DEF settings, process, pipes
<1>2. m'.report = m.report
  BY OtherMeasures, AttemptEffect DEF Measures, Role
<1>3. RequestIsSound'
  BY <1>1 DEF Bookkeeping, RequestIsSound, Synthetic, Acceptable
<1>4. CountersAreTrue'
  BY <1>1, SameCounters DEF Bookkeeping, CountersAreTrue
<1>5. ReportIsFinal'
  BY <1>1, <1>2 DEF Bookkeeping, ReportIsFinal
<1> QED
  BY <1>3, <1>4, <1>5 DEF Bookkeeping

(* The worker's: it goes on counting until it has reported.                *)
LEMMA BookkeepingOfWorker ==
  ASSUME Types, Bookkeeping, WorkerStep
  PROVE  Bookkeeping'
<1>0. Next /\ UNCHANGED <<args, parent, m>> /\ RequestIsSound /\ CountersAreTrue /\ ReportIsFinal
  BY OtherMeasures DEF Bookkeeping, Next, settings
<1>1. RequestIsSound'
  BY <1>0 DEF RequestIsSound, Synthetic, Acceptable
<1> DEFINE Late == parent \in {"read_latencies", "read_counts"} \cup Closing \cup Leaving
           Clear == \A i \in DOMAIN rep : rep[i].tag # "report"
<1>2. worker \notin Settled => Clear /\ ~Late /\ parent # "succeeded"
  BY <1>0 DEF ReportIsFinal, Leaving
<1>3. ASSUME rep' = rep, worker \notin Settled
      PROVE  ReportIsFinal'
  BY <1>0, <1>2, <1>3 DEF ReportIsFinal
<1>4. ASSUME NEW v, v.tag # "report", rep' = Append(rep, v), worker \notin Settled
      PROVE  ReportIsFinal'
  <2>1. \A i \in DOMAIN rep' : rep'[i] = v \/ \E j \in DOMAIN rep : rep'[i] = rep[j]
    BY <1>4, Sending DEF Types
  <2>2. \A i \in DOMAIN rep' : rep'[i].tag # "report"
    BY <1>2, <1>4, <2>1
  <2> QED
    BY <1>0, <1>2, <1>4, <2>2 DEF ReportIsFinal
<1> HIDE DEF Late, Clear
<1>5. CASE Exec
  <2>1. worker = "forked" /\ UNCHANGED <<rep, w>> /\ wargs' = parse_args(worker_argv(args))
    BY <1>5 DEF Exec, At, pipes
  <2>2. \/ worker' = "failed"
        \/ /\ Acceptable(wargs') /\ ~CannotServe(wargs')
           /\ \/ worker' = "load" /\ Warm(wargs')
              \/ worker' = "send_ready" /\ ~Warm(wargs')
    BY <1>5 DEF Exec
  <2>3. ReportIsFinal'
    BY <1>3, <2>1 DEF Settled
  <2>4. Idle'
    BY <1>0, <2>1 DEF CountersAreTrue, Idle
  <2>5. worker' # "failed" => Asked'
    BY <1>0, <2>1, <2>2 DEF Asked
  <2>6. parent' # "succeeded"
    BY <1>0, <1>2, <2>1 DEF Settled
  <2>7. CountersAreTrue'
    BY <2>2, <2>4, <2>5, <2>6 DEF CountersAreTrue, Serving, Served
  <2> QED
    BY <1>1, <2>3, <2>7 DEF Bookkeeping
<1>6. CASE Load \/ AwaitGo
  <2>1. /\ worker \in {"load", "await_go"} /\ UNCHANGED <<rep, wargs, w>>
        /\ \/ worker' = "window" /\ (worker = "load" => Cold(wargs)) /\ (worker = "await_go" => ~Cold(wargs))
           \/ worker' = "load" /\ worker = "await_go" /\ Cold(wargs)
           \/ worker' = "warmup" /\ worker = "load" /\ ~Cold(wargs)
    BY <1>6 DEF Load, AwaitGo, At, pipes
  <2>2. ReportIsFinal'
    BY <1>3, <2>1 DEF Settled
  <2>3. Asked /\ w.items = 0 /\ w.counts = <<>> /\ (worker = "await_go" => Warmed)
        /\ (worker = "load" => Idle) /\ (worker = "load" /\ ~Warm(wargs) => Cold(wargs))
    BY <1>0, <2>1 DEF CountersAreTrue, Serving, Idle
  <2>4. Counted
    BY <1>0, <2>3, NothingCounted
  <2>5. Cold(wargs) => ~Warm(wargs)
    BY DEF Cold, Warm
  <2>6. (worker' = "window" => Warmed) /\ (worker' = "load" => Idle)
    BY <2>1, <2>3, <2>5 DEF Warmed, Idle
  <2>7. parent' # "succeeded"
    BY <1>0, <1>2, <2>1 DEF Settled
  <2>8. CountersAreTrue'
    BY <1>0, <2>1, <2>3, <2>4, <2>5, <2>6, <2>7, SameCounters DEF CountersAreTrue, Serving, Served
  <2> QED
    BY <1>1, <2>2, <2>8 DEF Bookkeeping
<1>7. CASE Warmup
  <2>1. /\ worker = "warmup" /\ UNCHANGED <<rep, wargs, worker>>
        /\ w'.items = w.items /\ w'.counts = w.counts
    BY <1>7 DEF Warmup, At, pipes, Types
  <2>2. ReportIsFinal'
    BY <1>3, <2>1 DEF Settled
  <2>3. Asked /\ w.items = 0 /\ w.counts = <<>> /\ Warm(wargs)
    BY <1>0, <2>1 DEF CountersAreTrue, Serving
  <2>4. Asked' /\ Warm(wargs)'
    BY <1>0, <2>1, <2>3 DEF Asked, CannotServe, Cold, Warm, Synthetic
  <2>5. parent' # "succeeded"
    BY <1>0, <1>2, <2>1 DEF Settled
  <2>6. CountersAreTrue'
    BY <2>1, <2>3, <2>4, <2>5 DEF CountersAreTrue, Served
  <2> QED
    BY <1>1, <2>2, <2>6 DEF Bookkeeping
<1>8. CASE SendReady
  <2>1. /\ worker \in {"warmup", "send_ready"} /\ worker' = "await_go"
        /\ rep' = Append(rep, [tag |-> "ready"]) /\ UNCHANGED <<wargs, w>>
        /\ worker = "warmup" => w.warmup = wargs.warmup * Items
    BY <1>8 DEF SendReady, Write, At
  <2>2. [tag |-> "ready"].tag # "report"
    OBVIOUS
  <2>3. ReportIsFinal'
    BY <1>4, <2>1, <2>2 DEF Settled
  <2>4. Asked /\ w.items = 0 /\ w.counts = <<>> /\ Warmed
    BY <1>0, <2>1 DEF CountersAreTrue, Serving, Idle, Warmed
  <2>5. parent' # "succeeded"
    BY <1>0, <1>2, <2>1 DEF Settled
  <2>6. CountersAreTrue'
    BY <1>0, <2>1, <2>4, <2>5, SameCounters DEF CountersAreTrue, Served
  <2> QED
    BY <1>1, <2>3, <2>6 DEF Bookkeeping
<1>9. CASE Batch
  <2> DEFINE n == Len(w.counts)
             x == BatchItems(n % BatchesPerIteration)
  <2>1. /\ worker = "window" /\ n < Expected /\ UNCHANGED <<rep, wargs, worker>>
        /\ w' = [w EXCEPT !.items = @ + x, !.counts = Append(@, x)]
    BY <1>9 DEF Batch, At, pipes
  <2>2. w'.items = w.items + x /\ w'.counts = Append(w.counts, x) /\ w'.warmup = w.warmup
    BY <2>1 DEF Types
  <2>3. ReportIsFinal'
    BY <1>3, <2>1 DEF Settled
  <2>4. Asked /\ Warmed /\ Counted
    BY <1>0, <2>1 DEF CountersAreTrue, Serving
  <2>5. n \in Nat /\ w.counts \in Seq(Int) /\ Expected \in Nat
    BY <1>0, <2>4, TimedAll DEF Counted
  <2>6. x \in Int /\ Timed(n) \in Int /\ Timed(n + 1) = Timed(n) + x
    BY <1>0, <2>1, <2>4, <2>5, TimedNext
  <2> HIDE DEF x
  <2>7. /\ w'.counts \in Seq(Int) /\ Len(w'.counts) = n + 1
        /\ Total(w'.counts) = Total(w.counts) + x
    BY <2>2, <2>5, <2>6, SumOfAppend
  <2>8. /\ w.items = Timed(n) /\ Total(w.counts) = w.items
    BY <2>4 DEF Counted
  <2>9. \A k : Timed(k)' = Timed(k)
    BY <2>1 DEF Timed, Warm, Synthetic, BatchesPerIteration
  <2>10. Expected' = Expected
    BY <2>1 DEF Expected, Warm, Synthetic, BatchesPerIteration
  <2>11. Counted'
    BY <2>1, <2>2, <2>5, <2>6, <2>7, <2>8, <2>9, <2>10 DEF Counted
  <2>12. Asked' /\ Warmed'
    BY <1>0, <2>1, <2>2, <2>4 DEF Asked, CannotServe, Cold, Warmed, Warm, Synthetic
  <2>13. parent' # "succeeded"
    BY <1>0, <1>2, <2>1 DEF Settled
  <2>14. CountersAreTrue'
    BY <2>1, <2>11, <2>12, <2>13 DEF CountersAreTrue, Served
  <2> QED
    BY <1>1, <2>3, <2>14 DEF Bookkeeping
<1>10. CASE Report
  <2>1. UNCHANGED <<wargs, w>> /\ worker \in {"window", "send_report", "send_latencies", "send_counts"}
    BY <1>10 DEF Report, Write, At
  <2>2. CountersAreTrue'
    <3>1. /\ worker' \in Served
          /\ worker = "window" => Len(w.counts) = Expected
      BY <1>10 DEF Report, Write, At, Served
    <3>2. Asked /\ Warmed /\ Counted /\ Len(w.counts) = Expected
      BY <1>0, <2>1, <3>1 DEF CountersAreTrue, Serving, Served
    <3> QED
      <4>1. /\ Asked' /\ Warmed' /\ Counted' /\ (Len(w.counts) = Expected)'
        BY <1>0, <2>1, <3>2, SameCounters
      <4>2. worker' \notin {"none", "forked", "load", "send_ready", "warmup", "await_go"}
        BY <3>1 DEF Served
      <4> QED
        BY <4>1, <4>2 DEF CountersAreTrue
  <2>3. ReportIsFinal'
    <3>1. CASE worker = "window"
      <4>1. rep' = Append(rep, [tag |-> "done"]) /\ [tag |-> "done"].tag # "report"
        BY <1>10, <3>1 DEF Report, Write, At
      <4> QED
        BY <1>4, <3>1, <4>1 DEF Settled
    <3>2. CASE worker = "send_report"
      <4> DEFINE v == [tag |-> "report", work |-> w, streaming |-> wargs.streaming]
      <4>1. rep' = Append(rep, v) /\ worker' = "send_latencies"
        BY <1>10, <3>2 DEF Report, Write, At
      <4>2. v.work = w
        OBVIOUS
      <4> HIDE DEF v
      <4>3. \A i \in DOMAIN rep' : rep'[i] = v \/ \E j \in DOMAIN rep : rep'[i] = rep[j]
        BY <4>1, Sending DEF Types
      <4>4. Clear /\ ~Late
        BY <1>2, <3>2 DEF Settled
      <4>5. \A i \in DOMAIN rep' : rep'[i].tag = "report" => rep'[i].work = w
        BY <4>2, <4>3, <4>4 DEF Clear
      <4> QED
        BY <1>0, <2>1, <4>1, <4>4, <4>5 DEF ReportIsFinal, Late, Settled
    <3>3. CASE worker \in {"send_latencies", "send_counts"}
      <4>1. PICK v : rep' = Append(rep, v) /\ v.tag # "report" /\ worker' \in Settled
        <5>1. [tag |-> "latencies"].tag # "report" /\ [tag |-> "counts"].tag # "report"
          OBVIOUS
        <5> QED
          BY <1>10, <3>3, <5>1 DEF Report, Write, At, Settled
      <4>2. \A i \in DOMAIN rep' : rep'[i] = v \/ \E j \in DOMAIN rep : rep'[i] = rep[j]
        BY <4>1, Sending DEF Types
      <4> QED
        BY <1>0, <2>1, <4>1, <4>2 DEF ReportIsFinal
    <3> QED
      BY <2>1, <3>1, <3>2, <3>3
  <2> QED
    BY <1>1, <2>2, <2>3 DEF Bookkeeping
<1>11. CASE AwaitExit \/ Exit \/ Die
  <2>1. UNCHANGED <<rep, wargs, w>>
        /\ \/ worker \in {"await_exit", "free"} /\ worker' \in {"free", "exited"}
           \/ worker' = "failed"
    BY <1>11 DEF AwaitExit, Exit, Die, At, pipes
  <2>2. CountersAreTrue'
    BY <1>0, <2>1, SameCounters DEF CountersAreTrue, Serving, Served
  <2>3. worker' \in Settled
    BY <2>1 DEF Settled
  <2>4. ReportIsFinal'
    BY <1>0, <2>1, <2>3 DEF ReportIsFinal
  <2> QED
    BY <1>1, <2>2, <2>4 DEF Bookkeeping
<1> QED
  BY <1>5, <1>6, <1>7, <1>8, <1>9, <1>10, <1>11 DEF WorkerStep, ClosingStep
(* Bookkeeping holds throughout. *)
LEMMA Booked == Spec => []Bookkeeping
<1>1. IInv /\ Bookkeeping /\ [Next]_vars => Bookkeeping'
  <2> SUFFICES ASSUME IInv, Bookkeeping, [Next]_vars PROVE Bookkeeping'
    OBVIOUS
  <2>1. Types
    BY DEF IInv
  <2>2. CASE ParentStep
    BY <2>2, BookkeepingOfParent
  <2>3. CASE WorkerStep
    BY <2>1, <2>3, BookkeepingOfWorker
  <2>4. CASE (SamplerStep \/ SpuriousWakeup) /\ ~WorkerStep
    BY <2>1, <2>4, BookkeepingOfSampler
  <2>5. CASE UNCHANGED vars
    <3>1. UNCHANGED <<args, parent, m, rep, worker, wargs, w>>
      BY <2>5 DEF vars
    <3>2. RequestIsSound'
      BY <3>1 DEF Bookkeeping, RequestIsSound, Synthetic, Acceptable
    <3>3. CountersAreTrue'
      BY <3>1, SameCounters DEF Bookkeeping, CountersAreTrue
    <3>4. ReportIsFinal'
      BY <3>1 DEF Bookkeeping, ReportIsFinal
    <3> QED
      BY <3>2, <3>3, <3>4 DEF Bookkeeping
  <2> QED
    BY <2>2, <2>3, <2>4, <2>5 DEF Next
<1> QED
  BY <1>1, InitBookkeeping, Inductive, PTL DEF Spec

(* What a successful run reports is what was asked for: the settings reach *)
(* the worker, which is exec'd, by its command line, and its counters are  *)
(* those of the requested iterations, however the batches divide them.     *)
THEOREM ReportsTheRequest == Spec => []ReportIsOfRequest
<1>1. Bookkeeping => ReportIsOfRequest
  <2> SUFFICES ASSUME Bookkeeping, Succeeded PROVE ReportIsOfRequest
    BY DEF ReportIsOfRequest
  <2>1. /\ RequestIsSound /\ Asked /\ Warmed /\ Counted /\ Len(w.counts) = Expected
        /\ m.report = w
    BY DEF Bookkeeping, CountersAreTrue, ReportIsFinal, Succeeded, Leaving
  <2>2. /\ ~Synthetic(args) => \A s \in WorkerSettings : Effective(wargs)[s] = Effective(args)[s]
        /\ Warm(wargs) <=> Warm(args)
        /\ Warm(args) => wargs.warmup = args.warmup
    BY <2>1, AskedIsRequested DEF Warm
  <2>3. m.report.items = CASE Synthetic(args) -> 1
                           [] Cold(args)      -> Items
                           [] Warm(args)      -> args.iter * Items
    <3>1. m.report.items = Timed(Expected)
      BY <2>1 DEF Counted
    <3> QED
      BY <2>1, <3>1, TimedAll
  <2>4. m.report.warmup = IF Warm(args) THEN args.warmup * Items ELSE 0
    BY <2>1, <2>2 DEF Warmed
  <2>5. Total(m.report.counts) = m.report.items
    BY <2>1 DEF Counted
  <2> QED
    BY <2>2, <2>3, <2>4, <2>5 DEF ReportIsOfRequest, Total
<1> QED
  BY <1>1, Booked, PTL
=============================================================================
