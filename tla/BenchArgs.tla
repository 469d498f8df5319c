------------------------------ MODULE BenchArgs ------------------------------
(***************************************************************************)
(* The command line of nanoembed-bench (tools/nanoembed-bench/main.cpp):   *)
(* parse_args, and worker_argv, which writes the command line of the       *)
(* worker.  The worker is exec'd and inherits no memory: a setting missing *)
(* from its command line is silently the default.                          *)
(*                                                                         *)
(* A command line is a sequence of options <<flag, value>> or <<flag>>.    *)
(***************************************************************************)
EXTENDS Integers, Sequences, SequencesExt

Default ==
  [model |-> "", inputs |-> "", warmup |-> 5, iter |-> 50, threads |-> 0,
   max_seq_len |-> 0, batch_size |-> 1, max_batch |-> 64, batch_layout |-> "default",
   batch_control |-> FALSE, pooling |-> "model-default", normalize |-> TRUE,
   streaming |-> FALSE, partition |-> "", memory_profile |-> FALSE,
   memory_profile_interval_ms |-> 25, timeout_sec |-> 1800, cache_state |-> "warm",
   strict_cold |-> FALSE, is_worker |-> FALSE, selftest |-> FALSE, selftest_alloc_mb |-> 0]

Arguments ==
  [model : STRING, inputs : STRING, warmup : Int, iter : Int, threads : Int,
   max_seq_len : Int, batch_size : Int, max_batch : Int, batch_layout : STRING,
   batch_control : BOOLEAN, pooling : {"model-default", "mean", "cls", "last"},
   normalize : BOOLEAN, streaming : BOOLEAN, partition : STRING, memory_profile : BOOLEAN,
   memory_profile_interval_ms : Int, timeout_sec : Int, cache_state : STRING,
   strict_cold : BOOLEAN, is_worker : BOOLEAN, selftest : BOOLEAN, selftest_alloc_mb : Int]

(* What the worker acts on; the rest is the parent's business. *)
WorkerSettings ==
  {"model", "inputs", "warmup", "iter", "threads", "max_seq_len", "batch_size", "max_batch",
   "batch_layout", "batch_control", "pooling", "normalize", "streaming", "partition",
   "cache_state"}

(* The setting an option writes. *)
Setting(flag) ==
  CASE flag = "--model"             -> "model"
    [] flag = "--inputs"            -> "inputs"
    [] flag = "--warmup"            -> "warmup"
    [] flag = "--iter"              -> "iter"
    [] flag = "--threads"           -> "threads"
    [] flag = "--max-seq-len"       -> "max_seq_len"
    [] flag = "--batch-size"        -> "batch_size"
    [] flag = "--max-batch"         -> "max_batch"
    [] flag = "--batch-layout"      -> "batch_layout"
    [] flag = "--batch-control"     -> "batch_control"
    [] flag = "--mean"              -> "pooling"
    [] flag = "--cls"               -> "pooling"
    [] flag = "--last"              -> "pooling"
    [] flag = "--no-normalize"      -> "normalize"
    [] flag = "--streaming"         -> "streaming"
    [] flag = "--partition"         -> "partition"
    [] flag = "--memory-profile"    -> "memory_profile"
    [] flag = "--memory-profile-interval-ms" -> "memory_profile_interval_ms"
    [] flag = "--rollup-interval-ms" -> "memory_profile_interval_ms"
    [] flag = "--timeout-sec"       -> "timeout_sec"
    [] flag = "--cache-state"       -> "cache_state"
    [] flag = "--strict-cold"       -> "strict_cold"
    [] flag = "--worker"            -> "is_worker"
    [] flag = "--selftest"          -> "selftest"
    [] flag = "--selftest-alloc-mb" -> "selftest_alloc_mb"

(* What an option without a value writes. *)
Constant(flag) ==
  CASE flag = "--mean"         -> "mean"
    [] flag = "--cls"          -> "cls"
    [] flag = "--last"         -> "last"
    [] flag = "--no-normalize" -> FALSE
    [] OTHER                   -> TRUE

Value(option) == IF Len(option) = 2 THEN option[2] ELSE Constant(option[1])

Writing(line, s) == {i \in DOMAIN line : Setting(line[i][1]) = s}

(* The last option that writes a setting counts. *)
Parsed(line) ==
  [s \in DOMAIN Default |->
     IF Writing(line, s) = {} THEN Default[s] ELSE Value(line[Max(Writing(line, s))])]

Given(line, flag) == \E i \in DOMAIN line : line[i][1] = flag

(* A cold run is one request of a fresh worker, unless the line says more, *)
(* which is then refused.                                                  *)
ColdDefaults(a, line) ==
  IF a.cache_state = "cold"
  THEN [a EXCEPT !.warmup = IF Given(line, "--warmup") THEN @ ELSE 0,
                 !.iter   = IF Given(line, "--iter") THEN @ ELSE 1]
  ELSE a

SelftestDefault(a) ==
  IF a.selftest /\ a.selftest_alloc_mb <= 0 THEN [a EXCEPT !.selftest_alloc_mb = 64] ELSE a

parse_args(line) == SelftestDefault(ColdDefaults(Parsed(line), line))

Acceptable(a) ==
  /\ a.memory_profile_interval_ms > 0 /\ a.timeout_sec > 0
  /\ a.warmup >= 0 /\ a.iter > 0 /\ a.batch_size > 0 /\ a.max_batch > 0
  /\ a.batch_layout \in {"default", "padded"} /\ a.cache_state \in {"cold", "warm"}
  /\ a.cache_state = "cold" => a.warmup = 0 /\ a.iter = 1
  /\ a.strict_cold => a.cache_state = "cold"
  /\ a.selftest_alloc_mb <= 0 =>
       /\ a.model # "" /\ a.inputs # ""
       /\ a.cache_state = "warm" => a.warmup > 0

(* run_worker applies a limit only if it is positive: "0 = no CLI override". *)
Effective(a) == [a EXCEPT !.max_seq_len = IF @ > 0 THEN @ ELSE 0]

When(condition, option) == IF condition THEN <<option>> ELSE <<>>

(* The command line of the worker up to the streaming partition. *)
ExecutionArgv(a) ==
  << <<"--worker">> >> \o
  IF a.selftest_alloc_mb > 0 THEN << <<"--selftest-alloc-mb", a.selftest_alloc_mb>> >>
  ELSE << <<"--model", a.model>>, <<"--inputs", a.inputs>>, <<"--warmup", a.warmup>>,
          <<"--iter", a.iter>>, <<"--threads", a.threads>>, <<"--batch-size", a.batch_size>>,
          <<"--max-batch", a.max_batch>>, <<"--batch-layout", a.batch_layout>>,
          <<"--cache-state", a.cache_state>> >>
       \o When(a.max_seq_len > 0, <<"--max-seq-len", a.max_seq_len>>)
       \o When(a.pooling = "mean", <<"--mean">>)
       \o When(a.pooling = "cls", <<"--cls">>)
       \o When(a.pooling = "last", <<"--last">>)
       \o When(~a.normalize, <<"--no-normalize">>)
       \o When(a.streaming, <<"--streaming">>)
       \o When(a.batch_control, <<"--batch-control">>)

(* "a knob missing here is silently the default rather than an error".     *)
worker_argv(a) ==
  ExecutionArgv(a)
    \o When(a.selftest_alloc_mb <= 0 /\ a.partition # "", <<"--partition", a.partition>>)
==============================================================================
