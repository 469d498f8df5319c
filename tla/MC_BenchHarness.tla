--------------------------- MODULE MC_BenchHarness ---------------------------
EXTENDS BenchHarness

Required == << <<"--model", "m">>, <<"--inputs", "i">> >>

Profile == << <<"--memory-profile">> >>

(* Warm runs with a short last batch; a cold run of one batch, of too many  *)
(* inputs, and one that is to be verified; the selftest; every setting the  *)
(* worker needs; lines that are refused.                                    *)
MCCommandLines ==
  {Required \o << <<"--warmup", 1>>, <<"--iter", 2>>, <<"--batch-size", 2>> >> \o Profile,
   Required \o << <<"--warmup", 2>>, <<"--iter", 1>>, <<"--batch-size", 2>>, <<"--streaming">>,
                <<"--partition", "unit">>, <<"--threads", 2>>, <<"--max-seq-len", 8>>,
                <<"--max-batch", 4>>, <<"--batch-layout", "padded">>, <<"--batch-control">>,
                <<"--last">>, <<"--no-normalize">> >>,
   Required \o << <<"--cache-state", "cold">>, <<"--batch-size", 4>>, <<"--cls">>,
                <<"--max-seq-len", -1>> >> \o Profile,
   Required \o << <<"--cache-state", "cold">>, <<"--batch-size", 3>>, <<"--strict-cold">>,
                <<"--mean">> >>,
   Required \o << <<"--cache-state", "cold">> >>,
   << <<"--selftest">>, <<"--cache-state", "cold">> >> \o Profile,
   << <<"--selftest">>, <<"--selftest-alloc-mb", 8>> >>,
   << <<"--selftest-alloc-mb", 8>>, <<"--cache-state", "cold">>, <<"--strict-cold">> >>,
   Required \o << <<"--cache-state", "cold">>, <<"--iter", 2>> >>,
   Required \o << <<"--strict-cold">> >>}
==============================================================================
