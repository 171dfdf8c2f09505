---------------------------- MODULE MCTranscript ----------------------------
(***************************************************************************)
(* A small instance of Transcript, or of Sponge: a behaviour runs one of   *)
(* the two, the transcript's order or the hash channel under it.           *)
(***************************************************************************)
EXTENDS Transcript, Sponge

MCTrace == <<"lui", "program">>
MCLookup == <<"bitwise">>
MCWidth == [t \in Range(RecursionTables) \cup {"lui", "program", "bitwise"} |-> IF t = "program" THEN 1 ELSE 2]
MCFractions ==
  [t \in DOMAIN MCWidth |-> CASE t \in {"fri_fold_line", "circle_double"} -> 0
                              [] t \in {"logup_sum", "bitwise"} -> 1 [] OTHER -> 2]

MCElements == {"alpha", "beta", "sum", "computed", "other"}

\* A run with one input and one output word, and the runs that differ from it in one field.
Data == [cpu |-> <<1, 2, 3>>, initial_regs |-> <<0, 5>>, final_regs |-> <<0, 6>>, reg_last_clock |-> <<0, 3>>,
         roots |-> << <<4>>, <<0>>, <<5>> >>, io |-> <<8, 4, 12, 14, 4>>, input_words |-> <<7>>,
         output_words |-> << <<12, 4, 2>> >>]
MCPublicData ==
  { Data, [Data EXCEPT !.cpu[2] = 1], [Data EXCEPT !.initial_regs[2] = 0], [Data EXCEPT !.final_regs = <<5, 6>>],
    [Data EXCEPT !.reg_last_clock[1] = 1], [Data EXCEPT !.roots[2] = <<>>], [Data EXCEPT !.roots = << <<>>, <<>>, <<>> >>],
    [Data EXCEPT !.io[5] = 0], [Data EXCEPT !.input_words = <<>>], [Data EXCEPT !.output_words = <<>>],
    [Data EXCEPT !.output_words[1][3] = 3] }

RecursionData ==
  [roots |-> << [tree_id |-> 0, n_paths |-> 1, root |-> <<3>>] >>,
   leaves |-> << [tree_id |-> 0, depth |-> 1, index |-> 0, digest |-> <<2>>] >>,
   channels |-> << [channel_id |-> 0, chunks |-> << <<1>> >>] >>,
   circuits |-> << [circuit_id |-> 0, inputs |-> << <<1, "alpha">> >>, inner_log_size |-> 3,
                    inner_claimed_sum |-> "sum", output |-> <<5, "computed">>] >>]
MCRecursionData ==
  { RecursionData, [RecursionData EXCEPT !.roots[1].n_paths = 2], [RecursionData EXCEPT !.roots[1].root = <<0>>],
    [RecursionData EXCEPT !.leaves = <<>>], [RecursionData EXCEPT !.leaves[1].index = 1],
    [RecursionData EXCEPT !.channels = <<>>], [RecursionData EXCEPT !.channels[1].chunks = << <<1>>, <<0>> >>],
    [RecursionData EXCEPT !.circuits = <<>>], [RecursionData EXCEPT !.circuits[1].inputs[1][2] = "beta"],
    [RecursionData EXCEPT !.circuits[1].inner_log_size = 2] }
MCStatements == [rv32im |-> MCPublicData, recursion |-> MCRecursionData]

MCLogSizes == [rv32im |-> {<<4, 4, 5>>, <<4, 6, 5>>}, recursion |-> {<<4, 5, 4, 4, 6, 4, 4, 4, 4>>, <<4, 5, 4, 5, 6, 4, 4, 4, 4>>}]

MCMixedU32s == {<<13>>, <<1, 2>>}
MCMixedFelts == {<<3, 7>>, <<3, 7, 1>>, <<2, 7, 1, 0>>, <<1, 0, 0>>, <<1>>}

\* Sponge starts from one state of Transcript's only.
MCInit == Init /\ SpongeInit
MCFirst == protocol = "rv32im" /\ run = [statement |-> Data, log |-> <<4, 4, 5>>] /\ mixes = <<>> /\ pc = 1
MCNext ==
  \/ ops = <<>> /\ Next /\ UNCHANGED spongeVars
  \/ MCFirst /\ SpongeNext /\ UNCHANGED vars
MCSpec == MCInit /\ [][MCNext]_<<vars, spongeVars>>
=============================================================================
