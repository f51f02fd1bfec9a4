--------------------------- MODULE MCInterpreter ----------------------------
(* Instances of Interpreter for TLC: every program the generator can write *)
(* with a few instructions, and every program of "screen -s".              *)
EXTENDS Interpreter

MCGeneratedPrograms == ProgramsOf(generate_dummy_process, 3)

MCScreenPrograms == ProgramsOf(screen_start, 4)
=============================================================================
