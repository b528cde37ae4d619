---------------------------- MODULE CommandLine -----------------------------
(* What main() of src/src/indent.c keeps from process_args() (Options) for *)
(* the run over the files (FileRun).                                       *)

CONSTANT NoName      \* no output file is named

VARIABLES
  pc,                \* where main() is
  in_file_names,
  out_name
=============================================================================
