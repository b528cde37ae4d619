SPECIFICATION FairSpec
CONSTANTS
  ind_size = 0
  case_indent = 1
  brace_indent = 0
  case_brace_indent = 0
  struct_brace_indent = 0
  indent_parameters = 0
  btype_2 = TRUE
  braces_on_struct_decl_line = TRUE
  ljust_decl = FALSE
  BelowStack = "heap"
  MaxTos = 5
  MaxLevel = 1
INVARIANTS TypeOK ScanStops BraceHasList NormalForm
PROPERTIES OpenBraceKept ParseReturns
