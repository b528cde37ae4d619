# A TLA+ model of GNU indent

`indent` reads C source, and prints it again with other white space. It is one
sequential program of about 13000 lines of C (`src/src/`). What makes it hard is
not concurrency but state: a token is handled by functions that share some
sixty variables, read their input from two buffers, keep a hand-written
shift/reduce stack that nothing bounds from below, save that stack at every
`#if`, break a line while it is being written, move the input behind the back of
whoever is reading it, and rewrite the user's files in place.

The modules here model the parts where that state can go wrong, check them with
TLC on small instances, and prove the invariants that matter with TLAPS.

## The system

| component | state it keeps | operations | what makes it correct | modules |
|---|---|---|---|---|
| statement parser (`parse.c`) | `p_stack`, `il`, `cstk`, `tos`, `p_stack_size`, `ind_level`, `i_l_follow` | `parse`, `reduce`, `inc_pstack`, `parse_lparen_in_decl`, `reset_parser` | every search on the stack stops, every `}` finds its `{`, an `else` its `if`, no slot is used before it is allocated | `ParseStack` |
| run over the files, backups (`indent.c`, `backup.c`) | the files, `exit_status` | `indent_multiple_files`, `indent_single_file`, `make_backup`, `fatal` | the text of a user's file is never lost, the exit status tells the truth | `FileRun` |
| token loop and brace search (`indent.c`) | `force_nl`, `flushed_nl`, `last_else`, `search_brace`, `save_com`, `bp_save` | `indent_main_loop`, `search_brace`, `sw_buffer` | each token is handled once and in order | `BraceSearch`, `TokenStream`, `Subsequence` |
| conditional compilation (`handletoken.c`, preprocessor handler) | the list of `parser_state_ty` at `parser_state_tos` | `#if`, `#else`, `#elif`, `#endif` | each branch starts where the `#if` was | `Conditional` |
| output lines (`output.c`) | the three line buffers, the break list, blank-line requests, `output` | `dump_line`, `set_buf_break`, `set_next_buf_break`, `open_output`, `close_output` | every buffered character is written once, lines fit if they can | `LineBreaks`, `OutputLine` |
| comments (`comments.c`) | `s_com`, `e_com`, columns, `line_break_ptr`, `right_margin` | `print_comment` | no text of a comment is changed, lines are filled | `Comments`, `Subsequence` |
| input and `INDENT-OFF` (`code_io.c`, `output.c`) | `current_input`, `in_prog_pos`, `buf_ptr`, `buf_end`, `cur_line`, `had_eof`, `inhibited` | `read_file`, `fill_buffer`, `dump_line` | the whole file is read; what is between the control comments is copied | `InputLines` (and `FileRun`) |
| parentheses, casts, initializers (`handletoken.c`, `lexi.c`) | `p_l_follow`, `paren_depth`, `paren_indents_size`, `cast_mask`, `sizeof_mask`, `block_init`, `block_init_level` | `handle_token_lparen`, `_rparen`, `_lbrace`, `_rbrace`, `_semicolon`, `_comma`, `lexi` | levels and source agree, a cast is a cast | `Nesting` |
| options (`args.c`, `indent.c`) | `settings`, "explicit" flags, the file names | `set_option`, `set_profile`, `process_args` | the last option wins, an explicit one beats a style | `Options` |

They interact by direct calls and shared globals only. The loop asks `lexi()` for a
token, which asks `fill_buffer()` for a line; `search_brace()` may divert the
input; the handler of the token appends to the line buffers, calls `parse()`,
and asks `dump_line()` to write the line, which moves `ind_level` to
`i_l_follow`. `indent_multiple_files()` runs that loop once per file, after the
backup. There are no threads; failures come from the outside (a full disk, an
unreadable file, a kill), and orders from the source text, which may hold any
tokens in any order.

`PROJECT.json` lists the components with their status, and under `hazards`
each place where a sequence of calls, an order or a failure can break one of
these properties, with the properties that would show it.

## Modules

### `ParseStack` - the statement parser

The variables are the C ones. The three arrays are functions on `0..tos`, since
what is above the top is never read; `p_stack_size` is what was allocated. A step is
one iteration of the loop of `reduce()` (`ReduceList`, `ReduceDo`, `ReduceIf`,
`ReduceHead`, `ReduceDoWhile`, `ReduceReturn`) or of the `if` loop of `parse()` (`FlushIf`,
`FlushDone`), or one case of its `switch` (`ShiftDecl` ... `ShiftSemicolon`). `pc` says
where in `parse()` the program is. Between two calls the environment acts
on the same state as the program does: `Parse(t)` for any construct in any
order (the text decides), `ParseLparenInDecl`, `DumpLine`, `PutText`,
`ElseIf` (in `lexi()`), `ParameterDecl` and `BodyAtMargin` (in the handlers), `Eof`, `NextFile`.
The parser reads `p_stack[tos - 1]` even for `tos = 0`; `BelowStack` is the word it then finds.
The handlers are abstracted to these moves, which over-approximates them: more
orders are allowed than a lexer produces.

Run `parser_stack` (`MCParseStack.cfg`): a stack of six slots, so that the array
is grown twice and an `if`-`else` in a loop in a brace fits, any number of
constructs, two and more files. Levels are one column for a `case` and zero
otherwise; the depth of the indentation is no part of the properties.

- `ScanStops`: the unbounded search for the list around an `if` is stopped by some slot.
- `BraceHasList`, `OpenBraceKept`: an open brace keeps its list above it, its slot and its indentation until its own `}`.
- `NormalForm`: between two calls nothing is left to reduce and a pending `if` is on the top. The exception is in the code: `parse_lparen_in_decl()`
  pushes a statement without looking for a pending `if`, so that `if (x) { int } (y);` leaves one below the top. The history variable `covered`, which no guard reads,
  has these slots; the property says that there are no others, and that each keeps a statement list right above it.
- `TypeOK` has that the arrays are allocated up to the top (`tos < p_stack_size`).
- `ParseReturns` (liveness): both loops of `parse()` end. The fairness is weak fairness of the parser's own steps: once called, a function of a single-threaded program runs.

### `FileRun` - files, backups, exit status

`disk` maps a name to the text on it: whose it is (`of`), whether it is the source or the formatted
text, and how much of it is there (`part`). One action per step that the file system sees: `OpenInput`, `Read`,
`ReadDone`, `OpenOutput`, `BackupOpen` (or `BackupNone`), `BackupWrite`, `BackupClose`, `Truncate`, `Format`,
`IndentReturns`, `CloseOutput`; `CallFails` is a checked call that reports an error and ends in `fatal()`,
`NulCharacter` is the check of `fill_buffer()`, which comes after the truncation, and `Killed` may come at any point. `Faults` says
what the environment may do: `crash`, `io_error` (a call fails and says so), `disk_full` (what stdio has buffered is lost
without a word to the code that looks), `short_read`. `generate_backup_filename` follows `version_control`
(simple, numbered, numbered when there are some); `highest_version` looks at the names on the disk, if `opendir()` opens the
directory: `Unlisted` are the inputs for which it does not (no permission to read it, or a file in the root, whose directory name is cut to nothing), and
for which the code finds no backup at all.

Run `files` (`MCFileRun.cfg`): one to three file arguments, one named twice, next to another or around it, or
given with its own simple backup, one in a directory that cannot be listed; old backups present or not, all modes of backup, with and without an output name. Three
arguments are the fewest with a file before, at and after the one being processed; the numbers of backups stop at
three (`MaxVersion`), and a text has two lines (`Size`), so that a half-written file is neither empty nor whole.

- `OriginalKept`: at every moment, a kill included, the original text of each file is in its file or whole in a backup.
- `SafelyMadeABackup`: when a file is truncated its backup is complete on the disk.
- `BackupsKept` (action property): numbered backups of earlier runs are never overwritten, but for the first one of a file whose directory cannot be listed (`Blind`).
- `SuccessMeansWritten`: status 0 means every output is whole, but for a file that is named after its own backup (`OutputsApart`:
  `indent a~ a` formats `a~`, and then writes the backup of `a` over it).

They hold where the file system does what the calls report (`Faults` holds
`crash` and `io_error` only), and where no name is given together with its own backup (`Safe` says exactly when);
what happens otherwise is under "Disagreements".

### `BraceSearch` and `TokenStream` - the second input buffer

After `if (...)`, `else` and so on the loop looks for the brace. It collects
the comments it passes in `save_com`, then `sw_buffer()` makes `save_com` the input and `fill_buffer()` returns to
the source; the token that ended the search is put back and read again. `BraceSearch` has
the source as a sequence of kinds of token; a token is its
position. `Read` is the call of `lexi()` in the loop, each `Search...` action is one
iteration of `search_brace()` up to its next `lexi()`, each `Handle...` a handler with
what it does to the variables of the search. What only the parser knows (which
statement a `}` ends, whether an `else` has its `if`) is chosen.
Left out: procedure names on their own line, `-slc`, `-pcs`, the search after a struct
word under `-brs`, unterminated comments and form feeds.

`TokenStream` is what the loop promises: tokens are delivered once and in order, but
a `{` may pass the comments before it. `StreamKept` is the refinement, with the two buffers and
the token in hand read as one sequence (`Pending`).

Run `brace_search` (`MCBraceSearch.cfg`) checks every source of a family of up to five tokens, which `MCBraceSearch` defines, in
four settings. Five is the shortest source with a header, two comments, a newline between them
and a statement or brace; those of five end with a statement or a `}`, the shorter ones with anything. The family leaves out only what the disagreements below need: files that end in a search that holds something (`EndsOpen`), and a second `{` after a comment in one search (`DoubleBrace`).

- `StreamKept`, `AllHandled`: no token is lost, repeated or overtaken.
- `ReachesEof` (liveness): the loop ends, under weak fairness of the only process.

Run `brace_lost` expects a violation of `NothingLost`: with `-br` a second `{` overwrites the first one.

### `Conditional` - the states of `#if`

`#if` puts a copy of `parser_state_tos` on top of it and goes on with the copy (`PreIf`), `#else` and
`#elif` copy the state below back over the top (`PreElse`), `#endif` drops the state below (`PreEndif`). Each
state is a C struct that owns arrays, and the first two operations are a `memcpy()` of the struct followed by repairs of its pointers. So the
model has the memory: `heap` maps a block to its real size and elements, and a state has its pointers and the sizes it
believes them to have. `xrealloc()` (`Resized`) may make an array smaller, which it does: after `#else` the top has
its old, grown array and the smaller size of the second state, and the next growth goes by that size.

| model | code |
|---|---|
| `parser_state_tos`, `saved` | the list by `next`, the top first |
| `p_stack` of a state | `p_stack`, `il` and `cstk`, which are allocated, grown, copied and freed together |
| `Push`, `Merge`, `SetTop` | `inc_pstack()`, a step of `reduce()`, the rewriting of the top in `parse()`; in any order, `ParseStack` says in which |
| `HandleLparen`, `HandleRparen` | the two handlers, as far as `p_l_follow` and `paren_indents` |
| `HandleLbrace`, `HandleRbrace` | `dec_nest`, `di_stack` and `dec_ind`; `as_paren` is a brace of an initializer that is counted as a parenthesis |
| `HandleDecl` | the handlers that compute a new `dec_ind` |
| `PreUnmatched`, `NextFile` | a directive without its `#if`; `reset_parser()` |

An element above the top of its stack counts as never written (`Junk`), which makes `Written` stronger. The states of an `#if` left open
at the end of a file stay allocated in the program and can never be reached; here their blocks are free. `paren_depth`, blank-line requests and the rest of the struct
are left out: they are plain members that `memcpy()` copies.

Run `conditional` (`MCConditional.cfg`): two nested conditionals need three states, so six blocks. Arrays start
with one element and reach four, because the shrinking `xrealloc()` needs an array that was grown twice, an
`#else`, and one growth. There is one code and one column: which value is in a slot is not told apart in the run (with two codes at these bounds TLC does not end in minutes), only
whether it was written and where the tops are; the theorems have no such limit.

- `Unshared`: no two states, and no state and a freed block, share an array.
- `CopyFits`: the copy of `#else` fits. The comment in the code argues that the arrays never shrink, which is not so; the copy fits all the same.
- `Written`: nothing is read that was not written.
- `StateRestored`: the lower states stay as they were, and `#else` brings back that of its own `#if`.

### `LineBreaks` and `OutputLine` - the line under construction

`LineBreaks` has the list of places where the line may be broken: `SetBufBreak` is `set_buf_break()` with
`BetterBreak` (which place beats which) and `Priority`, `SetNextBufBreak` is `set_next_buf_break()`, which is called
when the first part of the line has been printed: the places that are left are moved by the length of that part and looked
at again (`Moved`, `BestBreak`). `OutputLine` is what works on them: the token loop (`Lexi`, with the newline
that the line asks for), a handler per class of token (`HandleDecl` ... `Newline`), and `dump_line()` as one
step per call: `DumpPart` prints up to the break and calls itself (`pc` stays `"dump"`), `DumpWhole` ends the
recursion, and then the handler that called goes on (`after`). A character is the token it belongs to and its place in
it, so that a character lost, doubled or moved is seen; the blanks are `Blank`. In front of `s_code` is a blank that
is no part of the line (`codebuf[0]`), and the code reads it: of two places at one blank one is used, the other is moved to -1, and `BreakPtr` finds the blank there.
`commented` is history: a comment began the line of which this is the rest. Everything is counted from the column where the code is to
begin (`CodeColumn`, the code's `target_col`); where it does begin is `PrintedAt`: `pad_output()` only goes to the right, so after a label that is wider it begins further right (`AfterLabel`), and
one further left after one that is not, for the blank that ends a label is counted and not printed (`a:x = 1;`).

Run `output_line` (`MCOutputLine.cfg`): declarations and statements of up to seven characters (`MaxChars`) on a page of
eight columns (`max_col`) of which three are indentation, two open parentheses, comments, labels and newlines, in the style of GNU (`-lp`, `-hnl`) and of Kernighan and Ritchie.
Seven characters with the blanks between them fill more than one such line; labels are narrower than the indentation, as wide or wider; lines are broken at every place there is, and a rest that is broken again occurs, as does a place at -1.
This is the largest run: 8.4 million states, a minute and a half.

- `TextKept`: what is printed and what is in the buffers is the text that was read.
- `BreaksInside`: every place is at a blank or the start of a token of the code that is in the buffer now, or right before it, also after it was shifted; a line that is to be broken has one.
- `PartFits`: a printed part fits on the page, where it is really printed, unless no blank of the line would make it fit. Lines that a comment begins, and their rests, and lines with a label wider than the indentation are left out: see the disagreements.

Left out: tabs, `#` lines, the priorities of `-bbo` apart from its own, `-bfda`, the search for procedure names, `-di` beyond one width.

### `Comments` - the text of a comment

`s_com` and the source are sequences, and a unit of a line is the position in the source it was copied from, or what `print_comment()` puts
itself (`Blank`, `Star`, `Delim`). The pointers `line_break_ptr` and `text_on_line` are offsets, and they survive the printing of the line as they
do in the code. So does `column`, which the code counts beside the buffer: a blank that is taken off the end of the line is not taken out of it, and the blank for the newline is counted again. Each action is one turn of the loop of `print_comment()` by the character it looks at (`CopyBlank`, `JoinLines`, `KeepLine`,
`BoxStar`, `CopyText`, `Close`, `CloseCplus`, `EndOfFile`), with the test for the margin that comes after it (`AfterChar`); `CopyBox` is the loop for boxed comments.

Run `comments` (`MCComments.cfg`): every comment of up to seven letters, blanks, newlines and stars (`MaxLength`), at a margin of seven (`comment_max_col`), in nine
styles: formatted, with `-sc -cdb`, not formatted, boxed, C++, and four cut off by the end of the file. A line holds four characters of text, so seven make two lines with a word that is moved.

- `TextKept`, `WordsKept`: nothing is lost, words stay words; only stars below the star of the delimiter are taken away.
- `LinesFit`: a line does not go past the margin unless it is one word. The margin moves, and `Moved` says how far: to the blank behind a printed line that is one word, or from `-lc`, and by at most a column for every
  line printed since. The second part is for texts without a `TrailingBlank`, one before a newline (or a star alone on a line); it matters at a margin of 6.
- `LinesFilled`: a line is broken no sooner than it must be (two columns are needed before a word that two blanks part from a dot, one before others), in texts without a `TrailingBlank`.
- `LinesKept`: without formatting the lines are those of the source; with it an empty line needs two newlines.
- `Terminates` (liveness): under weak fairness of the only process, `print_comment()` returns, also at the end of the file.

Run `comment_text` expects a violation of `TextKept`, with a dot (which asks for two blanks) and a margin of six.

### `Nesting` - parentheses, initializers, casts

The state is the part of `parser_state_tos` that counts what is open, and a history `open` of the brackets of the source. Each action is a token: its way through `lexi()` and its handler.
A mask is the set of the positions of its bits. It is an `int`: `1 << p_l_follow` is not defined from `MaskBits` on (32), and the processors indent is built for shift by the remainder, which is `Bit`. The source has matching brackets, and statements, semicolons and types where C has them.
Whether a `}` closes a parenthesis (`TreatedAsParen`) is guessed by the code from the level; `Depth` is the truth.

Run `nesting` (`MCNesting.cfg`): any sequence of tokens with up to three brackets open at a time. Three is a cast in an initializer in parentheses; `paren_indents` starts with two elements so that it grows; a mask has three bits, so that the third bracket is one too many for it; after that the run only follows sources that close brackets until the next semicolon outside of them (`Closing`). The proof has no such bounds.

- `LevelsPaired`: `p_l_follow` and `paren_depth` are what is open, as long as no statement or type with braces of its own stands in an initializer (`interrupted`).
- `CastIsType`: a `)` ends a cast exactly when a type stands in it, and neither a word nor `sizeof` before it; until a cast inside of a `sizeof` leaves its bit (`stale`), or as many brackets are open as a mask has bits (`deep`, until the next semicolon outside of all brackets).
- `NestingTypeOK` has that the index of `paren_indents` is inside of it.

### `Options` - which option wins

`CommandLine` has the variables that `process_args()` leaves to the run over the files, which `FileRun` has as well; the names of `Options` begin with its own (`OptionsInit`, `OptionsSpec`), so that one module may extend both.

The state is that of `main()` before it opens a file: `settings`, the `p_explicit` flags, the words left to be read, and the names of files. `ScanFirst`, `ScanNext`, `ScanEnd` read the profile, `OutputName`, `InputName`, `StandardInput`, `OptionArgument`
the command line; both hand a word to `set_option()`, which looks it up by prefix in the order of the table and may call itself for a style. `pro` is the table with an entry of each type, in the order of the source.

Run `options` (`MCOptions.cfg`): profiles of up to two words at each of the three places, with command lines of up to two out of eighteen words, three out of seven, and four out of four. An option with its number in the next word is two words, and a style between two options is three.

- `LaterWins`: each setting ends with the last option that names it, else the last style, else its default. The property reads the words as the manual does, with no flag and no recursion;
  `-nip` is to it what the manual says, `-ip0`. The table has `-nip` among the styles, so the property excepts the indentation of parameters where that shows (`NipHeeded`: the last word about it is `-nip`, and an `-ip` came before or a style after). `NipIsIp0`, without the exception, does not hold.
- `FilesNamed`: each plain word becomes an input or the output and none is lost.

Left out: comments in a profile, `-T` beyond its syntax, the table of Berkeley, negative numbers.

### `InputLines` - lines and `*INDENT-OFF*`

`fill_buffer()` sets `inhibited` when it reads a line that begins with `*INDENT-OFF*`; the next `dump_line()`, whoever calls it, copies lines from `cur_line` to the one that turns formatting on and moves the input behind it.
The text is a sequence of pieces and pointers are positions in it; `in` holds the buffers of `code_io.c` and the token in hand. `lexi`, `fill_buffer`, `AfterDump` are functions on it, because a step of the program makes several of these calls.
`Search...` are turns of `search_brace()`, `Handle...` the handlers, `PrintComment` copies a comment; `Swallow...` and `TearComment` are what `print_comment()` does when the input is not where its token was read.

Run `input_lines` (`MCInputLines.cfg`): files of four lines out of twelve and five out of five, with all of `-br`, `-ce` and `//` comments, and a second file. A region needs two lines, with one inside and one around it on either side that makes five.

- `TextKept`: every piece is printed once, in order, and none as a part of a comment; for formatting that is turned off between two statements where no search for a brace is on. On the first line, and right after a line that turns it on, there is no newline before
  the line that could copy it: there it must hold comments only, or code on it may be printed twice (`WellPlaced`).
- `OffIsVerbatim`: pieces are copied as they are exactly in the regions.

Run `indent_off` expects a violation of `SourceKept`, which is `TextKept` wherever formatting is turned off. The model was compared with the program on 12000 random sources of these kinds of lines:
the order of the pieces is that of the program in all. Left out: `{` in the search (`BraceSearch` has it), boxed comments, long lines, and an input without a newline at its end.

## Proofs

TLAPS checks the theorems for every value of the constants: any depth, any
option values, any file list, any source.

- `Parser_proofs`, about `ParseStack`. No property is inductive alone. The inductive invariant `Inv` says that slot 0 holds a
  list (`Grounded`, which stops the search of `reduce()`: `ScanStops`), that every brace has its list above it
  (`BraceHasList`), that a waiting `if` is on the top only (`IfheadOnTop`), that nothing is left to reduce while
  `parse()` is not in `reduce()` (`Reduced`), that the top is allocated, and that case columns are inherited (`Columns`, with
  an exception for the one slot `reduce()` is about to merge). One lemma per way of changing the stack (push, replace
  the top, merge two slots) says what it keeps; each action cites the one it uses. From `Inv` follow `TypeOK`, `ScanStops`,
  `BraceHasList`, `NormalForm`, the action property `OpenBraceKept`, and three that no run checks because they are parts of it or of `TypeOK`:
  `OpenBraceIsSeen` (the test `tos > 1` at the end of the file misses no open brace), `SlotAllocated` and `CaseColumn`.
- `Parser_proofs`, about `Nesting`. Neither property is inductive: that `p_l_follow` is the depth needs that the brackets which count are below
  those which do not. `IInv` says so of the history `open` (`Stack`: depths go up by one or stay, initializers are the innermost,
  a bracket is castable by what stood before it), ties `block_init_level` to the braces of the initializer (`Level`), and each bit of a mask to the bracket at its depth
  (`Masks`) as long as every depth has a bit of its own (`Bits`). One lemma for opening a bracket and one for closing it say what they keep of it; each token has its step. `NestingTypeOK`, `LevelsPaired`
  and `CastIsType` follow for any depth, any initial size of the array and any width of the masks; the last one has the exception for more brackets than bits in it.
- `CommandLine_proofs`, about `FileRun`. The invariant has two parts. `AnyFault` holds whatever the environment does (types, what `read_file()`
  holds at which point, which name the backup has, that no more is on the disk than was formatted) and gives, with no hypothesis, `TypeOK`, the action
  property `BackupsKept`, and `LaterFilesUntouched` (a failure in one file leaves the ones after it alone). `IInv` adds what needs `Reliable`
  (neither a short read nor a full disk that nobody reports; a kill and errors that are reported are allowed): what is in memory is the file, and each original is on
  the disk (`Kept`). It gives `OriginalKept` and `SafelyMadeABackup`. `SuccessMeansWritten` needs more history: `WInv` says that
  the inputs are whole (`WholeInput`), that all that was formatted is on the disk (`Growing`), that the outputs of the files before are there and no backup is made over them
  (`Finished`), and that an error, once seen, stays in the status (`StatusKept`).
- `CommandLine_proofs`, about `Options`. `LaterWins` compares two ways to read a list of words of any length: the program's, which looks up a prefix, asks the flags and goes through a style, and the
  manual's (`ReadingTo`). The invariant ties them together word by word. `ScanAt` says which words are dealt with, `InProfile` and `InArguments` that the settings are what those mean (`Settled`): the
  flags are the marks of the options given (`Marks`), and each setting has its meaning, also while only a part was read. `EntryAgrees` is the lemma about the tables: an option that indent accepts is the one with that
  very name, and it takes the next word as its value exactly when the manual says so; the prefixes that are found first by mistake are refused because no number follows. `MeantAppend` says what one more option changes of the
  meaning, `BundledIs` what a style does to the settings (its options differ in what they set, so their order is of no account), and `MarkedIs` that the flag of an option is set iff an option for the same variable was given, which is where
  `-br` and `-bl` must share one. The invariant speaks of what the table makes of the words (`MeantByCode`, with `-nip` a style); `MeantAsCoded` shows that this is what the manual says, but for a `-nip` that is not heeded. The theorem supposes `Unshadowed`: the two long options that a shorter one hides (`--break-function-decl-args-end` and `--dont-break-function-decl-args-end`) are not among the words (each is accepted, and sets the other setting; see `LongNameFound` below). `FilesNamed` and `OptionsTypeOK` need no hypothesis.
  `RunStarts` is what `FileRun!Init` takes from them: an output is named for one input only.
- `BraceSearch_proofs`. `IInv` adds to `TypeOK` what kinds of token `save_com` may hold, and that while
  `save_com` is being read no search can start: every token in it but the last is a comment, a newline
  or a brace, whose handlers leave `search_brace` alone. From it `SaveComIsFree`: `save_com` is not filled while it is read, and the one saved input position is never overwritten.
  `BInv` adds where the lookahead is: the input is one past the token in hand (`Placed`), and all that a search holds lies between its header and that token (`Tracked`). From it
  `AllHandled` (`AtEnd`: at the end of the file only newlines are left in `save_com`; for sources that do not end where a brace is looked for, `EndsOpen`), and the refinement `StreamKept`: each action
  delivers the first token of `Pending`, moves a brace ahead of the comments before it, or leaves `Pending` as it is (for sources without a second brace in one search, `DoubleBrace`). Both hypotheses are needed: TLC finds the
  violations, which are among the disagreements, and the run has the same ones.
- `Comments_proofs`. `IInv` (types; the length of the preamble in each form of a comment; the cursors are in the line, and a line is no longer than what was read) gives `TypeOK`.
  `TextKept` is about what `line_break_ptr` and `text_on_line` point to when a line is cut there. `Marked` says it: a preamble without text, then
  the word at `text_on_line`; a break is at a blank after a word, and what follows it is either the last word or at most one more blank; after a dot and two blanks
  no blank comes. The hypothesis `~WideGap` is for that last part, and where it fails the run `comment_text` shows a lost character. `TInv` adds that a line without text is all preamble
  (`Unwritten`), which stars were left out (`Eaten`), and `TextKept` itself. One lemma per action says how the text of the line and of the lines before it changes; `BreakLine` needs that
  the preamble of the next line does not reach the saved text, which lies behind it in the same buffer.
  `LinesFit` compares the width of each line with a margin that moves. `FInv` adds that every line printed `Fits`, and for the line in hand where it may be broken: behind `line_break_ptr` there is but one word, which ends at the last
  character read, and a break at the end of the line means that it has no text yet (`Breakable`). So a line that is broken at its break was measured when it was no wider than that, or the margin was moved to it; the rest is a preamble and one word
  (`RestBreakable`, `OneWordText`). It needs no hypothesis. For all this the column has to be where the line ends or behind it, which is `ColumnOK`; it also says when the two are the same: where a blank was dropped, one was read (`ColumnCounted`).
  `LinesWithin` is what this gives for `LinesFit`.
  `WordsKept` compares neighbours in the output with neighbours in the source. `WInv` says it of each line: two characters that are side by side follow one another in the source (`Solid`), and two that do
  are side by side in the line in hand or in one that is printed (`Words`). That the next character joins the word before it, and no other, is `Ends`: the last character of the line is the last one read, if that is
  text, and otherwise what indent put. A line is cut only at what is no text (`SolidFront`, and `RestWords` for what was broken off), so that no pair is torn; that it is cut there is again `Marked`, hence the same hypothesis as for `TextKept`.
  `LinesKept` compares the lines of the output with the newlines of the source, so its invariant says of every two neighbouring characters of the text, in one line or in two, what is between them in the source. For a formatted comment (`KeptOK`)
  an empty line lies between them only if two newlines do; and since a line is printed before what follows it is read, `AheadOK` says the same of the last character put and of the place that is read next: a line that is empty
  already has both newlines behind it, and one that has no text yet has them in front of the first it will get. For the others (`CountOK`) a character is in the line whose number is that of the newlines before it. The hypothesis is that of `TextKept`, on which it builds.
- `Filling_proofs`, the last two properties of `Comments`. `LinesFilled` compares a line that is printed with one that may not even have been read when it was: the first word of the next line, with its width, decides whether the break was needed.
  `FilledOK` says of every two neighbouring lines that the lower one begins with a `Run` of characters which would have gone past the margin above (`Filled`); a run need not be the whole word, so more characters of the
  word do not matter (`RunOn`, `FilledOn`). Of the last line printed it says the same as long as the line in hand has text (`Follows`), and before it has any, that the line above is `Full`, with no room for a blank and a character, or ended a paragraph.
  A line is broken at `line_break_ptr` by the character that goes past the margin, so what is moved down is a run that would have passed it too, and how many blanks would part it from the line above depends on
  the dot: `Dotted` says that a break can be followed by a second blank only if both stand behind a dot in the source. One lemma per action, on the invariants of `LinesFit` and `LinesKept`, which the theorem extends; the hypothesis is theirs (TLC finds no violation with wide gaps, at a length of eight), and that no blank is before a newline: `FilledOK` holds as long as there is none (`TrailingStays`, `ColumnExact`), and TLC finds the violation where there is one.
  `LinesFit` says also how far the margin is moved, and that is inductive (`MarginOK`) when a line is broken behind a character of its text or before any (`BreakHeld`): the part that is printed fitted, so it is one word, or it ended within the margin and moves it by its blank only (`FrontMoves`, `BreakMoves`, `GrowMoved`).
- `OutputLine_proofs`. `Inv` adds to `TypeOK` that the places are valid for the code (`Placed`: in their order, each at a blank, at the start of a token, right before or behind the line), and
  what keeps them so: between two handlers the code does not end in a blank (`Tidy`), which is why a token put behind a place starts at it and why `Trimmed` moves nothing, and a comment held in `com` starts with its first character. The order is needed when
  a line is broken: the places that are left are behind the one that is used, so that after the shift none is more than one before the rest (`AtInRest`, `NextPlaced`). `Waiting` says
  that a token which waits for a line to be printed can still be handled after it, however often `dump_line()` calls itself. `BreakPtr` then splits the code so that only a blank is left out, which
  makes `TextKept` inductive. One lemma says what a handler must do (`FinishKeeps`), one what printing a line must (`PrintedKeeps`), and each action has its step. `TypeOK`, `TextKept` and `BreaksInside` follow for any page, any tokens
  (of at least one character, which is no blank: `OutputAssumption`), any depth and length.
  `PartFits` speaks of places that were dropped from the list long ago, by `set_buf_break()` or `BestBreak`. Instead of their history `Inv` says what dropping them leaves true: every blank behind the first place
  is in the list (`Covered`), no blank is before a first place that is past the margin (`Leading`), no place is behind the line (`Inner`), and the columns that the places recorded are where they are printed
  (`Columned`; they are at least as large: a declaration whose padding takes the continuation indent back only moves the line left, `Under`. The place of a label is made with the column of the line before, but nothing is in front of it).
  That a place is taken only when it is the first or fits (`ReplacedFits`, `BestBreakRange`) makes `Leading` inductive, `NextFits` carries all four to the rest, and `PartOnPage` concludes: what is printed is at the columns of the places or, behind a label, to the left of them. It is about every line but the one a comment begins and its rests, where `Columned` is
  false (`Exact`, and the disagreement at `output.c:957`), and one with a wider label (the disagreement at `output.c:877`).
- `Lemmas` has what these share: a nonempty bounded set of integers has a highest element (the slot the search of
  `reduce()` stops at and the number of the newest backup are defined with CHOOSE), induction up to a bound, sequences that are put together and split, and what `Only` of `Subsequence` chooses of a sequence.
  `Only` is written as a recursive function, so that facts about it can be proved by induction over a set of indices.
- `Input_proofs` is about `Conditional` and `InputLines`, two unrelated modules. In `Conditional` the named properties are not inductive: that the copy of `#else` fits follows from the sizes which the
  states record being ordered (`Fits`: an older state records no more than a younger one), not from the sizes of the arrays, which may go down. `IInv`
  has that order, the separation of any two states (`Apart`), and for each state that its indices are below its sizes and its used elements written
  (`Good`). `RoomMade` is the one lemma about growth, `OnlyTop` the frame: what is done to the arrays of the top is
  not seen in the states below. `InBounds` (recorded sizes are at most the real ones, every index in use is below them) and all five properties of the run follow, for any contents, initial sizes and depth. The bounds remain as constants: `RoomAssumption` says
  that the longest array has room for a doubling at the deepest point, which is the memory of the machine.

  In `InputLines` the invariant `InputInv` is about what is between the source and the output. For a text that is `Finished` it says that what was printed or put on a line, what `save_com` holds, what is still to be read of it and the token in hand are together the text up to the place where
  the source is read on (`Account`). A step that reads moves that place and a piece with it; the one that could break it is `MovedOn`, which moves the place behind a region, whoever has a token in hand. So `Region` says when formatting may be off: with a newline in hand at the start of the
  lines to copy, on a line of comments that begins the text or follows a region, or at the end of the source. That a line which turns it off is never read in a statement or a search is what `WellPlaced` says of the text; `Flags` carries it to the program: `in_stmt` and
  `search_brace` are only set while the last piece of code before the place is one that sets them. `Ready` and `Tokens` say what the buffers and the token may be in between, `Verbatim` how each piece was or will be printed. `OnLine` is the first line that turns formatting on, so that
  what is copied is the region (`RegionCopied`, `AfterRegion`). One lemma per action; those of a torn comment cannot be taken (`NothingTorn`), and the start of the next file has to establish all of it again (`StartClean`).
  `InputTypeOK` needs no hypothesis, `TextKept` and `OffIsVerbatim` have those of the run, for texts of any length. The hypotheses are needed: without them TLC finds the disagreements below.

Only model-checked:

- the liveness properties `ParseReturns`, `ReachesEof` and `Comments!Terminates`: fairness and ENABLED are out of the prover's reach.

## Disagreements

Three have a run that expects the violation: `brace_lost`, `comment_text`, `indent_off`. The others were met while modelling; where a definition states what was
expected (its comment says "Does not hold"), it can be put into a cfg in place of the properties.

| where | what happens | how to see it |
|---|---|---|
| `parse.c:566` | "Unmatched 'else'", "Stmt nesting error." leave the exit status 0 | `ErrorIsReturned` in `MCParseStack.cfg` |
| `parse.c:690` | "just like parse(semicolon)", says its comment, but a waiting `if` is not flushed: after `if (x) { int } (y);` the `}` around it is a "Stmt nesting error." | `NormalForm` without `covered` |
| `backup.c:513` | the result of `fclose()` of the backup is ignored, and the file truncated | `SafelyMadeABackup` in `MCFileRun.cfg` with `Faults = {"disk_full"}` |
| `output.c:1313` | the result of `fflush()` is ignored: status 0 on a full disk | `SuccessMeansWritten`, the same |
| `backup.c:251` | an `opendir()` that fails is taken for a directory without backups: the next numbered backup is number 1 again, and overwrites it; so for every file in `/` (`:302`). The manual (`indent.texi:313`) and the comment at `:53` promise one more than the highest | `NumberedBackupsKept` in `MCFileRun.cfg` |
| `indent.c:929` | `indent a.c a.c~` overwrites the backup and then the second file | `EachFileHasBackup` in `MCFileRun.cfg` |
| `indent.c:383` | a comment that is held at the end of the file is not printed | `AllHandled` with `Sources <- AnySource` |
| `indent.c:231`, `:414` | `line_no` drifts when newlines are put into `save_com` | `LineNumber` in `MCBraceSearch.cfg` with `Settings <- Gnu` |
| `handletoken.c:2061` | `dec_ind` is not part of the state that `#else` brings back | `DeclarationLinedUp` in `MCConditional.cfg` with `Columns = {0, 2}` |
| `output.c:319` | a break with a negative level indexes before `paren_indents` | `BracketsCounted` in `MCOutputLine.cfg` with `Styles <- StrayStyle` |
| `output.c:957` | the places of a line that a comment begins are moved from the column of the comment: its rest may be broken past the margin | `PartFits` without `commented` |
| `output.c:877` | the places of a line with a label are counted from the indentation, also when the label is wider and the code begins further right: `longlabelname: xx += y + z;` with `-l16` is broken after `xx +=`, three columns past the margin (`indent.texi:2026`: "Set maximum line length") although it fits without `+=` | `PartFits` without `AfterLabel <= CodeColumn` |
| `output.c:1298` | `-bad`: the blank line after a declaration that was broken is lost | `BlankAfterDeclarations` with `Styles <- OriginalStyle` |
| `comments.c:750` | a paragraph break after a word at the margin is lost | `ParagraphsKept` in `MCComments.cfg` with `Styles <- PlainStyle`, `comment_max_col = 6` |
| `comments.c:729` | one word that is too long moves the right margin for all lines after it, and any joined line that just reaches it moves it by a column: with `-fca -fc1 -lc10`, a comment of the lines `a bbbb`, `a ccccc`, `a dddddd`, `a eeeeeee` and `a ffffffff` gets lines of two words that pass the tenth column (`indent.texi:2031`: "Set maximum line length for comment formatting to `n`") | `LinesFit` without `+ Len(printed)` |
| `comments.c:554` | a blank before a newline is taken off the line and stays in `column`, and the one that stands for the newline is counted again (`:590`): with `-lc7` the lines `/* x ` and `x` are not joined although `/* x x` fits, and are without the blank; with `-lc12` the one behind `aaaaaaa` moves the margin to 13 | `LinesFilled` without `~TrailingBlank`; `LinesFit` without `TrailingBlank` and `comment_max_col = 6` |
| `comments.c:272` | a boxed comment cut off by the end of the file prints a NUL | `Nul` in `CopyBox` |
| `indent.c:862` | `-st` after two file names is accepted, and both are formatted in place | `StdoutAlone` in `MCOptions.cfg` with `Environments <- Nowhere`, `ArgumentLists <- FileLines` |
| `args.c:445` | `-ip3` and then `-nip` leaves 3, and `-nip` then `-gnu` gives 5: `-nip` is a style in the table, "equivalent to `-ip0`" in the manual (`indent.texi:1461`) | `NipIsIp0` in `MCOptions.cfg` |
| `args.c:634`, `args.c:620` | `--break-function-decl-args-end` is taken for the shorter option before it, and so is `--dont-break-function-decl-args-end` | `LongNameFound` with `Environments <- Nowhere`, `ArgumentLists <- LongLines` |
| `handletoken.c:983` | `;` in a brace inside of an initializer resets `block_init`; the `}` after it takes back nothing | `interrupted` in `Nesting` |
| `handletoken.c:514` | a cast inside of a `sizeof` leaves its bit set | `stale` in `Nesting` |
| `handletoken.c:454`, `:514`, `lexi.c:514` | `1 << p_l_follow` with 32 or more open brackets: the bits are taken for those of other depths, and casts are taken for other parentheses or the other way round | `deep` in `Nesting` |
| `output.c:1206` | the first line of a region is not looked at for `*INDENT-ON*` | `OffIsVerbatim` without `OnIsSeen` |
| `output.c:1195` | `*INDENT-OFF*` to the end of a file is still on in the next one | `OffIsVerbatim` without `left_off` |
| `output.c:1195` | code on a line with `*INDENT-OFF*` that is the first line, or comes right after one with `*INDENT-ON*`: `/* *INDENT-OFF* */ a = 1; b = 2;` is printed twice and `b` a third time | `TextKept` of `InputLines` without `OfComments` and `<<"off", "word", ";", "word", ";">>` as a first line |
| `code_io.c:486` | `had_eof` is set while `save_com` is still read: its comment is torn | `TextKept` of `InputLines` without `BetweenStatements(EOS)` |

Read in the code and not modelled: the number of a backup is read into an int, of however many digits (`backup.c:222`);
`need_chars()` rounds down to a kilobyte (`handletoken.c:88`); `CHECK_COM_SIZE` leaves pointers into the old buffer after `xrealloc()`
(`comments.c:35`); `read_string()` writes one character past `buff` (`args.c:1091`).

## Plan

Done, in this order: `ParseStack`, `FileRun`, `BraceSearch` with `TokenStream`, `Conditional`, each with its proof; `OutputLine` with `LineBreaks`; `Comments`; `Options`;
`Nesting` with its proof; `InputLines`; the refinement of `TokenStream`, `SuccessMeansWritten`, the text of comments, its words, the width of their lines and how they are filled, all four properties of `OutputLine`, the three of `Options` and the three of `InputLines` as theorems. Left:

1. Procedures on a line of their own and the blank lines around them (`-psl`, `-bap`, `-bbb`).
2. The composition of `Nesting` and `OutputLine`: the columns in `paren_indents` over more than one statement.

## Not modelled

Of the 42600 lines of C in the repository about 12900 are the program (`src/src/`). The rest is the
gettext library of the GNU project (`src/intl/`), the inputs and expected outputs of the regression tests
(`src/regression/`, C sources that are never built), and tools for them: code of other projects or no
behaviour of indent, so the modules cannot come near to covering the lines of the repository. The definitions stand for about half of the lines of the program. Of the program itself are left out: `gperf.c`
and `gperf-cc.c`, which are generated; `wildexp.c`, which is not built on systems with a shell; the character classes of
`lexi()`, a pure function that the tests reach; the large tables of `args.c`; modification times; message catalogues.
`PROJECT.json` says why for each component.

## Running it

    tlc -workers 2 -config MCParseStack.cfg MCParseStack
    tlapm Parser_proofs.tla
