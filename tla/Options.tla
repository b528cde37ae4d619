------------------------------ MODULE Options -------------------------------
(***************************************************************************)
(* What main() does before it opens a file: the defaults, the profile      *)
(* (set_profile() and scan_profile() of src/src/args.c) and the command    *)
(* line (process_args() of src/src/indent.c), both of which hand their     *)
(* words to set_option().                                                  *)
(*                                                                         *)
(* A word is its prefix, the name after it, and the number that follows    *)
(* the name or, for a plain word, that it is.  `pro' is the part of the    *)
(* option table that has an entry of every type, in the order of the       *)
(* source.  Comments of the profile, and addkey(), are left out.           *)
(***************************************************************************)
EXTENDS CommandLine, Integers, Sequences, FiniteSets, SequencesExt

CONSTANTS
  Environments,      \* the profiles there are, by place
  ArgumentLists      \* argv

NoValue == -1        \* nothing follows the name
NoNumber == -2       \* something that is no number does
Nameless == ""

NoWord == [prefix |-> "", name |-> Nameless, value |-> NoValue]
Word == {w \in [prefix : {"", "-", "--", "+"}, name : STRING, value : Int] :
           w # NoWord /\ w.name # NoName}
Option(name) == [prefix |-> "-", name |-> name, value |-> NoValue]
Set(name, n) == [prefix |-> "-", name |-> name, value |-> n]
Plain(name) == [prefix |-> "", name |-> name, value |-> NoNumber]

Missing == [there |-> FALSE, readable |-> FALSE, words |-> <<>>]
Unreadable == [there |-> TRUE, readable |-> FALSE, words |-> <<>>]
Profile(words) == [there |-> TRUE, readable |-> TRUE, words |-> words]

ASSUME OptionsAssumption ==
  /\ \A e \in Environments : /\ DOMAIN e = {"INDENT_PROFILE", ".", "HOME"}
                             /\ \A p \in DOMAIN e : e[p].words \in Seq(Word)
  /\ ArgumentLists \subseteq Seq(Word)

Flag(name, special, default, obj, explicit) ==
  [p_name |-> name, p_type |-> "BOOL", p_default |-> default, p_special |-> special,
   p_obj |-> obj, p_explicit |-> explicit, members |-> <<>>]
Number(name, default, obj) ==
  [p_name |-> name, p_type |-> "INT", p_default |-> default, p_special |-> "NA",
   p_obj |-> obj, p_explicit |-> name, members |-> <<>>]
Other(name, type, members) ==
  [p_name |-> name, p_type |-> type, p_default |-> 0, p_special |-> "NA",
   p_obj |-> Nameless, p_explicit |-> name, members |-> members]

KR == <<Option("br"), Set("i", 4), Set("ip", 0), Set("l", 75)>>
GNU == <<Option("bl"), Set("i", 2), Set("ip", 5)>>

pro == <<
  Other("version", "PRSTRING", <<>>),
  Flag("st", "ON", 0, "use_stdout", "st"),
  Flag("o", "ON", 0, "expect_output_file", "o"),
  Other("npro", "IGN", <<>>),
  Other("nip", "SETTINGS", <<Set("ip", 0)>>),
  Flag("nbfda", "OFF", 0, "break_function_decl_args", "bfda"),
  Flag("nbfde", "OFF", 0, "break_function_decl_args_end", "bfde"),
  Number("lc", 78, "comment_max_col"),
  Number("l", 78, "max_col"),
  Other("kr", "SETTINGS", KR),
  Number("ip", 5, "indent_parameters"),
  Number("i", 2, "ind_size"),
  Other("gnu", "SETTINGS", GNU),
  Flag("br", "ON", 0, "btype_2", "bl"),
  Flag("bl", "OFF", 0, "btype_2", "bl"),
  Flag("bfda", "ON", 0, "break_function_decl_args", "bfda"),
  Flag("bfde", "ON", 0, "break_function_decl_args_end", "bfde"),
  Other("T", "KEY", <<>>) >>

option_conversions == <<
  [long_name |-> "output", short_name |-> "o"],
  [long_name |-> "line-length", short_name |-> "l"],
  [long_name |-> "ignore-profile", short_name |-> "npro"],
  [long_name |-> "dont-break-function-decl-args", short_name |-> "nbfda"],
  [long_name |-> "dont-break-function-decl-args-end", short_name |-> "nbfde"],
  [long_name |-> "break-function-decl-args", short_name |-> "bfda"],
  [long_name |-> "break-function-decl-args-end", short_name |-> "bfde"] >>

Objects == {pro[k].p_obj : k \in DOMAIN pro} \ {Nameless}

(* The names of the tables another name begins with.                       *)
Beginnings(name) ==
  CASE name \in {"lc", "lx"} -> {"l"}
    [] name = "ip" -> {"i"}
    [] name = "break-function-decl-args-end" -> {"break-function-decl-args"}
    [] name = "dont-break-function-decl-args-end" -> {"dont-break-function-decl-args"}
    [] OTHER -> {}

VARIABLES
  arguments,          \* argv
  profile,            \* the words of the profile that is read
  words,              \* those not yet read of the profile or of argv
  b0,                 \* the word of the profile waiting for the next one
  settings,
  explicit,           \* the options with *p_explicit # 0
  using_stdin

optionsVars == <<pc, arguments, profile, words, b0, settings, explicit, in_file_names, out_name, using_stdin>>
files == <<in_file_names, out_name, using_stdin>>

OptionsTypeOK ==
  /\ pc \in {"profile", "arguments", "ready", "exited"}
  /\ arguments \in Seq(Word)
  /\ profile \in Seq(Word) /\ words \in Seq(Word) /\ b0 \in Word \cup {NoWord}
  /\ settings \in [Objects -> Int]
  /\ explicit \subseteq {pro[k].p_explicit : k \in DOMAIN pro}
  /\ in_file_names \in Seq(STRING) /\ out_name \in {NoName} \cup STRING /\ using_stdin \in BOOLEAN

-----------------------------------------------------------------------------
(* set_option()                                                            *)

eqin(s1, w) == s1 = w.name \/ s1 \in Beginnings(w.name)

ShortOption(w) == SelectInSeq(pro, LAMBDA e : eqin(e.p_name, w))

LongName(w) == SelectInSeq(option_conversions, LAMBDA o : eqin(o.long_name, w))

LongOption(w) ==
  IF LongName(w) = 0 THEN 0
  ELSE SelectInSeq(pro, LAMBDA e : e.p_name = option_conversions[LongName(w)].short_name)

(* The entry of the table, 0 for an unknown option.                        *)
Entry(w) == CASE w.prefix = "-" -> ShortOption(w)
              [] w.prefix = "" -> 0
              [] OTHER -> LongOption(w)

(* What follows the name that was found.                                   *)
Rest(w) == LET found == IF w.prefix = "-" THEN pro[Entry(w)].p_name
                        ELSE option_conversions[LongName(w)].long_name
           IN  IF found = w.name THEN w.value ELSE NoNumber

Stored(e, value) == IF e.p_type = "INT" THEN value ELSE IF e.p_special = "OFF" THEN 0 ELSE 1

(* As written by one who does not look at the flags.                       *)
BundledOver(e, given, explicitly) ==
  LET bundled[n \in 0..Len(e.members)] ==
        IF n = 0 THEN given
        ELSE LET w == e.members[n]
                 m == pro[ShortOption(w)]
             IN  [bundled[n - 1] EXCEPT ![m.p_obj] = Stored(m, w.value)]
  IN  bundled[Len(e.members)]

(* A bundle sets what has not been set explicitly.                         *)
BundledTo(e, given, explicitly) ==
  LET bundled[n \in 0..Len(e.members)] ==
        IF n = 0 THEN given
        ELSE LET w == e.members[n]
                 m == pro[ShortOption(w)]
             IN  IF m.p_explicit \in explicitly THEN bundled[n - 1]
                 ELSE [bundled[n - 1] EXCEPT ![m.p_obj] = Stored(m, w.value)]
  IN  bundled
Bundled(e, given, explicitly) == BundledTo(e, given, explicitly)[Len(e.members)]

(* As written by one who gives each option a flag of its own.              *)
MarkedByName(e) == explicit \cup {e.p_name}

(* The options that set and reset a variable share the flag.               *)
Marked(e) == explicit \cup {e.p_explicit}

TakesParameter(w) == pro[Entry(w)].p_type \in {"INT", "KEY"} /\ Rest(w) = NoValue

Value(w, param) == IF ~TakesParameter(w) THEN Rest(w)
                   ELSE IF param.prefix = "" THEN param.value ELSE NoNumber

DieError(w, param) ==
  \/ Entry(w) = 0
  \/ pro[Entry(w)].p_type = "PRSTRING"
  \/ (TakesParameter(w) /\ param = NoWord)
  \/ (pro[Entry(w)].p_type = "INT" /\ Value(w, param) < 0)

(* set_option (w, param, 1, ...), for a word it does not die of            *)
set_option(w, param) ==
  LET e == pro[Entry(w)] IN
      /\ explicit' = Marked(e)
      /\ settings' = CASE e.p_type = "SETTINGS" -> Bundled(e, settings, Marked(e))
                       [] e.p_type \in {"BOOL", "INT"} ->
                            [settings EXCEPT ![e.p_obj] = Stored(e, Value(w, param))]
                       [] OTHER -> settings

Die == /\ pc' = "exited"
       /\ UNCHANGED <<arguments, profile, words, b0, settings, explicit, files>>

-----------------------------------------------------------------------------
(* The defaults and the profile                                            *)

Default(obj) ==
  LET entries == {k \in DOMAIN pro : /\ pro[k].p_obj = obj
                                     /\ pro[k].p_type = "INT" \/ pro[k].p_special = "ON"}
  IN  pro[Max(entries)].p_default

IgnoreProfile == {Option("npro"), [prefix |-> "--", name |-> "ignore-profile", value |-> NoValue],
                  [prefix |-> "+", name |-> "ignore-profile", value |-> NoValue]}

(* The file set_profile() reads: it dies when INDENT_PROFILE names none.   *)
set_profile(e) == IF e["INDENT_PROFILE"].there THEN e["INDENT_PROFILE"]
                  ELSE IF e["."].readable THEN e["."] ELSE e["HOME"]

OptionsInit ==
  \E e \in Environments, a \in ArgumentLists :
    LET ignored == \E k \in DOMAIN a : a[k] \in IgnoreProfile
        found == set_profile(e)
    IN  /\ arguments = a
        /\ profile = IF ignored THEN <<>> ELSE found.words
        /\ pc = IF ~ignored /\ found = Unreadable /\ e["INDENT_PROFILE"].there THEN "exited" ELSE "profile"
        /\ words = profile /\ b0 = NoWord
        /\ settings = [obj \in Objects |-> Default(obj)] /\ explicit = {}
        /\ in_file_names = <<>> /\ out_name = NoName /\ using_stdin = FALSE

(* The first of the two buffers of scan_profile() is filled.               *)
ScanFirst == /\ pc = "profile" /\ words # <<>> /\ b0 = NoWord
             /\ b0' = Head(words) /\ words' = Tail(words)
             /\ UNCHANGED <<pc, arguments, profile, settings, explicit, files>>

(* The second is: the first may be an option with the second as parameter. *)
ScanNext == /\ pc = "profile" /\ words # <<>> /\ b0 # NoWord
            /\ IF DieError(b0, Head(words)) THEN Die
               ELSE /\ set_option(b0, Head(words))
                    /\ b0' = IF TakesParameter(b0) THEN NoWord ELSE Head(words)
                    /\ words' = Tail(words)
                    /\ UNCHANGED <<pc, arguments, profile, files>>

(* As written by one who forgets that the second buffer is still to go.    *)
ScanEndEarly == /\ pc = "profile" /\ words = <<>>
                /\ pc' = "arguments" /\ words' = arguments
                /\ b0' = NoWord
                /\ UNCHANGED <<arguments, profile, settings, explicit, files>>

(* The file has ended, and main() goes on with process_args().             *)
ScanEnd == /\ pc = "profile" /\ words = <<>>
           /\ IF b0 # NoWord /\ DieError(b0, NoWord) THEN Die
              ELSE /\ pc' = "arguments" /\ words' = arguments
                   /\ IF b0 = NoWord THEN UNCHANGED <<settings, explicit>> ELSE set_option(b0, NoWord)
                   /\ b0' = NoWord
                   /\ UNCHANGED <<arguments, profile, files>>

-----------------------------------------------------------------------------
(* process_args()                                                          *)

Argument == pc = "arguments" /\ words # <<>>

IsOption(w) == w.prefix # "" /\ w.name # Nameless

OutputName ==
  /\ Argument /\ Head(words).prefix = "" /\ settings["expect_output_file"] = 1
  /\ IF out_name # NoName \/ Len(in_file_names) > 1 THEN Die
     ELSE /\ out_name' = Head(words).name
          /\ settings' = [settings EXCEPT !["expect_output_file"] = 0]
          /\ words' = Tail(words)
          /\ UNCHANGED <<pc, arguments, profile, b0, explicit, in_file_names, using_stdin>>

(* As written by one who counts the file after the tests.                  *)
InputNameUncounted ==
  /\ Argument /\ Head(words).prefix = "" /\ settings["expect_output_file"] = 0
  /\ IF using_stdin \/ (Len(in_file_names) > 1 /\ (out_name # NoName \/ settings["use_stdout"] = 1)) THEN Die
     ELSE /\ in_file_names' = Append(in_file_names, Head(words).name)
          /\ words' = Tail(words)
          /\ UNCHANGED <<pc, arguments, profile, b0, settings, explicit, out_name, using_stdin>>

InputName ==
  /\ Argument /\ Head(words).prefix = "" /\ settings["expect_output_file"] = 0
  /\ IF using_stdin \/ (in_file_names # <<>> /\ (out_name # NoName \/ settings["use_stdout"] = 1)) THEN Die
     ELSE /\ in_file_names' = Append(in_file_names, Head(words).name)
          /\ words' = Tail(words)
          /\ UNCHANGED <<pc, arguments, profile, b0, settings, explicit, out_name, using_stdin>>

StandardInput ==
  /\ Argument /\ Head(words) = Option(Nameless)
  /\ IF in_file_names # <<>> THEN Die
     ELSE /\ using_stdin' = TRUE /\ words' = Tail(words)
          /\ UNCHANGED <<pc, arguments, profile, b0, settings, explicit, in_file_names, out_name>>

(* Every option, with the next argument as its possible parameter.         *)
OptionArgument ==
  /\ Argument /\ IsOption(Head(words))
  /\ LET param == IF Len(words) > 1 THEN words[2] ELSE NoWord
     IN  IF DieError(Head(words), param) THEN Die
         ELSE /\ set_option(Head(words), param)
              /\ words' = IF TakesParameter(Head(words)) THEN Tail(Tail(words)) ELSE Tail(words)
              /\ UNCHANGED <<pc, arguments, profile, b0, files>>

(* set_defaults_after(), and indent_all() starts.                          *)
Ready ==
  /\ pc = "arguments" /\ words = <<>>
  /\ pc' = "ready"
  /\ settings' = IF "lc" \in explicit THEN settings
                 ELSE [settings EXCEPT !["comment_max_col"] = settings["max_col"]]
  /\ UNCHANGED <<arguments, profile, words, b0, explicit, files>>

OptionsNext == ScanFirst \/ ScanNext \/ ScanEnd \/ OutputName \/ InputName \/ StandardInput \/ OptionArgument \/ Ready

OptionsSpec == OptionsInit /\ [][OptionsNext]_optionsVars

-----------------------------------------------------------------------------
(* What the manual says a list of words means, read from left to right.    *)

Documented(w) == SelectInSeq(pro, LAMBDA e :
                   \/ (w.prefix = "-" /\ e.p_name = w.name)
                   \/ \E k \in DOMAIN option_conversions : /\ w.prefix \in {"--", "+"}
                                                           /\ option_conversions[k].long_name = w.name
                                                           /\ option_conversions[k].short_name = e.p_name)

NeedsValue(w) == pro[Documented(w)].p_type \in {"INT", "KEY"} /\ w.value = NoValue

(* The options among the words, each with its value, and the plain words.  *)
ReadWord(r, w) ==
  IF r.open
  THEN [r EXCEPT !.open = FALSE, !.given[Len(r.given)].value = w.value]
  ELSE IF IsOption(w)
       THEN [r EXCEPT !.open = NeedsValue(w),
                      !.given = Append(@, [option |-> Documented(w), value |-> w.value])]
       ELSE IF w.prefix = "" THEN [r EXCEPT !.plain = Append(@, w.name)] ELSE r

ReadingTo(list) ==
  LET reading[n \in 0..Len(list)] ==
        IF n = 0 THEN [open |-> FALSE, given |-> <<>>, plain |-> <<>>]
        ELSE ReadWord(reading[n - 1], list[n])
  IN  reading
Reading(list) == ReadingTo(list)[Len(list)]

Given == Reading(profile).given \o Reading(arguments).given

(* -nip is no style: it "is equivalent to -ip0" (indent.texi).             *)
IsNip(g) == pro[g.option].p_name = "nip"

Explicitly(given, obj) ==
  {k \in DOMAIN given : \/ pro[given[k].option].p_obj = obj
                        \/ obj = "indent_parameters" /\ IsNip(given[k])}

ExplicitValue(g) == IF IsNip(g) THEN 0 ELSE Stored(pro[g.option], g.value)

Sets(w, obj) == pro[Documented(w)].p_obj = obj

Background(given, obj) ==
  {k \in DOMAIN given : ~IsNip(given[k]) /\ \E m \in Range(pro[given[k].option].members) : Sets(m, obj)}

Meant(given, obj) ==
  IF Explicitly(given, obj) # {}
  THEN ExplicitValue(given[Max(Explicitly(given, obj))])
  ELSE IF Background(given, obj) # {}
  THEN LET style == pro[given[Max(Background(given, obj))].option].members
           m == CHOOSE w \in Range(style) : Sets(w, obj)
       IN  Stored(pro[Documented(m)], m.value)
  ELSE Default(obj)

(* The table has -nip as a style: it does not undo an -ip, and a style     *)
(* that comes later undoes it.                                             *)
NipHeeded(given) ==
  LET named == Explicitly(given, "indent_parameters")
  IN  named # {} /\ IsNip(given[Max(named)]) =>
        /\ \A k \in named : IsNip(given[k])
        /\ \A k \in Background(given, "indent_parameters") : k < Max(named)

(* Whatever the order and the mixture of options, styles and profile, a    *)
(* setting ends with the value of the last option that names it, else with *)
(* that of the last style, else with its default; the comment margin       *)
(* without -lc is the line length that results (set_option, scan_profile). *)
(* Excepted is the indentation of parameters where -nip is not heeded.     *)
LaterWins ==
  pc = "ready" =>
    LET given == Given
        margin == IF Explicitly(given, "comment_max_col") = {} THEN "max_col" ELSE "comment_max_col"
    IN  /\ \A obj \in Objects \ {"expect_output_file", "comment_max_col"} :
             (obj = "indent_parameters" => NipHeeded(given)) => settings[obj] = Meant(given, obj)
        /\ settings["comment_max_col"] = Meant(given, margin)

(* -nip means -ip0, also after -ip3 (indent.texi).  Does not hold.         *)
NipIsIp0 == pc = "ready" => settings["indent_parameters"] = Meant(Given, "indent_parameters")

(* When the files are opened every plain word of the command line that is  *)
(* not a parameter has become one input or the output, in the order given; *)
(* an output file goes with at most one input, and no input with the       *)
(* standard input (process_args).                                          *)
FilesNamed ==
  pc = "ready" =>
    LET plain == Reading(arguments).plain
    IN  /\ \/ out_name = NoName /\ in_file_names = plain
           \/ out_name # NoName /\ \E k \in DOMAIN plain : /\ plain[k] = out_name
                                                           /\ in_file_names = RemoveAt(plain, k)
        /\ out_name # NoName => Len(in_file_names) <= 1
        /\ using_stdin => in_file_names = <<>>

(* The standard output is asked for only with one input file: several      *)
(* files would be formatted in place (indent_multiple_files).  Does not     *)
(* hold when -st comes after the names.                                    *)
StdoutAlone == pc = "ready" /\ settings["use_stdout"] = 1 => Len(in_file_names) <= 1

(* Each long option of the table can be chosen by its name (set_option).   *)
(* Does not hold: a shorter name that stands before it in the table wins,  *)
(* for the two names that end in "-decl-args-end".                         *)
LongNameFound ==
  pc = "ready" => settings["break_function_decl_args_end"] = Meant(Given, "break_function_decl_args_end")
=============================================================================
