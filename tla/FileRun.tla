------------------------------ MODULE FileRun ------------------------------
(***************************************************************************)
(* One run of indent over the files of its command line (src/src/indent.c  *)
(* from indent_multiple_files on, backup.c, read_file() of code_io.c and   *)
(* the output file of output.c).                                           *)
(*                                                                         *)
(* A file that is indented in place is read as a whole, copied to its      *)
(* backup, truncated and written again.  The process may be killed between *)
(* any two of these steps, a system call may fail, and what stdio writes   *)
(* may get lost on a full disk: Faults says which of these a run meets.    *)
(*                                                                         *)
(* The content of a file is abstracted to the file whose text it is, how   *)
(* much of the text it is, and whether it was indented.                    *)
(***************************************************************************)
EXTENDS CommandLine, Integers, Sequences, FiniteSets

CONSTANTS
  Names,            \* file names
  Inputs,           \* those that may be on a command line
  CommandLines,     \* sequences of input names
  OutNames,         \* what -o may name, NoName included
  SimpleName,       \* [Inputs -> Names]: the name with the suffix
  NumberedName,     \* [Inputs -> [1..MaxVersion -> Names]]
  Unlisted,         \* the inputs whose directory opendir() does not open: it may
                    \* not be read, or it is the root, whose name is cut to ""
  MaxVersion,       \* bound: the highest version of a run
  Size,             \* the length of every text
  Modes,            \* values of VERSION_CONTROL
  Faults            \* subset of {"crash", "io_error", "short_read", "disk_full"}

ASSUME NamesAssumption ==
  /\ Inputs \subseteq Names /\ NoName \notin Names
  /\ CommandLines \subseteq Seq(Inputs) /\ \A line \in CommandLines : Len(line) > 0
  /\ OutNames \subseteq Names \cup {NoName}
  /\ SimpleName \in [Inputs -> Names]
  /\ NumberedName \in [Inputs -> [1..MaxVersion -> Names]]
  /\ Unlisted \subseteq Inputs
\* A suffix makes a new name, and different names of different ones.  The name with
\* a number is taken for a simple backup of no input, as "x.~1" would make it.
ASSUME SuffixAssumption ==
  /\ \A f \in Inputs : SimpleName[f] # f
  /\ \A f, g \in Inputs : f # g => SimpleName[f] # SimpleName[g]
  /\ \A f, g \in Inputs, n \in 1..MaxVersion : NumberedName[f][n] # SimpleName[g]
  /\ \A f \in Inputs, n \in 1..MaxVersion : NumberedName[f][n] # f
  /\ \A f, g \in Inputs, m, n \in 1..MaxVersion : f # g => NumberedName[f][m] # NumberedName[g][n]
ASSUME NumbersAssumption == MaxVersion \in Nat \ {0} /\ Size \in Nat \ {0}
ASSUME ModesAssumption == Modes \subseteq {"none", "simple", "numbered_existing", "numbered"}

total_success == 0
indent_error == 2
indent_fatal == 4

Text == [of : Names, form : {"source", "indented"}, part : 0..Size]
Absent == [of |-> NoName, form |-> "absent", part |-> 0]
Source(f) == [of |-> f, form |-> "source", part |-> Size]

VARIABLES
  disk,             \* name -> content
  use_stdout, version_control,
  i,                \* the file being indented
  current_input,    \* what was read of it
  size_to_read, size,
  backup_name,
  written,          \* how much of current_input was formatted
  exit_status,
  error_seen        \* history: some file was formatted with an error

line == <<in_file_names, out_name, use_stdout, version_control>>
input == <<current_input, size_to_read, size>>
result == <<exit_status, error_seen>>
vars == <<disk, line, i, pc, input, backup_name, written, result>>

TypeOK ==
  /\ disk \in [Names -> Text \cup {Absent}]
  /\ in_file_names \in CommandLines
  /\ out_name \in OutNames /\ use_stdout \in BOOLEAN /\ version_control \in Modes
  /\ i \in 1..Len(in_file_names)
  /\ pc \in {"open_input", "reading", "open_output", "backup", "backup_write", "backup_close",
             "trunc", "indent", "close", "exited", "killed"}
  /\ current_input \in Text \cup {Absent}
  /\ size_to_read \in 0..Size /\ size \in 0..Size
  /\ backup_name \in Names \cup {NoName}
  /\ written \in 0..Size
  /\ exit_status \in {total_success, indent_error, indent_fatal}
  /\ error_seen \in BOOLEAN

in_name == in_file_names[i]
Multiple == Len(in_file_names) > 1
InPlace == Multiple \/ (~use_stdout /\ out_name = NoName)

\* Where the output goes; NoName is standard output.
Target == IF Multiple THEN in_name
          ELSE IF use_stdout THEN NoName
          ELSE IF out_name = NoName THEN in_name ELSE out_name

\* The numbered backups of a file, and the latest.
Versions(f) == {n \in 1..MaxVersion : disk[NumberedName[f][n]] # Absent}

\* The result of an opendir() that fails is the same as of a directory without backups.
highest_version(f) ==
  IF f \in Unlisted \/ Versions(f) = {} THEN 0
  ELSE CHOOSE n \in Versions(f) : \A other \in Versions(f) : other <= n

\* -o is refused with more than one file (FilesNamed of Options), -st is not when it comes
\* after them; the files exist.
Init ==
  /\ in_file_names \in CommandLines
  /\ use_stdout \in BOOLEAN /\ out_name \in OutNames
  /\ Multiple => out_name = NoName
  /\ version_control \in Modes
  /\ \E old \in SUBSET Names :
       disk = [n \in Names |-> IF n \in old THEN Source(n) ELSE Absent]
  /\ \A k \in DOMAIN in_file_names : disk[in_file_names[k]] # Absent
  /\ \A f \in Inputs : highest_version(f) + Len(in_file_names) <= MaxVersion
  /\ i = 1 /\ pc = "open_input"
  /\ current_input = Absent /\ size_to_read = 0 /\ size = 0
  /\ backup_name = NoName /\ written = 0
  /\ exit_status = total_success /\ error_seen = FALSE

-----------------------------------------------------------------------------
\* fatal(): a message, and the whole run ends.
Fatal == /\ pc' = "exited" /\ exit_status' = indent_fatal
         /\ UNCHANGED <<disk, line, i, input, backup_name, written, error_seen>>

\* open(), read(), fopen(), fwrite() or fclose() reports an error.
CallFails == /\ "io_error" \in Faults
             /\ \/ pc \in {"open_input", "reading", "open_output", "backup_write"}
                \/ pc = "backup" /\ version_control # "none"
                \/ pc = "trunc" /\ ~Multiple /\ Target # NoName
                \/ pc = "close" /\ Target # NoName
             /\ Fatal

\* fill_buffer() meets a NUL character.
NulCharacter == pc = "indent" /\ Fatal

\* The process is killed; a freopen() that fails leaves it no stream to write to.
Killed == /\ "crash" \in Faults /\ pc \notin {"exited", "killed"}
          /\ pc' = "killed"
          /\ UNCHANGED <<disk, line, i, input, backup_name, written, result>>

\* open() and fstat().
OpenInput == /\ pc = "open_input" /\ disk[in_name] # Absent
             /\ current_input' = disk[in_name]
             /\ size_to_read' = disk[in_name].part /\ size' = 0
             /\ pc' = "reading"
             /\ UNCHANGED <<disk, line, i, backup_name, written, result>>

\* One read() of the loop of read_file(); EINTR only repeats it.
Read == /\ pc = "reading" /\ size_to_read > 0
        /\ \E k \in IF "short_read" \in Faults THEN 1..size_to_read ELSE {size_to_read} :
             size' = k /\ size_to_read' = size_to_read - k
        /\ UNCHANGED <<disk, line, i, pc, current_input, backup_name, written, result>>

\* After the loop: a size below that of the file is taken for its true length.
ReadDone == /\ pc = "reading" /\ size_to_read = 0
            /\ current_input' = [current_input EXCEPT !.part = IF size < @ THEN size ELSE @]
            /\ pc' = IF Multiple THEN "open_output" ELSE IF InPlace THEN "backup" ELSE "trunc"
            /\ UNCHANGED <<disk, line, i, size_to_read, size, backup_name, written, result>>

\* Mutant: the file is truncated first.
OpenOutputTruncating == /\ pc = "open_output"
                        /\ pc' = "trunc"
                        /\ UNCHANGED <<disk, line, i, input, backup_name, written, result>>

\* Several files: the file must be writable before anything is done to it.
OpenOutput == /\ pc = "open_output"
              /\ pc' = "backup"
              /\ UNCHANGED <<disk, line, i, input, backup_name, written, result>>

-----------------------------------------------------------------------------
(* make_backup().                                                          *)

\* Mutant: the highest version is used again.
BackupNameAgain(f) ==
  IF version_control = "simple" \/ (version_control = "numbered_existing" /\ highest_version(f) = 0)
    THEN SimpleName[f]
    ELSE NumberedName[f][IF highest_version(f) = 0 THEN 1 ELSE highest_version(f)]

generate_backup_filename(f) ==
  IF version_control = "simple" \/ (version_control = "numbered_existing" /\ highest_version(f) = 0)
    THEN SimpleName[f]
    ELSE NumberedName[f][highest_version(f) + 1]

\* fopen(backup_filename, "w").
BackupOpen == /\ pc = "backup" /\ version_control # "none"
              /\ version_control # "simple" => highest_version(in_name) < MaxVersion
              /\ backup_name' = generate_backup_filename(in_name)
              /\ disk' = [disk EXCEPT ![backup_name'] = [current_input EXCEPT !.part = 0]]
              /\ pc' = "backup_write"
              /\ UNCHANGED <<line, i, input, written, result>>

BackupNone == /\ pc = "backup" /\ version_control = "none"
              /\ pc' = "trunc"
              /\ UNCHANGED <<disk, line, i, input, backup_name, written, result>>

\* fwrite(): the text is in the buffer of the stream.
BackupWrite == /\ pc = "backup_write"
               /\ pc' = "backup_close"
               /\ UNCHANGED <<disk, line, i, input, backup_name, written, result>>

\* Mutant: the file is truncated before its backup is on the disk.
BackupCloseUnflushed ==
  /\ pc = "backup_close"
  /\ pc' = "trunc"
  /\ UNCHANGED <<disk, line, i, input, backup_name, written, result>>

\* fclose() writes it to the disk; its result is not looked at.
BackupClose ==
  /\ pc = "backup_close"
  /\ \E k \in IF "disk_full" \in Faults THEN 0..current_input.part ELSE {current_input.part} :
       disk' = [disk EXCEPT ![backup_name] = [current_input EXCEPT !.part = k]]
  /\ pc' = "trunc"
  /\ UNCHANGED <<line, i, input, backup_name, written, result>>

-----------------------------------------------------------------------------
(* The output.                                                             *)

\* freopen() or fopen() in mode "w", or standard output; then reset_parser().
Truncate == /\ pc = "trunc"
            /\ disk' = IF Target = NoName THEN disk
                       ELSE [disk EXCEPT ![Target] = [current_input EXCEPT !.form = "indented", !.part = 0]]
            /\ written' = 0
            /\ pc' = "indent"
            /\ UNCHANGED <<line, i, input, backup_name, result>>

\* Mutant: one piece too many.
FormatPastEnd ==
  /\ pc = "indent" /\ written <= current_input.part
  /\ written' = written + 1
  /\ IF Target = NoName THEN UNCHANGED disk
     ELSE \E k \in IF "disk_full" \in Faults THEN {0, 1} ELSE {1} :
            disk' = [disk EXCEPT ![Target].part = @ + k]
  /\ UNCHANGED <<line, i, pc, input, backup_name, result>>

\* indent() formats a piece, and stdio writes it out, when it can.
Format ==
  /\ pc = "indent" /\ written < current_input.part
  /\ written' = written + 1
  /\ IF Target = NoName THEN UNCHANGED disk
     ELSE \E k \in IF "disk_full" \in Faults THEN {0, 1} ELSE {1} :
            disk' = [disk EXCEPT ![Target].part = @ + k]
  /\ UNCHANGED <<line, i, pc, input, backup_name, result>>

\* Mutant: the status of the last file is the status of the run.
IndentReturnsLast ==
  /\ pc = "indent" /\ written = current_input.part
  /\ \E status \in {total_success, indent_error} :
       /\ exit_status' = status
       /\ error_seen' = (error_seen \/ status # total_success)
  /\ pc' = "close"
  /\ UNCHANGED <<disk, line, i, input, backup_name, written>>

\* indent() has flushed the stream, and returns; the worst status is kept.
IndentReturns ==
  /\ pc = "indent" /\ written = current_input.part
  /\ \E status \in {total_success, indent_error} :
       /\ exit_status' = IF status > exit_status THEN status ELSE exit_status
       /\ error_seen' = (error_seen \/ status # total_success)
  /\ pc' = "close"
  /\ UNCHANGED <<disk, line, i, input, backup_name, written>>

\* close_output(), and the next file or the end.
CloseOutput ==
  /\ pc = "close"
  /\ IF i < Len(in_file_names) THEN i' = i + 1 /\ pc' = "open_input"
                               ELSE pc' = "exited" /\ UNCHANGED i
  /\ backup_name' = NoName
  /\ UNCHANGED <<disk, line, input, written, result>>

Work == \/ OpenInput \/ Read \/ ReadDone \/ OpenOutput
        \/ BackupOpen \/ BackupNone \/ BackupWrite \/ BackupClose
        \/ Truncate \/ Format \/ IndentReturns \/ CloseOutput

Next == Work \/ CallFails \/ NulCharacter \/ Killed

Spec == Init /\ [][Next]_vars

-----------------------------------------------------------------------------
(* Properties.                                                             *)

Named == {in_file_names[k] : k \in DOMAIN in_file_names}

\* The name that a backup of f gets whether there is a file of that name or not: the
\* simple one, and the first number when the directory cannot be listed.
Blind(f) == CASE version_control = "none"     -> {}
              [] version_control = "numbered" -> IF f \in Unlisted THEN {NumberedName[f][1]} ELSE {}
              [] OTHER                        -> {SimpleName[f]}

\* The numbered backups of a listed directory never meet each other.  A file whose
\* backup has one name only must not be named twice, nor together with its backup.
Safe == /\ version_control # "none"
        /\ \A f \in Named : Blind(f) \cap Named = {}
        /\ \A k, l \in DOMAIN in_file_names :
             in_file_names[k] = in_file_names[l] /\ Blind(in_file_names[k]) # {} => k = l

\* "makes a backup copy of each file": wherever the process is killed or gives up,
\* the text that a file had before the run is whole, in the file or in a backup.
OriginalKept ==
  InPlace /\ Safe => \A f \in Named : \E n \in Names : disk[n] = Source(f)

\* The same for every command line, as the manual says it.  Does not hold: a file
\* named together with its own simple backup overwrites it.
EachFileHasBackup ==
  InPlace /\ version_control # "none" => \A f \in Named : \E n \in Names : disk[n] = Source(f)

\* "We have safely made a backup so the open file can be truncated": from the
\* truncation on, the backup is what was read of the file.
SafelyMadeABackup ==
  InPlace /\ version_control # "none" /\ pc \in {"trunc", "indent", "close"}
    => disk[backup_name] = current_input

\* A file whose turn has not come, or whose backup is not made yet, is as it was
\* before the run.
LaterFilesUntouched ==
  Safe => \A k \in i..Len(in_file_names) :
    (k = i => pc \notin {"indent", "close", "exited", "killed"})
      => \/ disk[in_file_names[k]] = Source(in_file_names[k])
         \/ \E l \in 1..k - 1 : in_file_names[l] = in_file_names[k]

Outputs == IF Multiple THEN Named ELSE {Target} \ {NoName}

\* No file is named after its own backup: the backup made of the second would be
\* written over the output of the first.
OutputsApart ==
  \A k, l \in DOMAIN in_file_names : k < l => in_file_names[k] \notin Blind(in_file_names[l])

\* "`total_success' means no errors or warnings were found during a successful
\* invocation of the program": every output is there, and whole.  Does not hold with
\* the fault "disk_full": the results of putc() and fflush() are not looked at.
SuccessMeansWritten ==
  pc = "exited" /\ exit_status = total_success =>
    /\ ~error_seen
    /\ OutputsApart => \A n \in Outputs : disk[n].form = "indented" /\ disk[n].part = Size

\* With numbered backups no file is ever overwritten but those of the command line,
\* and the first backup of a file whose directory cannot be listed.
BackupsKept ==
  [][version_control = "numbered" /\ InPlace =>
       \A n \in Names \ Named :
         disk[n] # Absent /\ n # backup_name /\ (\A f \in Named : n \notin Blind(f))
           => disk'[n] = disk[n]]_vars

\* "V is one greater than the highest version currently existing in the directory":
\* the same for every file.  Does not hold: where the directory cannot be listed the
\* next run writes its backup over the first one.
NumberedBackupsKept ==
  [][version_control = "numbered" /\ InPlace =>
       \A n \in Names \ Named : disk[n] # Absent /\ n # backup_name => disk'[n] = disk[n]]_vars
=============================================================================
