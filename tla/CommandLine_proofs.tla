------------------------ MODULE CommandLine_proofs ------------------------
(***************************************************************************)
(* Proofs about the two parts of main() that share the command line.       *)
(*                                                                         *)
(* FileRun, for any names, command lines, backup modes and sizes: under    *)
(* all faults a run touches no file before its turn, and no earlier        *)
(* numbered backup in a directory that can be listed; as long as reads are *)
(* complete and the disk is not full, the text of every file survives the  *)
(* run, wherever it is interrupted, and a run that reports success has     *)
(* written every output as a whole.                                        *)
(*                                                                         *)
(* Options, for any profiles and any lists of words: the settings are what *)
(* the options mean, read from left to right, and every name becomes one   *)
(* file; the names it leaves are some that FileRun starts from.            *)
(***************************************************************************)
EXTENDS Options, FileRun, Lemmas, TLAPS


-----------------------------------------------------------------------------
(* The inductive invariant.                                                *)

Reliable == Faults \cap {"short_read", "disk_full"} = {}

\* The names a backup of file f may get.
Backups(f) == {SimpleName[f]} \cup {NumberedName[f][n] : n \in 1..MaxVersion}

\* read_file() holds a text once the file is open.
ReadIn == pc \notin {"open_input", "exited", "killed"} => current_input \in Text

\* It holds the file, and goes on holding it until it is truncated.
Buffered ==
  /\ pc = "reading" => /\ current_input = disk[in_name]
                       /\ \/ size_to_read = current_input.part /\ size = 0
                          \/ size_to_read = 0 /\ size = current_input.part
  /\ pc \in {"open_output", "backup", "backup_write", "backup_close", "trunc"} /\ InPlace
       => current_input = disk[in_name]

\* The backup being made, or made, of the file being indented.
BackingUp ==
  InPlace /\ version_control # "none" /\ pc \in {"backup_write", "backup_close", "trunc", "indent", "close"}
    => /\ backup_name \in Backups(in_name) /\ backup_name # in_name
       /\ Safe => backup_name \notin Named

BackupState == /\ pc \in {"backup", "backup_write", "backup_close"} => InPlace
               /\ pc \in {"backup_write", "backup_close"} => version_control # "none"
               /\ pc = "open_output" => Multiple

\* What has reached the output is at most what was formatted.
Emitted ==
  pc \in {"indent", "close"} =>
    /\ written <= current_input.part
    /\ Target # NoName => disk[Target] \in Text /\ disk[Target].part <= written

Present == \A f \in Named : disk[f] # Absent

\* The backup that is not complete yet.
Unfinished == IF pc \in {"backup_write", "backup_close"} THEN {backup_name} ELSE {}

Kept ==
  InPlace /\ Safe => \A f \in Named :
    \/ disk[f] = Source(f)
    \/ \E n \in Backups(f) \ (Named \cup Unfinished) : disk[n] = Source(f)

\* What holds under every fault, and what needs the reads and the disk to be reliable.
AnyFault == TypeOK /\ ReadIn /\ BackupState /\ BackingUp /\ Emitted /\ Present
              /\ LaterFilesUntouched

IInv == AnyFault /\ Buffered /\ Kept /\ SafelyMadeABackup

-----------------------------------------------------------------------------
(* Numbered backups.                                                       *)

\* In a directory that is listed the version after the highest one is free.
LEMMA NextVersionIsFree ==
  ASSUME NEW f \in Inputs, f \notin Unlisted, highest_version(f) < MaxVersion
  PROVE  /\ highest_version(f) + 1 \in 1..MaxVersion
         /\ disk[NumberedName[f][highest_version(f) + 1]] = Absent
<1> USE NumbersAssumption
<1>1. Versions(f) \in SUBSET (1..MaxVersion) /\ Versions(f) \in SUBSET (0..MaxVersion)
  BY DEF Versions
<1>2. CASE Versions(f) = {}
  <2>1. highest_version(f) = 0 /\ 1 \in 1..MaxVersion
    BY <1>2 DEF highest_version
  <2> QED BY <1>2, <2>1 DEF Versions
<1>3. CASE Versions(f) # {}
  <2>1. \E n \in Versions(f) : \A other \in Versions(f) : other <= n
    BY <1>1, <1>3, HighestLemma
  <2>2. /\ highest_version(f) \in Versions(f)
        /\ \A other \in Versions(f) : other <= highest_version(f)
    BY <1>3, <2>1 DEF highest_version
  <2>3. highest_version(f) + 1 \notin Versions(f) /\ highest_version(f) + 1 \in 1..MaxVersion
    BY <1>1, <2>2
  <2> QED BY <2>3 DEF Versions
<1> QED BY <1>2, <1>3

\* A name of the command line is an input.
LEMMA LineLemma ==
  ASSUME TypeOK
  PROVE  /\ Len(in_file_names) \in Nat /\ DOMAIN in_file_names = 1..Len(in_file_names)
         /\ in_file_names \in Seq(Inputs)
         /\ \A k \in 1..Len(in_file_names) : in_file_names[k] \in Inputs /\ in_file_names[k] \in Named
         /\ in_name \in Inputs /\ in_name \in Names /\ in_name \in Named /\ Named \subseteq Inputs
         /\ i \in 1..Len(in_file_names)
<1>1. in_file_names \in Seq(Inputs) /\ i \in 1..Len(in_file_names)
  BY NamesAssumption DEF TypeOK
<1>2. DOMAIN in_file_names = 1..Len(in_file_names) /\ Len(in_file_names) \in Nat
  BY <1>1
<1>3. \A k \in 1..Len(in_file_names) : in_file_names[k] \in Inputs
  BY <1>1
<1> QED BY <1>1, <1>2, <1>3, NamesAssumption DEF in_name, Named

LEMMA BackupsLemma == TypeOK => Backups(in_name) \subseteq Names
<1> SUFFICES ASSUME TypeOK PROVE Backups(in_name) \subseteq Names
  OBVIOUS
<1>1. in_name \in Inputs
  BY LineLemma
<1>2. SimpleName[in_name] \in Names /\ NumberedName[in_name] \in [1..MaxVersion -> Names]
  BY <1>1, NamesAssumption
<1> QED BY <1>2 DEF Backups

\* The name make_backup() chooses: not the file's own, free or the simple one, and
\* on a safe command line no name of that line.
LEMMA BackupNameLemma ==
  ASSUME TypeOK, Present, InPlace, version_control # "none",
         version_control # "simple" => highest_version(in_name) < MaxVersion
  PROVE  /\ generate_backup_filename(in_name) \in Names
         /\ generate_backup_filename(in_name) \in Backups(in_name)
         /\ generate_backup_filename(in_name) # in_name
         /\ Safe => generate_backup_filename(in_name) \notin Named
         /\ \/ disk[generate_backup_filename(in_name)] = Absent
            \/ generate_backup_filename(in_name) \in Blind(in_name)
<1> DEFINE bn == generate_backup_filename(in_name)
<1>1. in_name \in Inputs /\ in_name \in Named
  BY LineLemma
<1>2. version_control \in {"none", "simple", "numbered_existing", "numbered"}
  BY ModesAssumption DEF TypeOK
<1>3. CASE version_control = "simple" \/ (version_control = "numbered_existing" /\ highest_version(in_name) = 0)
  <2>1. bn = SimpleName[in_name]
    BY <1>3 DEF generate_backup_filename
  <2>2. bn \in Names /\ bn # in_name
    BY <1>1, <2>1, NamesAssumption, SuffixAssumption
  <2>3. bn \in Blind(in_name)
    BY <1>3, <2>1 DEF Blind
  <2>4. Safe => bn \notin Named
    BY <1>1, <2>3 DEF Safe
  <2> QED BY <2>1, <2>2, <2>3, <2>4 DEF Backups
<1>4. CASE /\ in_name \in Unlisted
           /\ ~(version_control = "simple" \/ (version_control = "numbered_existing" /\ highest_version(in_name) = 0))
  <2>1. highest_version(in_name) = 0 /\ version_control = "numbered" /\ 1 \in 1..MaxVersion
    BY <1>2, <1>4, NumbersAssumption DEF highest_version
  <2>2. bn = NumberedName[in_name][1]
    BY <2>1 DEF generate_backup_filename
  <2>3. bn \in Blind(in_name)
    BY <1>4, <2>1, <2>2 DEF Blind
  <2>4. bn \in Names /\ bn # in_name
    <3>1. NumberedName[in_name] \in [1..MaxVersion -> Names] /\ NumberedName[in_name][1] # in_name
      BY <1>1, <2>1, NamesAssumption, SuffixAssumption
    <3> HIDE DEF bn
    <3> QED BY <2>1, <2>2, <3>1
  <2>5. Safe => bn \notin Named
    BY <1>1, <2>3 DEF Safe
  <2> QED BY <2>1, <2>2, <2>3, <2>4, <2>5 DEF Backups
<1>5. CASE /\ in_name \notin Unlisted
           /\ ~(version_control = "simple" \/ (version_control = "numbered_existing" /\ highest_version(in_name) = 0))
  <2>1. bn = NumberedName[in_name][highest_version(in_name) + 1]
    BY <1>5 DEF generate_backup_filename
  <2>2. highest_version(in_name) + 1 \in 1..MaxVersion /\ disk[bn] = Absent
    BY <1>1, <1>5, <2>1, NextVersionIsFree
  <2>3. bn \in Names
    <3>1. NumberedName[in_name] \in [1..MaxVersion -> Names]
      BY <1>1, NamesAssumption
    <3> HIDE DEF bn
    <3> QED BY <2>1, <2>2, <3>1
  <2>4. bn \notin Named
    BY <2>2 DEF Present
  <2> QED BY <1>1, <2>1, <2>2, <2>3, <2>4 DEF Backups
<1> QED BY <1>3, <1>4, <1>5

-----------------------------------------------------------------------------
(* The types.                                                              *)

LEMMA InitType == Init => TypeOK
<1> SUFFICES ASSUME Init PROVE TypeOK
  OBVIOUS
<1>1. disk \in [Names -> Text \cup {Absent}]
  <2>1. \A n \in Names : Source(n) \in Text
    BY NumbersAssumption DEF Source, Text
  <2> QED BY <2>1 DEF Init
<1>2. 1 \in 1..Len(in_file_names)
  BY NamesAssumption DEF Init
<1>3. use_stdout \in BOOLEAN /\ error_seen \in BOOLEAN
  BY DEF Init
<1>4. in_file_names \in CommandLines /\ out_name \in OutNames /\ version_control \in Modes
  BY DEF Init
<1> QED BY <1>1, <1>2, <1>3, <1>4, NumbersAssumption DEF Init, TypeOK

\* A text is no longer than Size.
LEMMA PartLemma ==
  ASSUME NEW c \in Text
  PROVE  c.part \in 0..Size /\ c.part \in Int
BY NumbersAssumption DEF Text

\* A content cut down, or turned into output, is a content.
LEMMA TextLemma ==
  ASSUME NEW c \in Text, NEW k \in 0..Size
  PROVE  /\ [c EXCEPT !.part = k] \in Text /\ [c EXCEPT !.part = k].part = k
         /\ [c EXCEPT !.form = "indented", !.part = k] \in Text
         /\ [c EXCEPT !.form = "indented", !.part = k].part = k
BY DEF Text

LEMMA TargetLemma ==
  ASSUME TypeOK
  PROVE  /\ Target \in Names \cup {NoName}
         /\ InPlace => Target = in_name
         /\ Multiple => InPlace
BY LineLemma, NamesAssumption DEF TypeOK, Target, InPlace

LEMMA NextType == AnyFault /\ [Next]_vars => TypeOK'
<1> SUFFICES ASSUME AnyFault, [Next]_vars PROVE TypeOK'
  OBVIOUS
<1>0. /\ TypeOK /\ Present /\ ReadIn /\ Emitted /\ BackupState /\ Size \in Nat
      /\ in_name \in Names /\ Target \in Names \cup {NoName} /\ Len(in_file_names) \in Nat
  BY LineLemma, TargetLemma, NumbersAssumption DEF AnyFault
<1>1. CASE CallFails \/ NulCharacter \/ Killed
  BY <1>0, <1>1 DEF CallFails, NulCharacter, Killed, Fatal, TypeOK, line, input, result
<1>2. CASE OpenInput
  <2>1. disk[in_name] \in Text
    BY <1>0, <1>2 DEF OpenInput, TypeOK
  <2>2. disk[in_name].part \in 0..Size
    BY <2>1, PartLemma
  <2> QED BY <1>0, <1>2, <2>1, <2>2 DEF OpenInput, TypeOK, line, input, result
<1>3. CASE Read
  <2>1. PICK k \in 0..size_to_read : size' = k /\ size_to_read' = size_to_read - k
    BY <1>0, <1>3 DEF Read, TypeOK
  <2> QED BY <1>0, <1>3, <2>1 DEF Read, TypeOK, line, result
<1>4. CASE ReadDone
  <2>1. current_input \in Text /\ size \in 0..Size
    BY <1>0, <1>4 DEF ReadDone, ReadIn, TypeOK
  <2>2. current_input.part \in 0..Size
    BY <2>1, PartLemma
  <2>3. (IF size < current_input.part THEN size ELSE current_input.part) \in 0..Size
    BY <2>1, <2>2
  <2>4. current_input' \in Text
    BY <1>0, <1>4, <2>1, <2>3, TextLemma DEF ReadDone
  <2> QED BY <1>0, <1>4, <2>4 DEF ReadDone, TypeOK, line, result
<1>5. CASE OpenOutput \/ BackupNone \/ BackupWrite
  BY <1>0, <1>5 DEF OpenOutput, BackupNone, BackupWrite, TypeOK, line, input, result
<1>6. CASE BackupOpen
  <2>1. [current_input EXCEPT !.part = 0] \in Text
    <3>1. current_input \in Text /\ 0 \in 0..Size
      BY <1>0, <1>6 DEF BackupOpen, ReadIn
    <3> QED BY <3>1, TextLemma
  <2>2. backup_name' \in Names
    BY <1>0, <1>6, BackupNameLemma DEF BackupOpen, BackupState
  <2> QED BY <1>0, <1>6, <2>1, <2>2 DEF BackupOpen, TypeOK, line, input, result
<1>7. CASE BackupClose
  <2>1. current_input \in Text
    BY <1>0, <1>7 DEF BackupClose, ReadIn
  <2>2. PICK k \in 0..Size : disk' = [disk EXCEPT ![backup_name] = [current_input EXCEPT !.part = k]]
    <3>1. current_input.part \in 0..Size /\ 0..current_input.part \subseteq 0..Size
      BY <1>0, <2>1, PartLemma
    <3> QED BY <1>7, <3>1 DEF BackupClose
  <2>3. [current_input EXCEPT !.part = k] \in Text
    BY <2>1, TextLemma
  <2> QED BY <1>0, <1>7, <2>2, <2>3 DEF BackupClose, TypeOK, line, input, result
<1>8. CASE Truncate
  <2>1. [current_input EXCEPT !.form = "indented", !.part = 0] \in Text
    <3>1. current_input \in Text /\ 0 \in 0..Size
      BY <1>0, <1>8 DEF Truncate, ReadIn
    <3> QED BY <3>1, TextLemma
  <2> QED BY <1>0, <1>8, <2>1 DEF Truncate, TypeOK, line, input, result
<1>9. CASE Format
  <2>1. current_input \in Text /\ current_input.part \in 0..Size /\ written' \in 0..Size
    <3>1. current_input \in Text
      BY <1>0, <1>9 DEF Format, ReadIn
    <3>2. current_input.part \in 0..Size
      BY <3>1, PartLemma
    <3> QED BY <1>0, <1>9, <3>1, <3>2 DEF Format, TypeOK
  <2>2. disk' \in [Names -> Text \cup {Absent}]
    <3>1. CASE Target = NoName
      BY <1>0, <1>9, <3>1 DEF Format, TypeOK
    <3>2. CASE Target # NoName
      <4>1. PICK k \in {0, 1} : disk' = [disk EXCEPT ![Target].part = @ + k]
        BY <1>9, <3>2 DEF Format
      <4>2. disk[Target] \in Text /\ disk[Target].part \in 0..Size /\ disk[Target].part <= written
        BY <1>0, <1>9, <3>2, PartLemma DEF Format, Emitted
      <4>3. disk[Target].part + k \in 0..Size
        BY <1>0, <1>9, <2>1, <4>2 DEF Format, TypeOK
      <4>4. [disk[Target] EXCEPT !.part = disk[Target].part + k] \in Text
        BY <4>2, <4>3, TextLemma
      <4> QED BY <1>0, <4>1, <4>4 DEF TypeOK
    <3> QED BY <3>1, <3>2
  <2> QED BY <1>0, <1>9, <2>1, <2>2 DEF Format, TypeOK, line, input, result
<1>10. CASE IndentReturns
  <2>1. exit_status' \in {total_success, indent_error, indent_fatal} /\ error_seen' \in BOOLEAN
    BY <1>0, <1>10 DEF IndentReturns, TypeOK
  <2> QED BY <1>0, <1>10, <2>1 DEF IndentReturns, TypeOK, line, input
<1>11. CASE CloseOutput
  <2>1. i' \in 1..Len(in_file_names)
    BY <1>0, <1>11 DEF CloseOutput, TypeOK
  <2> QED BY <1>0, <1>11, <2>1 DEF CloseOutput, TypeOK, line, input, result
<1>12. CASE UNCHANGED vars
  BY <1>0, <1>12 DEF vars, TypeOK, line, input, result
<1> QED BY <1>1, <1>2, <1>3, <1>4, <1>5, <1>6, <1>7, <1>8, <1>9, <1>10, <1>11, <1>12
        DEF Next, Work

-----------------------------------------------------------------------------
(* The steps.                                                              *)

\* The command line never changes, and the file only when its output is closed.
LEMMA FrameLemma ==
  ASSUME [Next]_vars
  PROVE  /\ UNCHANGED line
         /\ Named' = Named /\ Multiple' = Multiple /\ InPlace' = InPlace /\ Safe' = Safe
         /\ CloseOutput \/ (i' = i /\ in_name' = in_name /\ Target' = Target)
<1>1. UNCHANGED line /\ (CloseOutput \/ i' = i)
  BY DEF Next, Work, OpenInput, Read, ReadDone, OpenOutput, BackupOpen, BackupNone, BackupWrite,
     BackupClose, Truncate, Format, IndentReturns, CloseOutput, CallFails, NulCharacter, Killed,
     Fatal, vars
<1> QED BY <1>1 DEF line, Named, Multiple, InPlace, Safe, Blind, in_name, Target

\* Steps that leave every file alone.
Quiet == \/ OpenInput \/ Read \/ ReadDone \/ OpenOutput \/ BackupNone \/ BackupWrite
         \/ IndentReturns \/ CloseOutput \/ CallFails \/ NulCharacter \/ Killed \/ UNCHANGED vars

LEMMA QuietLemma ==
  /\ [Next]_vars => Quiet \/ BackupOpen \/ BackupClose \/ Truncate \/ Format
  /\ Quiet => UNCHANGED disk
<1>1. [Next]_vars => Quiet \/ BackupOpen \/ BackupClose \/ Truncate \/ Format
  BY DEF Next, Work, Quiet
<1>2. Quiet => UNCHANGED disk
  BY DEF Quiet, OpenInput, Read, ReadDone, OpenOutput, BackupNone, BackupWrite,
     IndentReturns, CloseOutput, CallFails, NulCharacter, Killed, Fatal, vars
<1> QED BY <1>1, <1>2

LEMMA StateNext == ASSUME AnyFault, [Next]_vars PROVE BackupState'
<1>1. BackupState /\ InPlace' = InPlace /\ Multiple' = Multiple /\ UNCHANGED line
      /\ (Multiple => InPlace)
  BY FrameLemma DEF AnyFault, InPlace
<1> QED BY <1>1 DEF Next, Work, OpenInput, Read, ReadDone, OpenOutput, BackupOpen, BackupNone,
  BackupWrite, BackupClose, Truncate, Format, IndentReturns, CloseOutput, CallFails, NulCharacter,
  Killed, Fatal, vars, BackupState, line

\* The four ways the disk is written to, one name at a time.
LEMMA WritesLemma ==
  ASSUME AnyFault, [Next]_vars
  PROVE  /\ TypeOK /\ in_name \in Names /\ (InPlace => Target = in_name) /\ (Multiple => InPlace)
         /\ BackupOpen => /\ InPlace /\ version_control # "none"
                          /\ backup_name' = generate_backup_filename(in_name)
                          /\ backup_name' \in Names
                          /\ disk' = [disk EXCEPT ![backup_name'] = [current_input EXCEPT !.part = 0]]
         /\ BackupClose => /\ InPlace /\ version_control # "none" /\ backup_name' = backup_name
                           /\ \A n \in Names : n # backup_name => disk'[n] = disk[n]
         /\ Truncate \/ Format => /\ backup_name' = backup_name
                                  /\ \A n \in Names : n # Target => disk'[n] = disk[n]
<1>1. TypeOK /\ Present /\ BackupState /\ in_name \in Names /\ (InPlace => Target = in_name)
      /\ (Multiple => InPlace)
  BY LineLemma, TargetLemma DEF AnyFault
<1>2. BackupOpen => InPlace /\ version_control # "none"
  BY <1>1 DEF BackupOpen, BackupState
<1>3. BackupOpen => backup_name' \in Names /\ backup_name' = generate_backup_filename(in_name)
  BY <1>1, <1>2, BackupNameLemma DEF BackupOpen
<1>4. BackupOpen => disk' = [disk EXCEPT ![backup_name'] = [current_input EXCEPT !.part = 0]]
  BY DEF BackupOpen
<1>5. BackupClose => InPlace /\ version_control # "none" /\ backup_name' = backup_name
  BY <1>1 DEF BackupClose, BackupState
<1>6. BackupClose => \A n \in Names : n # backup_name => disk'[n] = disk[n]
  BY <1>1 DEF BackupClose, TypeOK
<1>7. Truncate \/ Format => backup_name' = backup_name
  BY DEF Truncate, Format
<1>8. Truncate \/ Format => \A n \in Names : n # Target => disk'[n] = disk[n]
  BY <1>1 DEF Truncate, Format, TypeOK
<1> QED BY <1>1, <1>2, <1>3, <1>4, <1>5, <1>6, <1>7, <1>8

LEMMA BackingUpNext == ASSUME AnyFault, [Next]_vars PROVE BackingUp'
<1>1. /\ TypeOK /\ Present /\ BackupState /\ BackingUp /\ UNCHANGED line
      /\ InPlace' = InPlace /\ Named' = Named /\ Safe' = Safe
      /\ CloseOutput \/ in_name' = in_name
  BY FrameLemma DEF AnyFault
<1>2. CASE BackupOpen
  <2>1. /\ backup_name' \in Backups(in_name) /\ backup_name' # in_name /\ in_name' = in_name
        /\ Safe => backup_name' \notin Named
    BY <1>1, <1>2, BackupNameLemma, FrameLemma DEF BackupOpen, BackupState, CloseOutput
  <2> QED BY <1>1, <2>1 DEF BackingUp, Backups
<1>3. CASE CloseOutput
  BY <1>3 DEF CloseOutput, BackingUp
<1>4. CASE Quiet /\ ~CloseOutput
  <2>1. in_name' = in_name /\ UNCHANGED backup_name
        /\ (pc' \in {"backup_write", "backup_close", "trunc", "indent", "close"} =>
              \/ pc \in {"backup_write", "backup_close", "trunc", "indent", "close"}
              \/ version_control = "none" \/ ~InPlace)
    BY <1>1, <1>4 DEF Quiet, OpenInput, Read, ReadDone, OpenOutput, BackupNone, BackupWrite,
       IndentReturns, CallFails, NulCharacter, Killed, Fatal, vars, InPlace
  <2> QED BY <1>1, <2>1 DEF BackingUp, line, Backups
<1>5. CASE BackupClose \/ Truncate \/ Format
  <2>1. in_name' = in_name /\ UNCHANGED backup_name
        /\ pc \in {"backup_close", "trunc", "indent"}
    BY <1>1, <1>5 DEF BackupClose, Truncate, Format, CloseOutput
  <2> QED BY <1>1, <2>1 DEF BackingUp, line, Backups
<1> QED BY <1>2, <1>3, <1>4, <1>5, QuietLemma

LEMMA PresentNext == ASSUME AnyFault, [Next]_vars PROVE Present'
<1>1. /\ TypeOK /\ TypeOK' /\ Present /\ Named' = Named /\ Named \subseteq Names
      /\ BackingUp' /\ ReadIn
  BY FrameLemma, NextType, LineLemma, NamesAssumption, BackingUpNext DEF AnyFault
<1>2. CASE Quiet
  BY <1>1, <1>2, QuietLemma DEF Present
<1>3. CASE BackupOpen \/ BackupClose
  <2>1. ASSUME NEW k \in 0..Size PROVE [current_input EXCEPT !.part = k] # Absent
    <3>1. current_input \in Text
      BY <1>1, <1>3 DEF BackupOpen, BackupClose, ReadIn
    <3> QED BY <3>1, NamesAssumption DEF Text, Absent
  <2>2. CASE BackupOpen
    BY <1>1, <2>1, <2>2, WritesLemma, NumbersAssumption DEF Present, TypeOK
  <2>3. CASE BackupClose
    <3>1. current_input \in Text
      BY <1>1, <2>3 DEF BackupClose, ReadIn
    <3>2. current_input.part \in 0..Size /\ 0..current_input.part \subseteq 0..Size
      BY <3>1, PartLemma, NumbersAssumption
    <3>3. PICK k \in 0..Size : disk' = [disk EXCEPT ![backup_name] = [current_input EXCEPT !.part = k]]
      BY <2>3, <3>2 DEF BackupClose
    <3> QED BY <1>1, <2>1, <3>3 DEF Present, TypeOK
  <2> QED BY <1>3, <2>2, <2>3
<1>4. CASE Truncate
  <2>1. [current_input EXCEPT !.form = "indented", !.part = 0] # Absent
    <3>1. current_input \in Text
      BY <1>1, <1>4 DEF Truncate, ReadIn
    <3> QED BY <3>1, NamesAssumption DEF Text, Absent
  <2> QED BY <1>1, <1>4, <2>1 DEF Truncate, Present, TypeOK
<1>5. CASE Format
  <2>1. CASE Target = NoName
    BY <1>1, <1>5, <2>1 DEF Format, Present
  <2>2. CASE Target # NoName
    <3>1. PICK k \in {0, 1} : disk' = [disk EXCEPT ![Target].part = @ + k]
      BY <1>5, <2>2 DEF Format
    <3>2. disk[Target] \in Text
      BY <1>5, <2>2 DEF Format, AnyFault, Emitted
    <3>3. disk'[Target].of = disk[Target].of \/ Target \notin Names
      BY <1>1, <3>1, <3>2 DEF TypeOK, Text
    <3>4. Target \in Names => disk'[Target] # Absent
      BY <3>2, <3>3, NamesAssumption DEF Text, Absent
    <3> QED BY <1>1, <1>5, <3>4, WritesLemma DEF Present
  <2> QED BY <2>1, <2>2
<1> QED BY <1>2, <1>3, <1>4, <1>5, QuietLemma

\* What was read is a text, however little of it was.
LEMMA ReadInNext == ASSUME AnyFault, [Next]_vars PROVE ReadIn'
<1>1. TypeOK /\ ReadIn
  BY DEF AnyFault
<1> USE DEF ReadIn
<1>2. CASE OpenInput
  <2>1. disk[in_name] \in Text
    BY <1>1, <1>2, LineLemma DEF OpenInput, TypeOK
  <2> QED BY <1>2, <2>1 DEF OpenInput
<1>3. CASE ReadDone
  <2>1. current_input \in Text /\ size \in 0..Size
    BY <1>1, <1>3 DEF ReadDone, TypeOK
  <2>2. (IF size < current_input.part THEN size ELSE current_input.part) \in 0..Size
    BY <2>1, PartLemma
  <2> QED BY <1>3, <2>1, <2>2, TextLemma DEF ReadDone
<1>4. CASE ~OpenInput /\ ~ReadDone
  BY <1>1, <1>4 DEF Next, Work, Read, OpenOutput, BackupOpen, BackupNone, BackupWrite, BackupClose,
     Truncate, Format, IndentReturns, CloseOutput, CallFails, NulCharacter, Killed, Fatal, vars, input
<1> QED BY <1>2, <1>3, <1>4

\* Up to the truncation the file is what was read of it.
LEMMA BufferedNext == ASSUME Reliable, IInv, [Next]_vars PROVE Buffered'
<1>1. /\ AnyFault /\ TypeOK /\ Buffered /\ ReadIn /\ BackupState /\ BackingUp /\ BackingUp' /\ UNCHANGED line
      /\ InPlace' = InPlace /\ in_name \in Names /\ (Multiple => InPlace)
      /\ CloseOutput \/ in_name' = in_name
  BY FrameLemma, BackingUpNext, WritesLemma DEF IInv, AnyFault
<1> USE DEF Buffered, ReadIn
<1>2. CASE OpenInput
  <2>1. disk[in_name] \in Text /\ in_name' = in_name /\ UNCHANGED disk
    BY <1>1, <1>2 DEF OpenInput, TypeOK, CloseOutput
  <2> QED BY <1>2, <2>1 DEF OpenInput
<1>3. CASE Read
  <2>1. size' = size_to_read /\ size_to_read' = 0 /\ size_to_read > 0
    BY <1>1, <1>3 DEF Read, Reliable, TypeOK
  <2>2. pc = "reading" /\ pc' = pc /\ UNCHANGED <<current_input, disk>> /\ in_name' = in_name
    BY <1>1, <1>3 DEF Read, CloseOutput
  <2> QED BY <1>1, <2>1, <2>2
<1>4. CASE ReadDone
  <2>1. /\ current_input \in Text /\ current_input = disk[in_name] /\ size = current_input.part
        /\ UNCHANGED disk /\ in_name' = in_name
    BY <1>1, <1>4 DEF ReadDone, CloseOutput
  <2>2. current_input' = current_input
    <3>1. current_input.part \in Int
      BY <2>1, PartLemma
    <3>2. (IF size < current_input.part THEN size ELSE current_input.part) = current_input.part
      BY <2>1, <3>1
    <3>3. [current_input EXCEPT !.part = current_input.part] = current_input
      BY <2>1 DEF Text
    <3> QED BY <1>4, <3>2, <3>3 DEF ReadDone
  <2> QED BY <1>4, <2>1, <2>2 DEF ReadDone
<1>5. CASE OpenOutput \/ BackupNone \/ BackupWrite
  BY <1>1, <1>5 DEF OpenOutput, BackupNone, BackupWrite, CloseOutput, input
<1>6. CASE BackupOpen \/ BackupClose
  <2>1. /\ backup_name' \in Names /\ backup_name' # in_name /\ in_name' = in_name
        /\ \A n \in Names : n # backup_name' => disk'[n] = disk[n]
    <3>1. in_name' = in_name
      BY <1>1, <1>6 DEF BackupOpen, BackupClose, CloseOutput
    <3>2. CASE BackupOpen
      <4>1. backup_name' # in_name
        BY <1>1, <1>6, <3>2, BackupNameLemma, WritesLemma DEF AnyFault, BackupOpen
      <4> QED BY <1>1, <3>1, <3>2, <4>1, WritesLemma DEF TypeOK
    <3>3. CASE BackupClose
      <4>1. backup_name \in Backups(in_name) /\ backup_name # in_name
        BY <1>1, <3>3, WritesLemma DEF BackupClose, BackingUp
      <4> QED BY <1>1, <3>1, <3>3, <4>1, BackupsLemma, WritesLemma
    <3> QED BY <1>6, <3>2, <3>3
  <2>2. disk'[in_name'] = disk[in_name]
    BY <1>1, <2>1
  <2> QED BY <1>1, <1>6, <2>2 DEF BackupOpen, BackupClose, input
<1>7. CASE Truncate \/ Format
  BY <1>1, <1>7 DEF Truncate, Format, input
<1>8. CASE IndentReturns \/ CloseOutput \/ CallFails \/ NulCharacter \/ Killed
  BY <1>1, <1>8 DEF IndentReturns, CloseOutput, CallFails, NulCharacter, Killed, Fatal, input
<1>9. CASE UNCHANGED vars
  BY <1>1, <1>9 DEF vars, input, in_name, line, CloseOutput
<1> QED BY <1>2, <1>3, <1>4, <1>5, <1>6, <1>7, <1>8, <1>9 DEF Next, Work

\* Nothing is written that was not formatted.
LEMMA EmittedNext == ASSUME AnyFault, [Next]_vars PROVE Emitted'
<1>1. TypeOK /\ Emitted /\ ReadIn /\ Target \in Names \cup {NoName}
      /\ (CloseOutput \/ Target' = Target)
  BY FrameLemma, TargetLemma DEF AnyFault
<1> USE DEF Emitted
<1>2. CASE Quiet
  <2>1. CASE CloseOutput
    BY <2>1 DEF CloseOutput
  <2>2. CASE ~CloseOutput
    <3>1. UNCHANGED <<disk, written>> /\ Target' = Target
          /\ (pc' \in {"indent", "close"} => pc \in {"indent", "close"} /\ UNCHANGED current_input)
      BY <1>1, <1>2, <2>2 DEF Quiet, OpenInput, Read, ReadDone, OpenOutput, BackupNone, BackupWrite,
         IndentReturns, CallFails, NulCharacter, Killed, Fatal, vars, input
    <3> QED BY <1>1, <3>1
  <2> QED BY <2>1, <2>2
<1>3. CASE BackupOpen \/ BackupClose
  BY <1>3 DEF BackupOpen, BackupClose
<1>4. CASE Truncate
  <2>1. current_input \in Text /\ Target' = Target /\ 0 \in 0..Size
    BY <1>1, <1>4, NumbersAssumption DEF Truncate, ReadIn, CloseOutput
  <2>2. current_input.part \in 0..Size
    BY <2>1, PartLemma
  <2>3. /\ [current_input EXCEPT !.form = "indented", !.part = 0] \in Text
        /\ [current_input EXCEPT !.form = "indented", !.part = 0].part = 0
    BY <2>1, TextLemma
  <2> QED BY <1>1, <1>4, <2>1, <2>2, <2>3 DEF Truncate, TypeOK, input
<1>5. CASE Format
  <2>1. /\ current_input \in Text /\ Target' = Target /\ written \in 0..Size
        /\ written' = written + 1 /\ UNCHANGED current_input /\ written < current_input.part
    BY <1>1, <1>5 DEF Format, ReadIn, TypeOK, CloseOutput, input
  <2>2. current_input.part \in 0..Size
    BY <2>1, PartLemma
  <2>3. Target # NoName => disk'[Target] \in Text /\ disk'[Target].part <= written + 1
    <3> SUFFICES ASSUME Target # NoName PROVE disk'[Target] \in Text /\ disk'[Target].part <= written + 1
      OBVIOUS
    <3>1. PICK k \in {0, 1} : disk' = [disk EXCEPT ![Target].part = @ + k]
      BY <1>5 DEF Format
    <3>2. disk[Target] \in Text /\ disk[Target].part \in 0..Size /\ disk[Target].part <= written
      BY <1>1, <1>5, PartLemma DEF Format
    <3>3. disk[Target].part + k \in 0..Size /\ disk[Target].part + k <= written + 1
      BY <2>1, <2>2, <3>2, NumbersAssumption
    <3>4. /\ [disk[Target] EXCEPT !.part = disk[Target].part + k] \in Text
          /\ [disk[Target] EXCEPT !.part = disk[Target].part + k].part = disk[Target].part + k
      BY <3>2, <3>3, TextLemma
    <3>5. disk'[Target] = [disk[Target] EXCEPT !.part = disk[Target].part + k]
      BY <1>1, <3>1 DEF TypeOK
    <3> QED BY <3>3, <3>4, <3>5
  <2> QED BY <1>5, <2>1, <2>2, <2>3, NumbersAssumption DEF Format
<1> QED BY <1>2, <1>3, <1>4, <1>5, QuietLemma

\* A backup that was closed holds what was read, and nothing writes to it later.
LEMMA SafelyNext == ASSUME Reliable, IInv, [Next]_vars PROVE SafelyMadeABackup'
<1>1. /\ AnyFault /\ TypeOK /\ BackupState /\ BackingUp /\ Buffered /\ ReadIn /\ SafelyMadeABackup
      /\ UNCHANGED line /\ InPlace' = InPlace /\ in_name \in Names
      /\ (InPlace => Target = in_name) /\ (Multiple => InPlace)
  BY FrameLemma, WritesLemma DEF IInv, AnyFault
<1> USE DEF SafelyMadeABackup
<1>2. CASE Quiet
  <2>1. /\ UNCHANGED disk
        /\ pc' \in {"trunc", "indent", "close"} /\ InPlace /\ version_control # "none"
             => pc \in {"trunc", "indent", "close"} /\ UNCHANGED <<current_input, backup_name>>
    BY <1>1, <1>2 DEF Quiet, OpenInput, Read, ReadDone, OpenOutput, BackupNone, BackupWrite, CloseOutput,
       IndentReturns, CallFails, NulCharacter, Killed, Fatal, vars, input, InPlace
  <2> QED BY <1>1, <2>1 DEF line
<1>3. CASE BackupOpen
  BY <1>3 DEF BackupOpen
<1>4. CASE BackupClose
  <2>1. current_input \in Text /\ UNCHANGED <<current_input, backup_name>>
        /\ backup_name \in Backups(in_name)
    BY <1>1, <1>4 DEF BackupClose, Buffered, ReadIn, BackingUp, BackupState, input
  <2>2. disk' = [disk EXCEPT ![backup_name] = [current_input EXCEPT !.part = current_input.part]]
    BY <1>4 DEF BackupClose, Reliable
  <2>3. [current_input EXCEPT !.part = current_input.part] = current_input
    BY <2>1 DEF Text
  <2>4. backup_name \in Names
    BY <1>1, <2>1, BackupsLemma
  <2> QED BY <1>1, <2>1, <2>2, <2>3, <2>4 DEF TypeOK
<1>5. CASE Truncate \/ Format
  <2> SUFFICES ASSUME InPlace, version_control # "none"
               PROVE  disk'[backup_name'] = current_input'
    BY <1>1 DEF line
  <2>1. /\ pc \in {"trunc", "indent"} /\ UNCHANGED <<current_input, backup_name>>
        /\ disk[backup_name] = current_input /\ backup_name # in_name
        /\ backup_name \in Backups(in_name)
    BY <1>1, <1>5 DEF Truncate, Format, input, BackingUp
  <2>2. backup_name \in Names
    BY <1>1, <2>1, BackupsLemma
  <2> QED BY <1>1, <1>5, <2>1, <2>2, WritesLemma
<1> QED BY <1>2, <1>3, <1>4, <1>5, QuietLemma

\* Every file is left alone until its own backup is made.
LEMMA LaterNext == ASSUME AnyFault, [Next]_vars PROVE LaterFilesUntouched'
<1>1. /\ TypeOK /\ LaterFilesUntouched /\ BackupState /\ BackingUp /\ Present
      /\ UNCHANGED line /\ Safe' = Safe /\ Named' = Named
      /\ CloseOutput \/ i' = i
  BY FrameLemma DEF AnyFault
<1>2. /\ Len(in_file_names) \in Nat /\ i \in 1..Len(in_file_names) /\ UNCHANGED in_file_names
      /\ \A k \in 1..Len(in_file_names) : in_file_names[k] \in Named /\ in_file_names[k] \in Names
  BY <1>1, LineLemma, NamesAssumption DEF line
<1> SUFFICES ASSUME Safe, NEW k \in i'..Len(in_file_names),
                    k = i' => pc' \notin {"indent", "close", "exited", "killed"},
                    ~ \E l \in 1..k - 1 : in_file_names[l] = in_file_names[k]
             PROVE  disk'[in_file_names[k]] = Source(in_file_names[k])
  BY <1>1, <1>2 DEF LaterFilesUntouched, Source
<1>3. i' \in {i, i + 1} /\ k \in i..Len(in_file_names) /\ k \in 1..Len(in_file_names)
  BY <1>1, <1>2 DEF CloseOutput
<1>4. (k = i => pc \notin {"indent", "close", "exited", "killed"})
        => disk[in_file_names[k]] = Source(in_file_names[k])
  BY <1>1, <1>3 DEF LaterFilesUntouched
<1>5. CASE Quiet
  <2>1. k = i => pc \notin {"indent", "close", "exited", "killed"}
    <3>1. CASE CloseOutput
      BY <1>2, <1>3, <3>1 DEF CloseOutput
    <3>2. CASE ~CloseOutput
      BY <1>1, <1>5, <3>2 DEF Quiet, OpenInput, Read, ReadDone, OpenOutput, BackupNone, BackupWrite,
         IndentReturns, CallFails, NulCharacter, Killed, Fatal, vars
    <3> QED BY <3>1, <3>2
  <2> QED BY <1>4, <1>5, <2>1, QuietLemma
<1>6. CASE BackupOpen
  <2>1. backup_name' \notin Named
    BY <1>1, <1>6, BackupNameLemma, WritesLemma DEF BackupOpen
  <2>2. disk'[in_file_names[k]] = disk[in_file_names[k]]
    BY <1>1, <1>2, <1>3, <1>6, <2>1, WritesLemma DEF TypeOK
  <2> QED BY <1>4, <1>6, <2>2 DEF BackupOpen
<1>7. CASE BackupClose
  <2>1. backup_name \notin Named
    BY <1>1, <1>7, WritesLemma DEF BackupClose, BackingUp
  <2>2. disk'[in_file_names[k]] = disk[in_file_names[k]]
    BY <1>1, <1>2, <1>3, <1>7, <2>1, WritesLemma
  <2> QED BY <1>4, <1>7, <2>2 DEF BackupClose
<1>8. CASE Truncate \/ Format
  <2>1. k # i /\ i' = i
    BY <1>1, <1>8 DEF Truncate, Format, CloseOutput
  <2>2. Multiple /\ in_name # in_file_names[k]
    BY <1>2, <1>3, <2>1 DEF Multiple, in_name
  <2>3. disk'[in_file_names[k]] = disk[in_file_names[k]]
    BY <1>2, <1>3, <1>8, <2>2, WritesLemma
  <2> QED BY <1>4, <2>1, <2>3
<1> QED BY <1>5, <1>6, <1>7, <1>8, QuietLemma

\* The original text of every file is in the file or in a complete backup of it.
LEMMA KeptNext == ASSUME Reliable, IInv, [Next]_vars PROVE Kept'
<1>1. /\ AnyFault /\ TypeOK /\ Kept /\ BackupState /\ BackingUp /\ Present /\ Buffered /\ ReadIn
      /\ LaterFilesUntouched
      /\ SafelyMadeABackup /\ UNCHANGED line /\ Safe' = Safe /\ Named' = Named /\ InPlace' = InPlace
      /\ CloseOutput \/ (i' = i /\ in_name' = in_name)
  BY FrameLemma DEF IInv, AnyFault
<1> SUFFICES ASSUME InPlace, Safe, NEW f \in Named
             PROVE  \/ disk'[f] = Source(f)
                    \/ \E n \in Backups(f) \ (Named \cup Unfinished') : disk'[n] = Source(f)
  BY <1>1 DEF Kept, Backups, Source
<1>2. /\ \/ disk[f] = Source(f)
         \/ \E n \in Backups(f) \ (Named \cup Unfinished) : disk[n] = Source(f)
      /\ f \in Names /\ f \in Inputs /\ in_name \in Names /\ in_name \in Named
      /\ Backups(f) \subseteq Names /\ version_control # "none"
  <2>1. f \in Inputs /\ f \in Names /\ in_name \in Named /\ in_name \in Names
    BY <1>1, LineLemma, NamesAssumption
  <2>2. Backups(f) \subseteq Names
    <3>1. SimpleName[f] \in Names /\ NumberedName[f] \in [1..MaxVersion -> Names]
      BY <2>1, NamesAssumption
    <3> QED BY <3>1 DEF Backups
  <2> QED BY <1>1, <2>1, <2>2 DEF Kept, Safe
<1>3. CASE Quiet
  <2>1. Unfinished' \subseteq Unfinished
    BY <1>3 DEF Unfinished, Quiet, OpenInput, Read, ReadDone, OpenOutput, BackupNone, BackupWrite,
       CloseOutput, IndentReturns, CallFails, NulCharacter, Killed, Fatal, vars
  <2> QED BY <1>2, <1>3, <2>1, QuietLemma
<1>4. CASE BackupOpen
  <2>1. /\ backup_name' \notin Named /\ Unfinished' = {backup_name'} /\ pc = "backup"
        /\ \A n \in Names : n # backup_name' => disk'[n] = disk[n]
        /\ disk[backup_name'] = Absent \/ backup_name' \in Blind(in_name)
    BY <1>1, <1>4, BackupNameLemma, WritesLemma DEF BackupOpen, Unfinished, TypeOK
  <2>2. CASE disk[f] = Source(f)
    BY <1>2, <2>1, <2>2
  <2>3. CASE disk[f] # Source(f)
    <3>1. PICK n \in Backups(f) \ (Named \cup Unfinished) : disk[n] = Source(f)
      BY <1>2, <2>3
    <3>2. n # backup_name'
      <4>1. CASE disk[backup_name'] = Absent
        BY <1>2, <3>1, <4>1, NamesAssumption DEF Absent, Source
      <4>2. CASE backup_name' \in Blind(in_name)
        <5>1. f # in_name
          <6> SUFFICES ASSUME f = in_name PROVE FALSE
            OBVIOUS
          <6>1. \A l \in 1..i - 1 : in_file_names[l] # in_file_names[i]
            BY <1>1, <4>2, LineLemma DEF Safe, in_name
          <6>2. disk[in_file_names[i]] = Source(in_file_names[i])
            BY <1>1, <2>1, <6>1, LineLemma DEF LaterFilesUntouched
          <6> QED BY <2>3, <6>2 DEF in_name
        <5>2. in_name \in Inputs /\ 1 \in 1..MaxVersion
          BY <1>1, LineLemma, NumbersAssumption
        <5>3. backup_name' \in {SimpleName[in_name], NumberedName[in_name][1]}
          BY <4>2 DEF Blind
        <5>4. Backups(f) \cap {SimpleName[in_name], NumberedName[in_name][1]} = {}
          BY <1>2, <5>1, <5>2, SuffixAssumption DEF Backups
        <5> QED BY <3>1, <5>3, <5>4
      <4> QED BY <2>1, <4>1, <4>2
    <3> QED BY <1>2, <2>1, <3>1, <3>2
  <2> QED BY <2>2, <2>3
<1>5. CASE BackupClose
  <2>1. /\ backup_name \notin Named /\ Unfinished' = {} /\ Unfinished = {backup_name}
        /\ \A n \in Names : n # backup_name => disk'[n] = disk[n]
    BY <1>1, <1>5, WritesLemma DEF BackupClose, Unfinished, BackingUp
  <2> QED BY <1>2, <2>1
<1>6. CASE Truncate \/ Format
  <2>1. /\ pc \in {"trunc", "indent"} /\ Unfinished' = {} /\ Unfinished = {} /\ Target = in_name
        /\ \A n \in Names : n # in_name => disk'[n] = disk[n]
    BY <1>1, <1>6, WritesLemma DEF Truncate, Format, Unfinished
  <2>2. CASE f # in_name \/ disk[f] # Source(f)
    BY <1>2, <2>1, <2>2
  <2>3. CASE f = in_name /\ disk[f] = Source(f)
    <3>1. CASE Truncate
      <4>1. disk[backup_name] = Source(f)
        BY <1>1, <1>2, <2>3, <3>1 DEF Truncate, SafelyMadeABackup, Buffered, ReadIn
      <4>2. backup_name \in Backups(f) /\ backup_name \notin Named
        BY <1>1, <1>2, <2>1, <2>3 DEF BackingUp
      <4> QED BY <1>2, <2>1, <4>1, <4>2
    <3>2. CASE Format
      <4>1. Target # NoName
        BY <1>2, <2>1, NamesAssumption
      <4>2. PICK k \in {0, 1} : disk' = [disk EXCEPT ![Target].part = @ + k]
        BY <3>2, <4>1 DEF Format
      <4>3. disk[f].part = Size /\ written < current_input.part /\ disk[f].part <= written
        BY <2>1, <2>3, <3>2, <4>1 DEF IInv, AnyFault, Emitted, Format, Source
      <4>4. current_input.part \in 0..Size /\ written \in Nat
        BY <1>1, <3>2, PartLemma DEF Buffered, ReadIn, Format, TypeOK
      <4> QED BY <4>3, <4>4, NumbersAssumption
    <3> QED BY <1>6, <3>1, <3>2
  <2> QED BY <2>2, <2>3
<1> QED BY <1>3, <1>4, <1>5, <1>6, QuietLemma

LEMMA InitIInv == Init => IInv
<1> SUFFICES ASSUME Init PROVE IInv
  OBVIOUS
<1>1. TypeOK
  BY InitType
<1>2. pc = "open_input" /\ i = 1
  BY DEF Init
<1>3. \A f \in Named : f \in Names /\ disk[f] # Absent
  <2> SUFFICES ASSUME NEW f \in Named
               PROVE  f \in Names /\ disk[f] # Absent
    OBVIOUS
  <2>1. PICK k \in DOMAIN in_file_names : f = in_file_names[k]
    BY DEF Named
  <2>2. disk[in_file_names[k]] # Absent
    BY DEF Init
  <2>3. in_file_names[k] \in Names
    BY <1>1, <2>1, LineLemma, NamesAssumption
  <2> QED BY <2>1, <2>2, <2>3
<1>4. \A f \in Named : disk[f] = Source(f)
  BY <1>3 DEF Init
<1>5. ReadIn /\ Buffered /\ BackupState /\ BackingUp /\ Emitted /\ SafelyMadeABackup
  BY <1>2 DEF ReadIn, Buffered, BackupState, BackingUp, Emitted, SafelyMadeABackup
<1>6. Present /\ Kept
  BY <1>3, <1>4 DEF Present, Kept
<1>7. LaterFilesUntouched
  BY <1>1, <1>2, <1>4, LineLemma DEF LaterFilesUntouched
<1> QED BY <1>1, <1>5, <1>6, <1>7 DEF IInv, AnyFault

\* The part of the invariant that no fault breaks.
THEOREM Robust == Spec => []AnyFault
<1>1. AnyFault /\ [Next]_vars => AnyFault'
  BY NextType, ReadInNext, StateNext, BackingUpNext, EmittedNext, PresentNext, LaterNext
     DEF AnyFault
<1>2. Init => AnyFault
  BY InitIInv DEF IInv
<1> QED BY <1>1, <1>2, PTL DEF Spec

\* Without lost reads and writes every reachable state satisfies the whole of it.
THEOREM Invariance ==
  ASSUME Reliable
  PROVE  Spec => []IInv
<1>1. IInv /\ [Next]_vars => IInv'
  BY NextType, ReadInNext, StateNext, BackingUpNext, EmittedNext, PresentNext, LaterNext,
     BufferedNext, KeptNext, SafelyNext DEF IInv, AnyFault
<1> QED BY <1>1, InitIInv, PTL DEF Spec

-----------------------------------------------------------------------------
(* What follows from the invariant.                                        *)

\* The types of the variables, whatever faults a run meets: no part of a text is
\* longer than the text, and no version is above the highest.
THEOREM TypeCorrect == Spec => []TypeOK
<1>1. AnyFault => TypeOK
  BY DEF AnyFault
<1> QED BY <1>1, Robust, PTL

\* An error in one file does not reach the files after it, nor does any fault.
THEOREM LaterFilesAreSafe == Spec => []LaterFilesUntouched
<1>1. AnyFault => LaterFilesUntouched
  BY DEF AnyFault
<1> QED BY <1>1, Robust, PTL

\* With numbered backups, no earlier backup of a file whose directory can be listed is
\* written to, whatever faults a run meets.
THEOREM EarlierBackupsKept == Spec => BackupsKept
<1> DEFINE Keeps == version_control = "numbered" /\ InPlace =>
             \A n \in Names \ Named :
               disk[n] # Absent /\ n # backup_name /\ (\A f \in Named : n \notin Blind(f))
                 => disk'[n] = disk[n]
<1>1. AnyFault /\ [Next]_vars => [Keeps]_vars
  <2> SUFFICES ASSUME AnyFault, [Next]_vars, version_control = "numbered", InPlace,
                      NEW n \in Names \ Named, disk[n] # Absent, n # backup_name,
                      \A f \in Named : n \notin Blind(f)
               PROVE  disk'[n] = disk[n]
    OBVIOUS
  <2>1. TypeOK /\ Present /\ in_name \in Named
    BY LineLemma DEF AnyFault
  <2>2. CASE BackupOpen
    <3>1. disk[backup_name'] = Absent \/ backup_name' \in Blind(in_name)
      BY <2>1, <2>2, BackupNameLemma, WritesLemma DEF BackupOpen
    <3>2. n # backup_name'
      BY <2>1, <3>1
    <3> QED BY <2>1, <2>2, <3>2, WritesLemma DEF TypeOK
  <2>3. CASE ~BackupOpen
    BY <2>1, <2>3, WritesLemma, QuietLemma
  <2> QED BY <2>2, <2>3
<1> QED BY <1>1, Robust, PTL DEF Spec, BackupsKept

\* Killed or given up at any point, a run of indent has lost no text: each file is
\* in itself, or whole in a backup.
THEOREM NothingIsLost ==
  ASSUME Reliable
  PROVE  Spec => []OriginalKept
<1>1. IInv => OriginalKept
  <2> SUFFICES ASSUME IInv, InPlace, Safe, NEW f \in Named
               PROVE  \E n \in Names : disk[n] = Source(f)
    BY DEF OriginalKept
  <2>1. f \in Inputs /\ f \in Names
    BY LineLemma, NamesAssumption DEF IInv, AnyFault
  <2>2. SimpleName[f] \in Names /\ NumberedName[f] \in [1..MaxVersion -> Names]
    BY <2>1, NamesAssumption
  <2> QED BY <2>1, <2>2 DEF IInv, Kept, Backups
<1> QED BY <1>1, Invariance, PTL

\* When a file is truncated its backup is complete, and it stays so.
THEOREM BackupIsSafe ==
  ASSUME Reliable
  PROVE  Spec => []SafelyMadeABackup
<1>1. IInv => SafelyMadeABackup
  BY DEF IInv
<1> QED BY <1>1, Invariance, PTL

-----------------------------------------------------------------------------
(* What success means.                                                     *)

Going == pc \notin {"exited", "killed"}
Whole(n) == disk[n].form = "indented" /\ disk[n].part = Size

\* The files that were done, and the one that is being written.
Early == {in_file_names[k] : k \in 1..i - 1}
AtWork == IF pc \in {"indent", "close"} THEN {Target} ELSE {}

\* What is read is a whole file, and on the disk there are only whole ones, but for
\* those that are being written.
WholeInput ==
  /\ pc \notin {"open_input", "exited", "killed"} => current_input.part = Size
  /\ Going => \A f \in Named \ (AtWork \cup Unfinished) : disk[f].part = Size

\* The output is as long as the text that was formatted.
Growing ==
  /\ pc \in {"indent", "close"} /\ Target # NoName
       => disk[Target].form = "indented" /\ disk[Target].part = written
  /\ pc = "close" => written = Size

\* The outputs of the files before are there, and no backup is written over them.
Finished ==
  Going /\ OutputsApart => /\ \A n \in Early \ AtWork : Whole(n)
                           /\ Unfinished \cap Early = {}

StatusKept == error_seen => exit_status # total_success

WInv == IInv /\ WholeInput /\ Growing /\ Finished /\ StatusKept /\ SuccessMeansWritten

\* The outputs that are done are files of the command line, and only the end of a file
\* adds to them.
LEMMA EarlyLemma ==
  ASSUME TypeOK, [Next]_vars
  PROVE  /\ Early \subseteq Named
         /\ OutputsApart' = OutputsApart
         /\ CloseOutput \/ Early' = Early
         /\ CloseOutput => \/ i' = i + 1 /\ Early' \subseteq Early \cup {in_name} /\ Multiple
                           \/ pc' = "exited"
<1>1. UNCHANGED line /\ (CloseOutput \/ i' = i)
  BY FrameLemma
<1>2. Early \subseteq Named /\ OutputsApart' = OutputsApart
  BY <1>1, LineLemma DEF Early, OutputsApart, Blind, line
<1>3. CloseOutput \/ Early' = Early
  BY <1>1 DEF line, Early
<1>4. ASSUME CloseOutput, pc' # "exited"
      PROVE  i' = i + 1 /\ Early' \subseteq Early \cup {in_name} /\ Multiple
  <2>1. i' = i + 1 /\ i < Len(in_file_names) /\ in_file_names' = in_file_names
    BY <1>1, <1>4 DEF CloseOutput, line
  <2>2. i \in 1..Len(in_file_names) /\ Len(in_file_names) \in Nat
    BY LineLemma
  <2>3. \A k \in 1..i' - 1 : k = i \/ k \in 1..i - 1
    BY <2>1, <2>2
  <2> QED BY <2>1, <2>2, <2>3 DEF Early, in_name, Multiple
<1> QED BY <1>2, <1>3, <1>4

\* Without faults a backup that is closed is the text that was read, and a piece of
\* output that is formatted is written.
LEMMA ReliableWrites ==
  ASSUME Reliable, IInv, [Next]_vars
  PROVE  /\ BackupClose => backup_name \in Names /\ disk'[backup_name] = current_input
         /\ Truncate /\ Target # NoName =>
              disk'[Target].form = "indented" /\ disk'[Target].part = 0
         /\ Format /\ Target # NoName =>
              /\ disk'[Target].form = disk[Target].form
              /\ disk'[Target].part = disk[Target].part + 1
<1>1. AnyFault /\ TypeOK /\ ReadIn /\ BackupState /\ BackingUp /\ Emitted
      /\ Target \in Names \cup {NoName}
  BY TargetLemma DEF IInv, AnyFault
<1>2. ASSUME BackupClose PROVE backup_name \in Names /\ disk'[backup_name] = current_input
  <2>1. current_input \in Text /\ backup_name \in Backups(in_name)
    BY <1>1, <1>2 DEF BackupClose, ReadIn, BackingUp, BackupState
  <2>2. disk' = [disk EXCEPT ![backup_name] = [current_input EXCEPT !.part = current_input.part]]
    BY <1>2 DEF BackupClose, Reliable
  <2>3. [current_input EXCEPT !.part = current_input.part] = current_input
    BY <2>1 DEF Text
  <2>4. backup_name \in Names
    BY <1>1, <2>1, BackupsLemma
  <2> QED BY <1>1, <2>2, <2>3, <2>4 DEF TypeOK
<1>3. ASSUME Truncate, Target # NoName
      PROVE  disk'[Target].form = "indented" /\ disk'[Target].part = 0
  <2>1. current_input \in Text
    BY <1>1, <1>3 DEF Truncate, ReadIn
  <2>2. disk'[Target] = [current_input EXCEPT !.form = "indented", !.part = 0]
    BY <1>1, <1>3 DEF Truncate, TypeOK
  <2> QED BY <2>1, <2>2 DEF Text
<1>4. ASSUME Format, Target # NoName
      PROVE  /\ disk'[Target].form = disk[Target].form
             /\ disk'[Target].part = disk[Target].part + 1
  <2>1. disk' = [disk EXCEPT ![Target].part = @ + 1]
    BY <1>4 DEF Format, Reliable
  <2>2. disk[Target] \in Text
    BY <1>1, <1>4 DEF Format, Emitted
  <2> QED BY <1>1, <1>4, <2>1, <2>2 DEF TypeOK, Text
<1> QED BY <1>2, <1>3, <1>4

\* A step that leaves the disk alone leaves the files that are being written the same,
\* but for the end of a file.
LEMMA QuietPlaces ==
  ASSUME [Next]_vars, Quiet, ~CloseOutput, Going'
  PROVE  /\ Going /\ UNCHANGED disk /\ AtWork' = AtWork /\ Unfinished' = Unfinished
         /\ Target' = Target
<1>1. UNCHANGED disk /\ Target' = Target
  BY QuietLemma, FrameLemma
<1>2. Going /\ AtWork' = AtWork /\ Unfinished' = Unfinished
  BY <1>1 DEF Quiet, OpenInput, Read, ReadDone, OpenOutput, BackupNone, BackupWrite,
     IndentReturns, CallFails, NulCharacter, Killed, Fatal, vars, Going, AtWork, Unfinished
<1> QED BY <1>1, <1>2

LEMMA GrowingNext == ASSUME Reliable, WInv, [Next]_vars PROVE Growing'
<1>1. /\ IInv /\ TypeOK /\ ReadIn /\ WholeInput /\ Growing
      /\ (CloseOutput \/ Target' = Target)
  BY FrameLemma DEF WInv, IInv, AnyFault
<1> USE DEF Growing
<1>2. CASE Truncate
  BY <1>1, <1>2, ReliableWrites DEF Truncate, CloseOutput
<1>3. CASE Format
  BY <1>1, <1>3, ReliableWrites DEF Format, CloseOutput
<1>4. CASE IndentReturns
  BY <1>1, <1>4 DEF IndentReturns, CloseOutput, WholeInput
<1>5. CASE BackupOpen \/ BackupClose
  BY <1>5 DEF BackupOpen, BackupClose
<1>6. CASE Quiet /\ ~IndentReturns
  BY <1>1, <1>6 DEF Quiet, OpenInput, Read, ReadDone, OpenOutput, BackupNone, BackupWrite, CloseOutput,
     CallFails, NulCharacter, Killed, Fatal, vars
<1> QED BY <1>2, <1>3, <1>4, <1>5, <1>6, QuietLemma

LEMMA WholeInputNext == ASSUME Reliable, WInv, [Next]_vars PROVE WholeInput'
<1>1. /\ IInv /\ AnyFault /\ TypeOK /\ ReadIn /\ Buffered /\ WholeInput /\ Growing
      /\ Named' = Named /\ Named \subseteq Names /\ in_name \in Named
      /\ (CloseOutput \/ Target' = Target)
  BY FrameLemma, LineLemma, NamesAssumption DEF WInv, IInv, AnyFault
<1>2. (pc \notin {"open_input", "exited", "killed"} => current_input.part = Size)'
  <2>1. CASE OpenInput
    BY <1>1, <2>1 DEF OpenInput, WholeInput, Going, AtWork, Unfinished
  <2>2. CASE ReadDone
    <3>1. current_input \in Text /\ size = current_input.part /\ size = Size
      BY <1>1, <2>2 DEF ReadDone, ReadIn, Buffered, WholeInput, TypeOK
    <3>2. current_input' = [current_input EXCEPT !.part = Size]
      BY <2>2, <3>1, PartLemma DEF ReadDone
    <3> QED BY <3>1, <3>2 DEF Text
  <2>3. CASE ~OpenInput /\ ~ReadDone
    BY <1>1, <2>3 DEF WholeInput, Next, Work, Read, OpenOutput, BackupOpen, BackupNone, BackupWrite,
       BackupClose, Truncate, Format, IndentReturns, CloseOutput, CallFails, NulCharacter, Killed,
       Fatal, vars, input
  <2> QED BY <2>1, <2>2, <2>3
<1>3. ASSUME Going', NEW f \in Named, f \notin AtWork' \cup Unfinished'
      PROVE  disk'[f].part = Size
  <2>1. f \in Names /\ (Going /\ f \notin AtWork \cup Unfinished => disk[f].part = Size)
    BY <1>1 DEF WholeInput
  <2>2. CASE Quiet /\ ~CloseOutput
    BY <1>3, <2>1, <2>2, QuietPlaces
  <2>3. CASE CloseOutput
    <3>1. Going /\ UNCHANGED disk /\ AtWork = {Target} /\ Unfinished = {}
      BY <2>3 DEF CloseOutput, Going, AtWork, Unfinished
    <3>2. CASE f = Target
      BY <1>1, <2>1, <2>3, <3>1, <3>2, NamesAssumption DEF Growing, CloseOutput
    <3> QED BY <2>1, <3>1, <3>2
  <2>4. CASE BackupOpen
    BY <1>1, <1>3, <2>1, <2>4, WritesLemma DEF BackupOpen, Going, AtWork, Unfinished, TypeOK
  <2>5. CASE BackupClose
    <3>1. Going /\ AtWork = {} /\ Unfinished = {backup_name} /\ current_input.part = Size
      BY <1>1, <2>5 DEF BackupClose, Going, AtWork, Unfinished, WholeInput
    <3> QED BY <1>1, <2>1, <2>5, <3>1, ReliableWrites, WritesLemma
  <2>6. CASE Truncate \/ Format
    <3>1. Going /\ Unfinished = {} /\ AtWork \subseteq {Target} /\ f # Target
      BY <1>1, <1>3, <2>6 DEF Truncate, Format, Going, AtWork, Unfinished, CloseOutput
    <3> QED BY <1>1, <2>1, <2>6, <3>1, WritesLemma
  <2> QED BY <2>2, <2>3, <2>4, <2>5, <2>6, QuietLemma
<1> QED BY <1>1, <1>2, <1>3 DEF WholeInput

LEMMA FinishedNext == ASSUME Reliable, WInv, [Next]_vars PROVE Finished'
<1>1. /\ IInv /\ AnyFault /\ TypeOK /\ Present /\ Growing /\ Finished
      /\ Named \subseteq Names /\ in_name \in Named /\ Early \subseteq Named
      /\ OutputsApart' = OutputsApart /\ (CloseOutput \/ (Early' = Early /\ Target' = Target))
      /\ i \in 1..Len(in_file_names) /\ DOMAIN in_file_names = 1..Len(in_file_names)
  BY FrameLemma, LineLemma, EarlyLemma, NamesAssumption DEF WInv, IInv, AnyFault
<1> SUFFICES ASSUME Going', OutputsApart
             PROVE  /\ \A n \in Early' \ AtWork' : Whole(n)'
                    /\ Unfinished' \cap Early' = {}
  BY <1>1 DEF Finished
<1> USE DEF Whole
<1>2. CASE Quiet /\ ~CloseOutput
  BY <1>1, <1>2, QuietPlaces DEF Finished
<1>3. CASE CloseOutput
  <2>1. /\ Going /\ UNCHANGED disk /\ AtWork = {Target} /\ Unfinished' = {} /\ pc = "close"
        /\ Multiple /\ Early' \subseteq Early \cup {in_name} /\ Target = in_name
    BY <1>1, <1>3, EarlyLemma, TargetLemma DEF CloseOutput, Going, AtWork, Unfinished
  <2>2. Whole(in_name)
    BY <1>1, <2>1, NamesAssumption DEF Growing
  <2> QED BY <1>1, <2>1, <2>2 DEF Finished
<1>4. CASE BackupOpen
  <2>1. /\ Going /\ AtWork = {} /\ Unfinished = {} /\ Unfinished' = {backup_name'}
        /\ \A n \in Names : n # backup_name' => disk'[n] = disk[n]
    BY <1>1, <1>4, WritesLemma DEF BackupOpen, Going, AtWork, Unfinished, TypeOK
  <2>2. backup_name' \notin Early
    <3>1. disk[backup_name'] = Absent \/ backup_name' \in Blind(in_name)
      BY <1>1, <1>4, BackupNameLemma, WritesLemma DEF BackupOpen
    <3>2. ASSUME NEW k \in 1..i - 1 PROVE in_file_names[k] \notin Blind(in_name)
      BY <1>1, <3>2 DEF OutputsApart, in_name
    <3> QED BY <1>1, <3>1, <3>2 DEF Present, Early
  <2> QED BY <1>1, <1>4, <2>1, <2>2 DEF Finished, CloseOutput, BackupOpen
<1>5. CASE BackupClose
  <2>1. /\ Going /\ AtWork = {} /\ Unfinished = {backup_name} /\ Unfinished' = {}
        /\ \A n \in Names : n # backup_name => disk'[n] = disk[n]
    BY <1>1, <1>5, WritesLemma DEF BackupClose, Going, AtWork, Unfinished
  <2> QED BY <1>1, <1>5, <2>1 DEF Finished, CloseOutput, BackupClose
<1>6. CASE Truncate \/ Format
  <2>1. /\ Going /\ AtWork \subseteq {Target} /\ AtWork' = {Target} /\ Unfinished' = {}
        /\ Early' = Early /\ \A n \in Names : n # Target => disk'[n] = disk[n]
    BY <1>1, <1>6, WritesLemma DEF Truncate, Format, Going, AtWork, Unfinished, CloseOutput
  <2> QED BY <1>1, <2>1 DEF Finished
<1> QED BY <1>2, <1>3, <1>4, <1>5, <1>6, QuietLemma

LEMMA StatusNext == ASSUME WInv, [Next]_vars PROVE StatusKept'
<1>1. TypeOK /\ StatusKept
  BY DEF WInv, IInv, AnyFault
<1> USE DEF StatusKept
<1>2. CASE IndentReturns
  <2>1. PICK status \in {0, 2} : /\ exit_status' = IF status > exit_status THEN status ELSE exit_status
                                /\ error_seen' = (error_seen \/ status # 0)
    BY <1>2 DEF IndentReturns, total_success, indent_error
  <2>2. exit_status \in {0, 2, 4} /\ (error_seen => exit_status # 0)
    BY <1>1 DEF TypeOK, total_success, indent_error, indent_fatal
  <2>3. error_seen' => error_seen \/ status # 0
    BY <2>1
  <2>4. exit_status # 0 \/ status # 0 => exit_status' # 0
    BY <2>1, <2>2
  <2>5. error_seen => exit_status # 0
    BY <1>1 DEF total_success
  <2>6. error_seen' => exit_status' # 0
    BY <2>3, <2>4, <2>5
  <2> QED BY <2>6 DEF total_success
<1>3. CASE CallFails \/ NulCharacter
  <2>1. exit_status' = indent_fatal
    BY <1>3 DEF CallFails, NulCharacter, Fatal
  <2> QED BY <2>1 DEF indent_fatal, total_success
<1>4. CASE ~IndentReturns /\ ~CallFails /\ ~NulCharacter
  BY <1>1, <1>4 DEF Next, Work, OpenInput, Read, ReadDone, OpenOutput, BackupOpen, BackupNone,
     BackupWrite, BackupClose, Truncate, Format, CloseOutput, Killed, vars, result
<1> QED BY <1>2, <1>3, <1>4

LEMMA SuccessNext == ASSUME WInv, [Next]_vars PROVE SuccessMeansWritten'
<1>1. /\ TypeOK /\ Growing /\ Finished /\ StatusKept /\ SuccessMeansWritten
      /\ UNCHANGED line /\ Named' = Named /\ Named \subseteq Names
      /\ OutputsApart' = OutputsApart /\ Multiple' = Multiple /\ Len(in_file_names) \in Nat
      /\ i \in 1..Len(in_file_names) /\ DOMAIN in_file_names = 1..Len(in_file_names)
  BY FrameLemma, LineLemma, EarlyLemma, NamesAssumption DEF WInv, IInv, AnyFault
<1> SUFFICES ASSUME pc' = "exited", exit_status' = total_success
             PROVE  /\ ~error_seen'
                    /\ OutputsApart => \A n \in Outputs' : disk'[n].form = "indented" /\ disk'[n].part = Size
  BY <1>1 DEF SuccessMeansWritten
<1>2. CASE UNCHANGED vars
  BY <1>1, <1>2 DEF vars, line, result, SuccessMeansWritten, Outputs, Named, Multiple, Target, in_name
<1>3. CASE CloseOutput
  <2>1. /\ pc = "close" /\ i = Len(in_file_names) /\ i' = i /\ UNCHANGED disk /\ UNCHANGED result
        /\ Going /\ AtWork = {Target}
    <3>1. pc = "close" /\ UNCHANGED disk /\ UNCHANGED result /\ ~(i < Len(in_file_names)) /\ i' = i
      BY <1>3 DEF CloseOutput
    <3>2. i \in 1..Len(in_file_names) /\ Len(in_file_names) \in Nat
      BY <1>1
    <3>3. i = Len(in_file_names)
      BY <3>1, <3>2
    <3> QED BY <3>1, <3>3 DEF Going, AtWork
  <2>2. ~error_seen'
    BY <1>1, <2>1 DEF StatusKept, result
  <2>3. Outputs' = Outputs
    BY <1>1, <2>1 DEF Outputs, Target, in_name, line, Multiple
  <2>4. Target # NoName => Whole(Target)
    BY <1>1, <2>1 DEF Growing, Whole
  <2>5. ASSUME OutputsApart, Multiple, NEW n \in Named PROVE Whole(n)
    <3>1. PICK k \in 1..i : n = in_file_names[k]
      BY <1>1, <2>1 DEF Named
    <3>2. Target = in_name
      BY <2>5 DEF Target
    <3>3. CASE n = Target
      BY <1>1, <2>4, <3>3, NamesAssumption
    <3>4. CASE n # Target
      <4>1. k \in 1..i - 1
        BY <1>1, <3>1, <3>2, <3>4 DEF in_name
      <4> QED BY <1>1, <2>1, <2>5, <3>1, <3>4, <4>1 DEF Finished, Early
    <3> QED BY <3>3, <3>4
  <2> QED BY <2>1, <2>2, <2>3, <2>4, <2>5 DEF Outputs, Whole
<1>4. CASE ~CloseOutput /\ ~UNCHANGED vars
  BY <1>4 DEF Next, Work, OpenInput, Read, ReadDone, OpenOutput, BackupOpen, BackupNone, BackupWrite,
     BackupClose, Truncate, Format, IndentReturns, CallFails, NulCharacter, Killed, Fatal,
     total_success, indent_fatal
<1> QED BY <1>2, <1>3, <1>4

\* The status total_success is never given to a run that found an error, and as long as
\* what is written reaches the disk it means that every output is there and whole.
THEOREM SuccessIsWritten ==
  ASSUME Reliable
  PROVE  Spec => []SuccessMeansWritten
<1>1. Init => WInv
  <2> SUFFICES ASSUME Init PROVE WInv
    OBVIOUS
  <2>1. IInv /\ TypeOK /\ Named \subseteq Names /\ pc = "open_input" /\ i = 1 /\ ~error_seen
    BY InitIInv, LineLemma, NamesAssumption DEF Init, IInv, AnyFault
  <2>2. \A f \in Named : disk[f].part = Size
    <3>1. \A f \in Named : disk[f] # Absent
      BY <2>1 DEF IInv, AnyFault, Present
    <3> QED BY <2>1, <3>1 DEF Init, Source
  <2>3. WholeInput /\ Growing /\ StatusKept /\ SuccessMeansWritten
    BY <2>1, <2>2 DEF WholeInput, Growing, StatusKept, SuccessMeansWritten
  <2>4. Finished
    BY <2>1 DEF Finished, Early, Unfinished
  <2> QED BY <2>1, <2>3, <2>4 DEF WInv
<1>2. WInv /\ [Next]_vars => WInv'
  <2>1. IInv /\ [Next]_vars => IInv'
    BY NextType, ReadInNext, StateNext, BackingUpNext, EmittedNext, PresentNext, LaterNext,
       BufferedNext, KeptNext, SafelyNext DEF IInv, AnyFault
  <2> QED BY <2>1, WholeInputNext, GrowingNext, FinishedNext, StatusNext, SuccessNext DEF WInv
<1>3. WInv => SuccessMeansWritten
  BY DEF WInv
<1> QED BY <1>1, <1>2, <1>3, PTL DEF Spec
-----------------------------------------------------------------------------
(* The option table.                                                       *)

Places == 1..18
Types == {"PRSTRING", "BOOL", "IGN", "SETTINGS", "INT", "KEY"}
Styles == {5, 10, 13}
Numbers == {8, 9, 11, 12}
Flags == {2, 3, 6, 7, 14, 15, 16, 17}
Others == {1, 4, 18} \cup Styles

LEMMA EachPlace ==
  \A k \in Places : \/ k = 1 \/ k = 2 \/ k = 3 \/ k = 4 \/ k = 5 \/ k = 6 \/ k = 7 \/ k = 8 \/ k = 9 \/ k = 10
                     \/ k = 11 \/ k = 12 \/ k = 13 \/ k = 14 \/ k = 15 \/ k = 16 \/ k = 17 \/ k = 18
BY DEF Places

LEMMA PlaceNames ==
  /\ Len(pro) = 18 /\ DOMAIN pro = Places
  /\ pro[1].p_name = "version" /\ pro[2].p_name = "st" /\ pro[3].p_name = "o" /\ pro[4].p_name = "npro"
  /\ pro[5].p_name = "nip" /\ pro[6].p_name = "nbfda" /\ pro[7].p_name = "nbfde"
  /\ pro[8].p_name = "lc" /\ pro[9].p_name = "l" /\ pro[10].p_name = "kr"
  /\ pro[11].p_name = "ip" /\ pro[12].p_name = "i" /\ pro[13].p_name = "gnu" /\ pro[14].p_name = "br"
  /\ pro[15].p_name = "bl" /\ pro[16].p_name = "bfda" /\ pro[17].p_name = "bfde" /\ pro[18].p_name = "T"
<1> HIDE DEF KR, GNU
<1> QED BY DEF pro, Flag, Number, Other, Places

LEMMA PlaceObjects ==
  /\ \A k \in Others : pro[k].p_obj = Nameless
  /\ pro[1].p_obj = Nameless /\ pro[4].p_obj = Nameless /\ pro[5].p_obj = Nameless
  /\ pro[10].p_obj = Nameless /\ pro[13].p_obj = Nameless /\ pro[18].p_obj = Nameless
  /\ pro[2].p_obj = "use_stdout" /\ pro[3].p_obj = "expect_output_file"
  /\ pro[8].p_obj = "comment_max_col" /\ pro[9].p_obj = "max_col" /\ pro[11].p_obj = "indent_parameters"
  /\ pro[12].p_obj = "ind_size" /\ pro[14].p_obj = "btype_2" /\ pro[15].p_obj = "btype_2"
  /\ pro[16].p_obj = "break_function_decl_args" /\ pro[17].p_obj = "break_function_decl_args_end"
  /\ pro[6].p_obj = "break_function_decl_args" /\ pro[7].p_obj = "break_function_decl_args_end"
<1> HIDE DEF KR, GNU
<1> QED BY DEF pro, Flag, Number, Other, Others, Styles

LEMMA PlaceTypes ==
  /\ \A k \in Flags : pro[k].p_type = "BOOL" /\ pro[k].members = <<>>
  /\ \A k \in Numbers : pro[k].p_type = "INT" /\ pro[k].members = <<>>
  /\ \A k \in Styles : pro[k].p_type = "SETTINGS"
  /\ pro[5].members = <<Set("ip", 0)>> /\ pro[10].members = KR /\ pro[13].members = GNU
  /\ pro[1].p_type = "PRSTRING" /\ pro[4].p_type = "IGN" /\ pro[18].p_type = "KEY"
  /\ pro[1].members = <<>> /\ pro[4].members = <<>> /\ pro[18].members = <<>>
<1> HIDE DEF KR, GNU, Set
<1> QED BY DEF pro, Flag, Number, Other, Flags, Numbers, Styles

LEMMA PlaceMarks ==
  /\ \A k \in Places \ {6, 7, 14} : pro[k].p_explicit = pro[k].p_name
  /\ pro[6].p_explicit = "bfda" /\ pro[7].p_explicit = "bfde" /\ pro[14].p_explicit = "bl"
<1> HIDE DEF KR, GNU, Set
<1> QED BY DEF pro, Flag, Number, Other, Places

LEMMA PlaceSets ==
  /\ Places = Flags \cup Numbers \cup Others
  /\ \A k \in Places : pro[k].p_default \in Int
  /\ \A k \in Flags : pro[k].p_special \in {"ON", "OFF"}
<1> HIDE DEF KR, GNU, Set
<1>1. Places = Flags \cup Numbers \cup Others
  BY DEF Places, Flags, Numbers, Others, Styles
<1>2. \A k \in Places : pro[k].p_default \in Int
  BY DEF pro, Flag, Number, Other, Places
<1>3. \A k \in Flags : pro[k].p_special \in {"ON", "OFF"}
  BY DEF pro, Flag, Number, Other, Flags
<1> QED BY <1>1, <1>2, <1>3

\* No two entries have the same name, and those with one object share the mark that it was set.
LEMMA NamesDiffer == \A j, k \in Places : pro[j].p_name = pro[k].p_name => j = k
BY PlaceNames DEF Places

LEMMA MarksOfObjects ==
  \A j, k \in Places : pro[k].p_obj # Nameless =>
    (pro[j].p_explicit = pro[k].p_explicit <=> pro[j].p_obj = pro[k].p_obj)
<1> SUFFICES ASSUME NEW j \in Places, NEW k \in Places, pro[k].p_obj # Nameless
             PROVE  pro[j].p_explicit = pro[k].p_explicit <=> pro[j].p_obj = pro[k].p_obj
  OBVIOUS
<1>1. k \notin Others
  BY PlaceObjects
<1> DEFINE Pair(name, obj, a, b) ==
      \A z \in Places : /\ pro[z].p_explicit = name <=> z \in {a, b}
                        /\ pro[z].p_obj = obj <=> z \in {a, b}
<1>2. CASE k \notin {6, 7, 14, 15, 16, 17}
  <2>1. pro[k].p_explicit = pro[k].p_name /\ pro[k].p_name \notin {"bl", "bfda", "bfde"}
    BY <1>2, PlaceMarks, PlaceNames, NamesDiffer DEF Places
  <2>2. pro[j].p_explicit = pro[k].p_explicit <=> j = k
    BY <1>2, <2>1, PlaceMarks, NamesDiffer
  <2>3. pro[j].p_obj = pro[k].p_obj <=> j = k
    <3>1. k \in {2, 3, 8, 9, 11, 12}
      BY <1>1, <1>2, EachPlace DEF Others, Styles
    <3>2. /\ k = 2 => pro[j].p_obj = "use_stdout" <=> j = 2
          /\ k = 3 => pro[j].p_obj = "expect_output_file" <=> j = 3
          /\ k = 8 => pro[j].p_obj = "comment_max_col" <=> j = 8
      BY EachPlace, PlaceObjects DEF Nameless
    <3>3. /\ k = 9 => pro[j].p_obj = "max_col" <=> j = 9
          /\ k = 11 => pro[j].p_obj = "indent_parameters" <=> j = 11
          /\ k = 12 => pro[j].p_obj = "ind_size" <=> j = 12
      BY EachPlace, PlaceObjects DEF Nameless
    <3> QED BY <3>1, <3>2, <3>3, PlaceObjects
  <2> QED BY <2>2, <2>3
<1>3. Pair("bl", "btype_2", 14, 15)
  <2>1. \A z \in Places : pro[z].p_explicit = "bl" <=> z \in {14, 15}
    BY PlaceMarks, PlaceNames, NamesDiffer DEF Places
  <2>2. \A z \in Places : pro[z].p_obj = "btype_2" <=> z \in {14, 15}
    BY EachPlace, PlaceObjects DEF Nameless
  <2> QED BY <2>1, <2>2
<1>4. Pair("bfda", "break_function_decl_args", 6, 16)
  <2>1. \A z \in Places : pro[z].p_explicit = "bfda" <=> z \in {6, 16}
    BY PlaceMarks, PlaceNames, NamesDiffer DEF Places
  <2>2. \A z \in Places : pro[z].p_obj = "break_function_decl_args" <=> z \in {6, 16}
    BY EachPlace, PlaceObjects DEF Nameless
  <2> QED BY <2>1, <2>2
<1>5. Pair("bfde", "break_function_decl_args_end", 7, 17)
  <2>1. \A z \in Places : pro[z].p_explicit = "bfde" <=> z \in {7, 17}
    BY PlaceMarks, PlaceNames, NamesDiffer DEF Places
  <2>2. \A z \in Places : pro[z].p_obj = "break_function_decl_args_end" <=> z \in {7, 17}
    BY EachPlace, PlaceObjects DEF Nameless
  <2> QED BY <2>1, <2>2
<1>6. \A name, obj, a, b : Pair(name, obj, a, b) /\ k \in {a, b} =>
        (pro[j].p_explicit = pro[k].p_explicit <=> pro[j].p_obj = pro[k].p_obj)
  OBVIOUS
<1> HIDE DEF Pair
<1> QED BY <1>2, <1>3, <1>4, <1>5, <1>6

LEMMA ObjectsOf ==
  /\ \A k \in Places : pro[k].p_obj # Nameless => pro[k].p_obj \in Objects
  /\ \A obj \in Objects : obj # Nameless /\ \E k \in Places : pro[k].p_obj = obj
BY PlaceNames DEF Objects
-----------------------------------------------------------------------------
(* The entry a word finds, and the one that the manual gives it.           *)

LEMMA LeastPlace ==
  ASSUME NEW n \in Nat, NEW I \in SUBSET (1..n), I # {}
  PROVE  Min(I) \in I /\ \A j \in I : Min(I) <= j
<1>1. PICK k \in I : \A j \in I : k <= j
  <2>1. I \in SUBSET Nat
    OBVIOUS
  <2> QED BY <2>1, LowestLemma
<1> QED BY <1>1 DEF Min

LEMMA ShortFound ==
  ASSUME NEW w
  PROVE  LET e == ShortOption(w)
         IN  /\ e # 0 => /\ e \in Places /\ eqin(pro[e].p_name, w)
                         /\ \A k \in Places : eqin(pro[k].p_name, w) => e <= k
             /\ e = 0 => \A k \in Places : ~eqin(pro[k].p_name, w)
<1> DEFINE I == {k \in 1..Len(pro) : eqin(pro[k].p_name, w)}
<1>1. ShortOption(w) = IF I # {} THEN Min(I) ELSE 0
  BY DEF ShortOption, SelectInSeq
<1>2. I = {k \in Places : eqin(pro[k].p_name, w)} /\ I \in SUBSET (1..18) /\ 18 \in Nat
  BY PlaceNames DEF Places
<1>3. I # {} => Min(I) \in I /\ \A j \in I : Min(I) <= j
  <2> HIDE DEF I
  <2> QED BY <1>2, LeastPlace
<1>4. 0 \notin Places
  BY DEF Places
<1> HIDE DEF eqin
<1> QED BY <1>1, <1>2, <1>3, <1>4

LEMMA DocumentedFound ==
  ASSUME NEW w
  PROVE  LET d == Documented(w)
             Is(k) == \/ w.prefix = "-" /\ pro[k].p_name = w.name
                      \/ \E c \in DOMAIN option_conversions :
                           /\ w.prefix \in {"--", "+"}
                           /\ option_conversions[c].long_name = w.name
                           /\ option_conversions[c].short_name = pro[k].p_name
         IN  /\ d # 0 => d \in Places /\ Is(d)
             /\ d = 0 => \A k \in Places : ~Is(k)
<1> DEFINE Is(k) == \/ w.prefix = "-" /\ pro[k].p_name = w.name
                    \/ \E c \in DOMAIN option_conversions :
                         /\ w.prefix \in {"--", "+"}
                         /\ option_conversions[c].long_name = w.name
                         /\ option_conversions[c].short_name = pro[k].p_name
           I == {k \in 1..Len(pro) : Is(k)}
<1>1. Documented(w) = IF I # {} THEN Min(I) ELSE 0
  BY DEF Documented, SelectInSeq
<1>2. I = {k \in Places : Is(k)} /\ I \in SUBSET (1..18) /\ 18 \in Nat
  BY PlaceNames DEF Places
<1>3. I # {} => Min(I) \in I
  <2> HIDE DEF I
  <2> QED BY <1>2, LeastPlace
<1>4. 0 \notin Places
  BY DEF Places
<1> HIDE DEF Is
<1>5. /\ Documented(w) # 0 => Documented(w) \in Places /\ Is(Documented(w))
      /\ Documented(w) = 0 => \A k \in Places : ~Is(k)
  BY <1>1, <1>2, <1>3, <1>4
<1> QED BY <1>5 DEF Is

Conversions == 1..7

LEMMA ConversionNames ==
  /\ Len(option_conversions) = 7 /\ DOMAIN option_conversions = Conversions
  /\ option_conversions[1].long_name = "output" /\ option_conversions[1].short_name = "o"
  /\ option_conversions[2].long_name = "line-length" /\ option_conversions[2].short_name = "l"
  /\ option_conversions[3].long_name = "ignore-profile" /\ option_conversions[3].short_name = "npro"
  /\ option_conversions[4].long_name = "dont-break-function-decl-args" /\ option_conversions[4].short_name = "nbfda"
  /\ option_conversions[5].long_name = "dont-break-function-decl-args-end" /\ option_conversions[5].short_name = "nbfde"
  /\ option_conversions[6].long_name = "break-function-decl-args" /\ option_conversions[6].short_name = "bfda"
  /\ option_conversions[7].long_name = "break-function-decl-args-end" /\ option_conversions[7].short_name = "bfde"
BY DEF option_conversions, Conversions

LEMMA EachConversion == \A c \in Conversions : c = 1 \/ c = 2 \/ c = 3 \/ c = 4 \/ c = 5 \/ c = 6 \/ c = 7
BY DEF Conversions

LEMMA LongDiffer ==
  /\ \A c, d \in Conversions : option_conversions[c].long_name = option_conversions[d].long_name => c = d
  /\ \A c, d \in Conversions : option_conversions[c].short_name = option_conversions[d].short_name => c = d
<1>1. \A c, d \in Conversions : option_conversions[c].long_name = option_conversions[d].long_name => c = d
  BY EachConversion, ConversionNames
<1>2. \A c, d \in Conversions : option_conversions[c].short_name = option_conversions[d].short_name => c = d
  BY EachConversion, ConversionNames
<1> QED BY <1>1, <1>2

LEMMA LongFound ==
  ASSUME NEW w
  PROVE  LET c == LongName(w)
         IN  /\ c # 0 => c \in Conversions /\ eqin(option_conversions[c].long_name, w)
             /\ c = 0 => \A k \in Conversions : ~eqin(option_conversions[k].long_name, w)
<1> DEFINE I == {k \in 1..Len(option_conversions) : eqin(option_conversions[k].long_name, w)}
<1>1. LongName(w) = IF I # {} THEN Min(I) ELSE 0
  BY DEF LongName, SelectInSeq
<1>2. I = {k \in Conversions : eqin(option_conversions[k].long_name, w)} /\ I \in SUBSET (1..7) /\ 7 \in Nat
  BY ConversionNames DEF Conversions
<1>3. I # {} => Min(I) \in I
  <2> HIDE DEF I
  <2> QED BY <1>2, LeastPlace
<1>4. 0 \notin Conversions
  BY DEF Conversions
<1> HIDE DEF eqin
<1> QED BY <1>1, <1>2, <1>3, <1>4

LEMMA LongOptionFound ==
  ASSUME NEW w, LongOption(w) # 0
  PROVE  /\ LongName(w) # 0 /\ LongOption(w) \in Places
         /\ pro[LongOption(w)].p_name = option_conversions[LongName(w)].short_name
<1> DEFINE I == {k \in 1..Len(pro) : pro[k].p_name = option_conversions[LongName(w)].short_name}
<1>1. LongName(w) # 0 /\ LongOption(w) = IF I # {} THEN Min(I) ELSE 0
  BY DEF LongOption, SelectInSeq
<1>2. I \in SUBSET (1..18) /\ 18 \in Nat /\ I \subseteq Places
  BY PlaceNames DEF Places
<1>3. I # {} => Min(I) \in I
  <2> HIDE DEF I
  <2> QED BY <1>2, LeastPlace
<1> QED BY <1>1, <1>2, <1>3

\* The two long options that another name of the table hides.
Shadowed(w) == w.prefix # "-" /\ w.name \in {"break-function-decl-args-end", "dont-break-function-decl-args-end"}

LEMMA BeginningsAre ==
  \A name : \A s \in Beginnings(name) :
    \/ name \in {"lc", "lx"} /\ s = "l"
    \/ name = "ip" /\ s = "i"
    \/ name = "break-function-decl-args-end" /\ s = "break-function-decl-args"
    \/ name = "dont-break-function-decl-args-end" /\ s = "dont-break-function-decl-args"
BY DEF Beginnings

LEMMA ShortAgrees ==
  ASSUME NEW w, w.prefix = "-", ShortOption(w) # 0
  PROVE  \/ /\ pro[ShortOption(w)].p_name = w.name
            /\ Documented(w) = ShortOption(w)
         \/ w.name = "lx" /\ ShortOption(w) = 9
<1> DEFINE e == ShortOption(w)
           d == Documented(w)
<1>1. e \in Places /\ eqin(pro[e].p_name, w) /\ \A k \in Places : eqin(pro[k].p_name, w) => e <= k
  BY ShortFound
<1> HIDE DEF e
<1>2. CASE pro[e].p_name = w.name
  <2>1. d # 0
    BY <1>1, <1>2, DocumentedFound
  <2>2. d \in Places /\ pro[d].p_name = w.name
    BY <2>1, DocumentedFound
  <2>3. d = e
    BY <1>1, <1>2, <2>2, NamesDiffer
  <2> QED BY <1>2, <2>3 DEF e
<1>3. CASE pro[e].p_name # w.name
  <2>1. pro[e].p_name \in Beginnings(w.name)
    BY <1>1, <1>3 DEF eqin
  <2>2. CASE w.name = "lc"
    <3>1. 8 \in Places /\ eqin(pro[8].p_name, w)
      BY <2>2, PlaceNames DEF eqin, Places
    <3>2. e <= 8 /\ pro[e].p_name = "l" /\ pro[9].p_name = "l" /\ 9 \in Places
      BY <1>1, <2>1, <2>2, <3>1, BeginningsAre, PlaceNames DEF Places
    <3>3. e = 9
      BY <1>1, <3>2, NamesDiffer
    <3> QED BY <3>2, <3>3
  <2>3. CASE w.name = "ip"
    <3>1. 11 \in Places /\ eqin(pro[11].p_name, w)
      BY <2>3, PlaceNames DEF eqin, Places
    <3>2. e <= 11 /\ pro[e].p_name = "i" /\ pro[12].p_name = "i" /\ 12 \in Places
      BY <1>1, <2>1, <2>3, <3>1, BeginningsAre, PlaceNames DEF Places
    <3>3. e = 12
      BY <1>1, <3>2, NamesDiffer
    <3> QED BY <3>2, <3>3
  <2>4. CASE w.name = "lx"
    <3>1. pro[e].p_name = "l" /\ pro[9].p_name = "l" /\ 9 \in Places
      BY <1>1, <2>1, <2>4, BeginningsAre, PlaceNames DEF Places
    <3>2. e = 9
      BY <1>1, <3>1, NamesDiffer
    <3> QED BY <2>4, <3>2 DEF e
  <2>5. CASE w.name \notin {"lc", "ip", "lx"}
    <3>1. pro[e].p_name \in {"break-function-decl-args", "dont-break-function-decl-args"}
      BY <2>1, <2>5, BeginningsAre
    <3> QED BY <1>1, <3>1, EachPlace, PlaceNames
  <2> QED BY <2>2, <2>3, <2>4, <2>5
<1> QED BY <1>2, <1>3

LEMMA LongAgrees ==
  ASSUME NEW w, w.prefix \in {"--", "+"}, LongOption(w) # 0
  PROVE  LET c == LongName(w)
         IN  \/ /\ option_conversions[c].long_name = w.name
                /\ Documented(w) = LongOption(w)
             \/ Shadowed(w) /\ LongOption(w) \in {6, 16} /\ Documented(w) \in {7, 17}
<1> DEFINE c == LongName(w)
           e == LongOption(w)
           d == Documented(w)
<1>1. /\ c \in Conversions /\ eqin(option_conversions[c].long_name, w)
      /\ e \in Places /\ pro[e].p_name = option_conversions[c].short_name
  BY LongOptionFound, LongFound
<1> HIDE DEF e, c
<1>2. CASE option_conversions[c].long_name = w.name
  <2>1. d # 0
    BY <1>1, <1>2, DocumentedFound, ConversionNames
  <2>2. d \in Places /\ \E k \in Conversions : /\ option_conversions[k].long_name = w.name
                                               /\ option_conversions[k].short_name = pro[d].p_name
    BY <2>1, DocumentedFound, ConversionNames
  <2>3. pro[d].p_name = pro[e].p_name
    BY <1>1, <1>2, <2>2, LongDiffer
  <2>4. d = e
    BY <1>1, <2>2, <2>3, NamesDiffer
  <2> QED BY <1>2, <2>4 DEF e, c
<1>3. CASE option_conversions[c].long_name # w.name
  <2>1. option_conversions[c].long_name \in Beginnings(w.name)
    BY <1>1, <1>3 DEF eqin
  <2>2. \/ /\ w.name = "break-function-decl-args-end"
           /\ option_conversions[c].long_name = "break-function-decl-args"
        \/ /\ w.name = "dont-break-function-decl-args-end"
           /\ option_conversions[c].long_name = "dont-break-function-decl-args"
    BY <1>1, <2>1, EachConversion, BeginningsAre, ConversionNames
  <2>3. c \in {4, 6}
    BY <1>1, <2>2, EachConversion, ConversionNames
  <2>4. e \in {6, 16}
    BY <1>1, <2>3, ConversionNames, PlaceNames, NamesDiffer DEF Places
  <2>5. 7 \in Places /\ 17 \in Places /\ 5 \in Conversions /\ 7 \in Conversions
    BY DEF Places, Conversions
  <2>6. d # 0
    BY <2>2, <2>5, DocumentedFound, ConversionNames, PlaceNames
  <2>7. d \in Places /\ \E k \in Conversions : /\ option_conversions[k].long_name = w.name
                                               /\ option_conversions[k].short_name = pro[d].p_name
    BY <2>6, DocumentedFound, ConversionNames
  <2>8. pro[d].p_name \in {"nbfde", "bfde"}
    BY EachConversion, <2>2, <2>7, ConversionNames
  <2>9. d \in {7, 17}
    BY <2>5, <2>7, <2>8, PlaceNames, NamesDiffer
  <2>10. Shadowed(w)
    BY <2>2 DEF Shadowed
  <2> QED BY <2>4, <2>9, <2>10 DEF e, c
<1> QED BY <1>2, <1>3

\* An option that indent accepts is the one the manual means, with its value or the parameter.
LEMMA EntryAgrees ==
  ASSUME NEW w \in Word, IsOption(w), NEW param \in Word \cup {NoWord}, ~DieError(w, param)
  PROVE  /\ Entry(w) \in Places /\ Documented(w) \in Places
         /\ pro[Entry(w)].p_type # "PRSTRING"
         /\ NeedsValue(w) <=> TakesParameter(w)
         /\ TakesParameter(w) => param # NoWord
         /\ ~Shadowed(w) =>
              /\ Documented(w) = Entry(w)
              /\ pro[Entry(w)].p_type = "INT" =>
                   Value(w, param) = (IF TakesParameter(w) THEN param.value ELSE w.value)
<1>1. Entry(w) # 0 /\ pro[Entry(w)].p_type # "PRSTRING" /\ (TakesParameter(w) => param # NoWord)
      /\ ~(pro[Entry(w)].p_type = "INT" /\ Value(w, param) < 0)
  BY DEF DieError
<1>2. (\A k \in {6, 7, 16, 17} : pro[k].p_type = "BOOL") /\ pro[9].p_type = "INT"
  BY PlaceTypes DEF Flags, Numbers
<1>3. w.prefix \in {"-", "--", "+"}
  BY DEF IsOption, Word
<1>4. NoNumber = -2 /\ NoValue = -1
  BY DEF NoNumber, NoValue
<1>5. CASE w.prefix = "-"
  <2>1. Entry(w) = ShortOption(w) /\ Rest(w) = IF pro[Entry(w)].p_name = w.name THEN w.value ELSE NoNumber
    BY <1>5 DEF Entry, Rest
  <2>2. Entry(w) \in Places
    BY <1>1, <2>1, ShortFound
  <2>3. ~(w.name = "lx" /\ Entry(w) = 9)
    <3> SUFFICES ASSUME w.name = "lx", Entry(w) = 9 PROVE FALSE
      OBVIOUS
    <3>1. Rest(w) = NoNumber
      BY <2>1, PlaceNames
    <3>2. Value(w, param) = NoNumber
      BY <1>4, <3>1 DEF Value, TakesParameter
    <3> QED BY <1>1, <1>2, <1>4, <3>2
  <2>4. Documented(w) = Entry(w) /\ pro[Entry(w)].p_name = w.name
    BY <1>1, <1>5, <2>1, <2>3, ShortAgrees
  <2>5. NeedsValue(w) <=> TakesParameter(w)
    BY <2>1, <2>4 DEF NeedsValue, TakesParameter
  <2>6. pro[Entry(w)].p_type = "INT" =>
          Value(w, param) = (IF TakesParameter(w) THEN param.value ELSE w.value)
    <3> SUFFICES ASSUME pro[Entry(w)].p_type = "INT"
                 PROVE  Value(w, param) = (IF TakesParameter(w) THEN param.value ELSE w.value)
      OBVIOUS
    <3>1. Value(w, param) # NoNumber
      BY <1>1, <1>4
    <3> QED BY <2>1, <2>4, <3>1 DEF Value
  <2> QED BY <1>1, <2>2, <2>4, <2>5, <2>6
<1>6. CASE w.prefix \in {"--", "+"}
  <2>1. /\ Entry(w) = LongOption(w)
        /\ Rest(w) = IF option_conversions[LongName(w)].long_name = w.name THEN w.value ELSE NoNumber
    BY <1>6 DEF Entry, Rest
  <2>2. Entry(w) \in Places
    BY <1>1, <2>1, LongOptionFound
  <2>3. CASE option_conversions[LongName(w)].long_name = w.name /\ Documented(w) = LongOption(w)
    <3>1. NeedsValue(w) <=> TakesParameter(w)
      BY <2>1, <2>3 DEF NeedsValue, TakesParameter
    <3>2. pro[Entry(w)].p_type = "INT" =>
            Value(w, param) = (IF TakesParameter(w) THEN param.value ELSE w.value)
      <4> SUFFICES ASSUME pro[Entry(w)].p_type = "INT"
                   PROVE  Value(w, param) = (IF TakesParameter(w) THEN param.value ELSE w.value)
        OBVIOUS
      <4>1. Value(w, param) # NoNumber
        BY <1>1, <1>4
      <4> QED BY <2>1, <2>3, <4>1 DEF Value
    <3> QED BY <1>1, <2>1, <2>2, <2>3, <3>1, <3>2
  <2>4. CASE Shadowed(w) /\ LongOption(w) \in {6, 16} /\ Documented(w) \in {7, 17}
    <3>1. 7 \in Places /\ 17 \in Places
      BY DEF Places
    <3>2. ~NeedsValue(w) /\ ~TakesParameter(w)
      BY <1>2, <2>1, <2>4 DEF NeedsValue, TakesParameter
    <3> QED BY <1>1, <2>2, <2>4, <3>1, <3>2
  <2> QED BY <1>1, <1>6, <2>1, <2>3, <2>4, LongAgrees
<1> QED BY <1>3, <1>5, <1>6

-----------------------------------------------------------------------------
(* Reading the words as the manual does.                                   *)

Nothing == [open |-> FALSE, given |-> <<>>, plain |-> <<>>]
Givens == [option : Places, value : Int]
Closed == [open : {FALSE}, given : Seq(Givens), plain : Seq(STRING)]

\* The recursion of ReadingTo defines a function.
LEMMA ReadingToDef ==
  ASSUME NEW list \in Seq(Word)
  PROVE  ReadingTo(list) = [n \in 0..Len(list) |->
           IF n = 0 THEN Nothing ELSE ReadWord(ReadingTo(list)[n - 1], list[n])]
<1> DEFINE Step(g, n) == IF n = 0 THEN Nothing ELSE ReadWord(g[n - 1], list[n])
           T == {n \in 0..Len(list) : \E g : g = [m \in 0..n |-> Step(g, m)]}
<1>1. Len(list) \in Nat
  OBVIOUS
<1> HIDE DEF ReadWord
<1>2. 0 \in T
  <2> DEFINE g == [m \in 0..0 |-> Nothing]
  <2>1. g = [m \in 0..0 |-> Step(g, m)]
    OBVIOUS
  <2>2. 0 \in 0..Len(list)
    BY <1>1
  <2> HIDE DEF Step, g
  <2> QED BY <2>1, <2>2
<1>3. ASSUME NEW n \in 0..Len(list) - 1, n \in T PROVE n + 1 \in T
  <2>1. PICK g : g = [m \in 0..n |-> Step(g, m)]
    BY <1>3
  <2> DEFINE h == [m \in 0..n + 1 |-> IF m = n + 1 THEN Step(g, m) ELSE g[m]]
  <2>2. \A m \in 0..n : h[m] = g[m]
    BY <1>1
  <2>3. \A m \in 0..n + 1 : h[m] = Step(g, m)
    <3> HIDE DEF Step
    <3> QED BY <1>1, <2>1
  <2>4. \A m \in 0..n + 1 : Step(g, m) = Step(h, m)
    <3> HIDE DEF h
    <3> QED BY <1>1, <2>2
  <2>5. h = [m \in 0..n + 1 |-> Step(h, m)]
    <3>1. h = [m \in 0..n + 1 |-> h[m]]
      BY Zenon
    <3> HIDE DEF h, Step
    <3> QED BY <2>3, <2>4, <3>1
  <2>6. n + 1 \in 0..Len(list)
    BY <1>1
  <2> HIDE DEF h, Step
  <2> QED BY <2>5, <2>6
<1>4. Len(list) \in T
  <2> HIDE DEF T
  <2>1. 0..Len(list) \subseteq T
    BY <1>1, <1>2, <1>3, UpToInduction
  <2> QED BY <1>1, <2>1
<1>5. PICK g : g = [m \in 0..Len(list) |-> Step(g, m)]
  BY <1>4
<1> QED BY <1>5 DEF ReadingTo, Nothing

LEMMA ReadingStep ==
  ASSUME NEW list \in Seq(Word)
  PROVE  /\ ReadingTo(list)[0] = Nothing
         /\ \A n \in 1..Len(list) : ReadingTo(list)[n] = ReadWord(ReadingTo(list)[n - 1], list[n])
<1> DEFINE f == ReadingTo(list)
           body == [n \in 0..Len(list) |-> IF n = 0 THEN Nothing ELSE ReadWord(f[n - 1], list[n])]
<1> HIDE DEF ReadWord
<1>1. f = body /\ Len(list) \in Nat /\ 0 \in 0..Len(list)
  BY ReadingToDef
<1> HIDE DEF f
<1>2. body[0] = Nothing
  BY <1>1
<1>3. \A n \in 1..Len(list) : body[n] = ReadWord(f[n - 1], list[n])
  BY <1>1
<1> HIDE DEF body
<1>4. f[0] = Nothing /\ \A n \in 1..Len(list) : f[n] = ReadWord(f[n - 1], list[n])
  BY <1>1, <1>2, <1>3
<1> QED BY <1>4 DEF f

LEMMA NothingClosed == Nothing \in Closed
BY DEF Nothing, Closed

\* An option, with the value that follows it or the next word as its value.
LEMMA ReadOption ==
  ASSUME NEW r \in Closed, NEW w \in Word, IsOption(w), Documented(w) \in Places
  PROVE  /\ ~NeedsValue(w) =>
              ReadWord(r, w) = [open |-> FALSE, plain |-> r.plain,
                                given |-> Append(r.given, [option |-> Documented(w), value |-> w.value])]
         /\ NeedsValue(w) => \A v \in Word :
              ReadWord(ReadWord(r, w), v) =
                [open |-> FALSE, plain |-> r.plain,
                 given |-> Append(r.given, [option |-> Documented(w), value |-> v.value])]
<1> DEFINE d == Documented(w)
           g == [option |-> d, value |-> w.value]
           s == Append(r.given, g)
           q == [open |-> NeedsValue(w), given |-> s, plain |-> r.plain]
<1>1. /\ r = [open |-> FALSE, given |-> r.given, plain |-> r.plain]
      /\ r.open = FALSE /\ r.given \in Seq(Givens) /\ w.value \in Int
  BY DEF Closed, Word
<1>2. ReadWord(r, w) = [r EXCEPT !.open = NeedsValue(w), !.given = Append(@, g)]
  BY <1>1 DEF ReadWord
<1>3. ReadWord(r, w) = q
  <2> HIDE DEF g
  <2> QED BY <1>1, <1>2
<1>4. CASE ~NeedsValue(w)
  <2>1. NeedsValue(w) = FALSE
    BY <1>4 DEF NeedsValue
  <2> QED BY <1>3, <1>4, <2>1
<1>5. CASE NeedsValue(w)
  <2> SUFFICES ASSUME NEW v \in Word
               PROVE  ReadWord(q, v) = [open |-> FALSE, plain |-> r.plain,
                                        given |-> Append(r.given, [option |-> d, value |-> v.value])]
    BY <1>3, <1>5
  <2>1. g \in Givens /\ v.value \in Int
    BY <1>1 DEF Givens, Word
  <2>2. s \in Seq(Givens) /\ Len(s) = Len(r.given) + 1 /\ s[Len(s)] = g /\ Len(r.given) \in Nat
    <3> HIDE DEF g
    <3> QED BY <1>1, <2>1
  <2>3. ReadWord(q, v) = [open |-> FALSE, plain |-> r.plain,
                          given |-> [s EXCEPT ![Len(s)].value = v.value]]
    <3> HIDE DEF s
    <3> QED BY <1>5 DEF ReadWord
  <2>4. [s EXCEPT ![Len(s)].value = v.value] = Append(r.given, [option |-> d, value |-> v.value])
    <3> DEFINE u == [option |-> d, value |-> v.value]
    <3>1. [s EXCEPT ![Len(s)].value = v.value] = [s EXCEPT ![Len(s)] = u]
      <4>1. [g EXCEPT !.value = v.value] = u
        OBVIOUS
      <4> HIDE DEF s, u, g
      <4>2. [s EXCEPT ![Len(s)].value = v.value] = [s EXCEPT ![Len(s)] = [s[Len(s)] EXCEPT !.value = v.value]]
        OBVIOUS
      <4> QED BY <2>2, <4>1, <4>2
    <3>2. u \in Givens
      BY <2>1 DEF Givens
    <3> DEFINE a == Append(r.given, u)
               b == [s EXCEPT ![Len(s)] = u]
    <3>3. a \in Seq(Givens) /\ Len(a) = Len(r.given) + 1 /\ \A j \in 1..Len(a) : a[j] = IF j = Len(a) THEN u ELSE r.given[j]
      <4> HIDE DEF u
      <4> QED BY <1>1, <3>2
    <3>4. b \in Seq(Givens) /\ Len(b) = Len(r.given) + 1
      <4> HIDE DEF u, s
      <4> QED BY <2>2, <3>2
    <3>5. \A j \in 1..Len(b) : b[j] = IF j = Len(b) THEN u ELSE r.given[j]
      <4>1. \A j \in 1..Len(r.given) : s[j] = r.given[j]
        <5> HIDE DEF g
        <5> QED BY <1>1, <2>1
      <4> HIDE DEF u, s
      <4> QED BY <2>2, <3>4, <4>1
    <3> HIDE DEF a, b
    <3>6. a = b
      BY <3>3, <3>4, <3>5, SameElements
    <3> QED BY <3>1, <3>6 DEF a, b
  <2> QED BY <2>3, <2>4
<1> QED BY <1>4, <1>5

\* A plain word, and the word for the standard input.
LEMMA ReadPlain ==
  ASSUME NEW r \in Closed, NEW w \in Word, w.prefix = "" \/ w = Option(Nameless)
  PROVE  ReadWord(r, w) = IF w.prefix = "" THEN [r EXCEPT !.plain = Append(@, w.name)] ELSE r
<1>1. r.open = FALSE
  BY DEF Closed
<1>2. ~IsOption(w)
  <2>1. Option(Nameless).name = Nameless
    BY DEF Option
  <2> QED BY <2>1 DEF IsOption
<1>3. CASE w.prefix = ""
  <2>1. ReadWord(r, w) = [r EXCEPT !.plain = Append(@, w.name)]
    BY <1>1, <1>2, <1>3 DEF ReadWord
  <2> QED BY <1>3, <2>1
<1>4. CASE w.prefix # ""
  <2>1. ReadWord(r, w) = r
    BY <1>1, <1>2, <1>4 DEF ReadWord
  <2> QED BY <1>4, <2>1
<1> QED BY <1>3, <1>4

-----------------------------------------------------------------------------
(* What a list of options means when one more is given.                    *)

LEMMA GreatestPlace ==
  ASSUME NEW n \in Nat, NEW T \in SUBSET (1..n), T # {}
  PROVE  Max(T) \in T /\ \A j \in T : j <= Max(T)
<1>1. PICK k \in T : \A j \in T : j <= k
  <2>1. T \in SUBSET (0..n)
    OBVIOUS
  <2> QED BY <2>1, HighestLemma
<1>2. \E t \in T : \A j \in T : t >= j
  BY <1>1
<1>3. Max(T) \in T /\ \A j \in T : Max(T) >= j
  BY <1>2 DEF Max
<1> QED BY <1>3

LEMMA TopPlace ==
  ASSUME NEW n \in Nat, NEW T \in SUBSET (1..n), n \in T
  PROVE  Max(T) = n
<1>1. T # {}
  OBVIOUS
<1>2. Max(T) \in T /\ \A j \in T : j <= Max(T)
  BY <1>1, GreatestPlace
<1>3. Max(T) \in 1..n /\ n <= Max(T)
  BY <1>2
<1> QED BY <1>3

Marks(g) == {pro[g[k].option].p_explicit : k \in DOMAIN g}

\* What the table makes of the options, -nip being one of its styles.
NamedByCode(given, obj) == {k \in DOMAIN given : pro[given[k].option].p_obj = obj}

StyledByCode(given, obj) ==
  {k \in DOMAIN given : \E m \in Range(pro[given[k].option].members) : Sets(m, obj)}

MeantByCode(given, obj) ==
  IF NamedByCode(given, obj) # {}
  THEN LET g == given[Max(NamedByCode(given, obj))] IN Stored(pro[g.option], g.value)
  ELSE IF StyledByCode(given, obj) # {}
  THEN LET style == pro[given[Max(StyledByCode(given, obj))].option].members
           m == CHOOSE w \in Range(style) : Sets(w, obj)
       IN  Stored(pro[Documented(m)], m.value)
  ELSE Default(obj)

LEMMA MeantNothing == \A obj : MeantByCode(<<>>, obj) = Default(obj)
BY DEF MeantByCode, NamedByCode, StyledByCode

LEMMA MarksNothing == Marks(<<>>) = {}
BY DEF Marks

LEMMA AppendGiven ==
  ASSUME NEW g \in Seq(Givens), NEW x \in Givens
  PROVE  LET h == Append(g, x)
             n == Len(g)
         IN  /\ h \in Seq(Givens) /\ n \in Nat /\ DOMAIN g = 1..n /\ DOMAIN h = 1..n + 1
             /\ h[n + 1] = x /\ \A k \in 1..n : h[k] = g[k]
OBVIOUS

LEMMA MarksAppend ==
  ASSUME NEW g \in Seq(Givens), NEW x \in Givens
  PROVE  Marks(Append(g, x)) = Marks(g) \cup {pro[x.option].p_explicit}
<1> DEFINE h == Append(g, x)
           n == Len(g)
<1>1. /\ n \in Nat /\ DOMAIN g = 1..n /\ DOMAIN h = 1..n + 1
      /\ h[n + 1] = x /\ \A k \in 1..n : h[k] = g[k]
  BY AppendGiven
<1>2. 1..n + 1 = (1..n) \cup {n + 1}
  BY <1>1
<1> HIDE DEF h, n
<1>3. Marks(h) = Marks(g) \cup {pro[x.option].p_explicit}
  BY <1>1, <1>2 DEF Marks
<1> QED BY <1>3 DEF h

MeantBy(e, obj) ==
  LET m == CHOOSE w \in Range(e.members) : Sets(w, obj) IN Stored(pro[Documented(m)], m.value)

LEMMA MeantAppend ==
  ASSUME NEW g \in Seq(Givens), NEW x \in Givens, NEW obj
  PROVE  LET e == pro[x.option]
         IN  MeantByCode(Append(g, x), obj) =
               IF e.p_obj = obj THEN Stored(e, x.value)
               ELSE IF NamedByCode(g, obj) # {} THEN MeantByCode(g, obj)
               ELSE IF \E m \in Range(e.members) : Sets(m, obj) THEN MeantBy(e, obj)
               ELSE MeantByCode(g, obj)
<1> DEFINE h == Append(g, x)
           n == Len(g)
           e == pro[x.option]
           E == NamedByCode(g, obj)
           B == StyledByCode(g, obj)
           named == e.p_obj = obj
           styled == \E m \in Range(e.members) : Sets(m, obj)
<1>1. /\ n \in Nat /\ DOMAIN g = 1..n /\ DOMAIN h = 1..n + 1
      /\ h[n + 1] = x /\ \A k \in 1..n : h[k] = g[k]
  BY AppendGiven
<1>2. (1..n + 1 = (1..n) \cup {n + 1}) /\ n + 1 \in Nat /\ n + 1 \notin 1..n
  BY <1>1
<1> HIDE DEF h, n
<1>3. NamedByCode(h, obj) = E \cup (IF named THEN {n + 1} ELSE {}) /\ E \in SUBSET (1..n)
  BY <1>1, <1>2 DEF NamedByCode
<1>4. StyledByCode(h, obj) = B \cup (IF styled THEN {n + 1} ELSE {}) /\ B \in SUBSET (1..n)
  <2> HIDE DEF Sets
  <2>1. \A k \in 1..n : k \in StyledByCode(h, obj) <=> k \in B
    BY <1>1, <1>2 DEF StyledByCode
  <2>2. n + 1 \in StyledByCode(h, obj) <=> styled
    BY <1>1, <1>2 DEF StyledByCode
  <2>3. StyledByCode(h, obj) \subseteq 1..n + 1 /\ B \in SUBSET (1..n)
    BY <1>1 DEF StyledByCode
  <2> HIDE DEF styled, B
  <2>4. \A k \in 1..n + 1 : k \in StyledByCode(h, obj) <=> (k \in B \/ (k = n + 1 /\ styled))
    BY <1>2, <2>1, <2>2, <2>3
  <2> QED BY <1>2, <2>3, <2>4
<1>5. \A T \in SUBSET (1..n) : T # {} => Max(T) \in T /\ Max(T) \in 1..n
  BY <1>1, GreatestPlace
<1>6. \A T \in SUBSET (1..n + 1) : n + 1 \in T => Max(T) = n + 1
  BY <1>2, TopPlace
<1> HIDE DEF named, styled, E, B, e
<1>7. MeantByCode(h, obj) =
        IF NamedByCode(h, obj) # {}
        THEN Stored(pro[h[Max(NamedByCode(h, obj))].option], h[Max(NamedByCode(h, obj))].value)
        ELSE IF StyledByCode(h, obj) # {}
        THEN MeantBy(pro[h[Max(StyledByCode(h, obj))].option], obj)
        ELSE Default(obj)
  BY DEF MeantByCode, MeantBy
<1>8. MeantByCode(g, obj) =
        IF E # {} THEN Stored(pro[g[Max(E)].option], g[Max(E)].value)
        ELSE IF B # {} THEN MeantBy(pro[g[Max(B)].option], obj)
        ELSE Default(obj)
  BY DEF MeantByCode, MeantBy, E, B
<1>9. CASE named
  <2>1. NamedByCode(h, obj) \in SUBSET (1..n + 1) /\ n + 1 \in NamedByCode(h, obj)
    BY <1>2, <1>3, <1>9
  <2>2. Max(NamedByCode(h, obj)) = n + 1
    BY <1>6, <2>1
  <2>3. MeantByCode(h, obj) = Stored(e, x.value)
    BY <1>1, <1>7, <2>1, <2>2 DEF e
  <2> QED BY <1>9, <2>3 DEF named, e, h
<1>10. CASE ~named /\ E # {}
  <2>1. NamedByCode(h, obj) = E /\ h[Max(E)] = g[Max(E)]
    BY <1>1, <1>3, <1>5, <1>10
  <2>2. MeantByCode(h, obj) = MeantByCode(g, obj)
    BY <1>7, <1>8, <1>10, <2>1
  <2> QED BY <1>10, <2>2 DEF named, e, h, E
<1>11. CASE ~named /\ E = {} /\ styled
  <2>1. NamedByCode(h, obj) = {} /\ StyledByCode(h, obj) \in SUBSET (1..n + 1) /\ n + 1 \in StyledByCode(h, obj)
    BY <1>2, <1>3, <1>4, <1>11
  <2>2. Max(StyledByCode(h, obj)) = n + 1
    BY <1>6, <2>1
  <2>3. MeantByCode(h, obj) = MeantBy(e, obj)
    BY <1>1, <1>7, <2>1, <2>2 DEF e
  <2> QED BY <1>11, <2>3 DEF named, e, h, E, styled
<1>12. CASE ~named /\ E = {} /\ ~styled
  <2>1. NamedByCode(h, obj) = {} /\ StyledByCode(h, obj) = B
    BY <1>3, <1>4, <1>12
  <2>2. B # {} => h[Max(B)] = g[Max(B)]
    BY <1>1, <1>4, <1>5
  <2>3. MeantByCode(h, obj) = MeantByCode(g, obj)
    BY <1>7, <1>8, <1>12, <2>1, <2>2
  <2> QED BY <1>12, <2>3 DEF named, e, h, E, styled
<1> QED BY <1>9, <1>10, <1>11, <1>12

-----------------------------------------------------------------------------
(* Bundles of options.                                                     *)

Bundles == {9, 11, 12, 14, 15}

\* A short option that no other name begins is found.
LEMMA ShortIs ==
  ASSUME NEW w, w.prefix = "-", NEW k \in Places, w.name = pro[k].p_name
  PROVE  ShortOption(w) = k /\ Documented(w) = k
<1>1. eqin(pro[k].p_name, w)
  BY DEF eqin
<1>2. ShortOption(w) # 0 /\ ShortOption(w) \in Places
  BY <1>1, ShortFound
<1>3. w.name # "lx"
  BY EachPlace, PlaceNames
<1>4. pro[ShortOption(w)].p_name = w.name /\ Documented(w) = ShortOption(w)
  BY <1>2, <1>3, ShortAgrees
<1> QED BY <1>2, <1>4, NamesDiffer

LEMMA BundleWords ==
  /\ \A n \in Int : ShortOption(Set("ip", n)) = 11 /\ Documented(Set("ip", n)) = 11
  /\ \A n \in Int : ShortOption(Set("i", n)) = 12 /\ Documented(Set("i", n)) = 12
  /\ \A n \in Int : ShortOption(Set("l", n)) = 9 /\ Documented(Set("l", n)) = 9
  /\ ShortOption(Option("br")) = 14 /\ Documented(Option("br")) = 14
  /\ ShortOption(Option("bl")) = 15 /\ Documented(Option("bl")) = 15
<1>1. 9 \in Places /\ 11 \in Places /\ 12 \in Places /\ 14 \in Places /\ 15 \in Places
  BY DEF Places
<1>2. \A name, n : Set(name, n).prefix = "-" /\ Set(name, n).name = name
  BY DEF Set
<1>3. \A name : Option(name).prefix = "-" /\ Option(name).name = name
  BY DEF Option
<1>4. pro[9].p_name = "l" /\ pro[11].p_name = "ip" /\ pro[12].p_name = "i" /\ pro[14].p_name = "br" /\ pro[15].p_name = "bl"
  BY PlaceNames
<1>5. \A n \in Int : ShortOption(Set("ip", n)) = 11 /\ Documented(Set("ip", n)) = 11
  BY <1>1, <1>2, <1>4, ShortIs
<1>6. \A n \in Int : ShortOption(Set("i", n)) = 12 /\ Documented(Set("i", n)) = 12
  BY <1>1, <1>2, <1>4, ShortIs
<1>7. \A n \in Int : ShortOption(Set("l", n)) = 9 /\ Documented(Set("l", n)) = 9
  BY <1>1, <1>2, <1>4, ShortIs
<1>8. ShortOption(Option("br")) = 14 /\ Documented(Option("br")) = 14
  BY <1>1, <1>3, <1>4, ShortIs
<1>9. ShortOption(Option("bl")) = 15 /\ Documented(Option("bl")) = 15
  BY <1>1, <1>3, <1>4, ShortIs
<1> QED BY <1>5, <1>6, <1>7, <1>8, <1>9

Member(ms) ==
  /\ Len(ms) \in Nat /\ DOMAIN ms = 1..Len(ms)
  /\ \A j \in 1..Len(ms) : /\ Documented(ms[j]) = ShortOption(ms[j]) /\ Documented(ms[j]) \in Bundles
                           /\ ms[j].value \in Int
  /\ \A j, k \in 1..Len(ms) : pro[Documented(ms[j])].p_obj = pro[Documented(ms[k])].p_obj => j = k

LEMMA StyleMembers == \A k \in Styles : Member(pro[k].members)
<1>1. \A name, n : Set(name, n).value = n
  BY DEF Set
<1>2. Option("br").value \in Int /\ Option("bl").value \in Int
  BY DEF Option, NoValue
<1>3. /\ pro[9].p_obj = "max_col" /\ pro[11].p_obj = "indent_parameters" /\ pro[12].p_obj = "ind_size"
      /\ pro[14].p_obj = "btype_2" /\ pro[15].p_obj = "btype_2"
  BY PlaceObjects
<1>4. Member(<<Set("ip", 0)>>)
  <2> DEFINE ms == <<Set("ip", 0)>>
  <2>1. Len(ms) = 1 /\ DOMAIN ms = 1..1 /\ ms[1] = Set("ip", 0)
    OBVIOUS
  <2> HIDE DEF ms
  <2>2. \A j \in 1..Len(ms) : j = 1
    BY <2>1
  <2>3. Member(ms)
    BY <1>1, <2>1, <2>2, BundleWords DEF Member, Bundles
  <2> QED BY <2>3 DEF ms
<1>5. Member(KR)
  <2> DEFINE ms == KR
  <2>1. /\ Len(ms) = 4 /\ DOMAIN ms = 1..4 /\ ms[1] = Option("br") /\ ms[2] = Set("i", 4)
        /\ ms[3] = Set("ip", 0) /\ ms[4] = Set("l", 75)
    BY DEF KR
  <2> HIDE DEF ms
  <2>2. \A j \in 1..Len(ms) : j = 1 \/ j = 2 \/ j = 3 \/ j = 4
    BY <2>1
  <2>3. /\ Documented(ms[1]) = 14 /\ Documented(ms[2]) = 12 /\ Documented(ms[3]) = 11 /\ Documented(ms[4]) = 9
        /\ ShortOption(ms[1]) = 14 /\ ShortOption(ms[2]) = 12 /\ ShortOption(ms[3]) = 11 /\ ShortOption(ms[4]) = 9
    BY <2>1, BundleWords
  <2>4. ms[1].value \in Int /\ ms[2].value \in Int /\ ms[3].value \in Int /\ ms[4].value \in Int
    BY <1>1, <1>2, <2>1
  <2>5. Member(ms)
    BY <1>3, <2>1, <2>2, <2>3, <2>4 DEF Member, Bundles
  <2> QED BY <2>5 DEF ms
<1>6. Member(GNU)
  <2> DEFINE ms == GNU
  <2>1. /\ Len(ms) = 3 /\ DOMAIN ms = 1..3 /\ ms[1] = Option("bl") /\ ms[2] = Set("i", 2)
        /\ ms[3] = Set("ip", 5)
    BY DEF GNU
  <2> HIDE DEF ms
  <2>2. \A j \in 1..Len(ms) : j = 1 \/ j = 2 \/ j = 3
    BY <2>1
  <2>3. /\ Documented(ms[1]) = 15 /\ Documented(ms[2]) = 12 /\ Documented(ms[3]) = 11
        /\ ShortOption(ms[1]) = 15 /\ ShortOption(ms[2]) = 12 /\ ShortOption(ms[3]) = 11
    BY <2>1, BundleWords
  <2>4. ms[1].value \in Int /\ ms[2].value \in Int /\ ms[3].value \in Int
    BY <1>1, <1>2, <2>1
  <2>5. Member(ms)
    BY <1>3, <2>1, <2>2, <2>3, <2>4 DEF Member, Bundles
  <2> QED BY <2>5 DEF ms
<1>7. \A k \in Styles : k = 5 \/ k = 10 \/ k = 13
  BY DEF Styles
<1> QED BY <1>4, <1>5, <1>6, <1>7, PlaceTypes

\* The recursion of BundledTo defines a function.
Bundle(g, e, given, explicitly, n) ==
  IF n = 0 THEN given
  ELSE IF pro[ShortOption(e.members[n])].p_explicit \in explicitly THEN g[n - 1]
  ELSE [g[n - 1] EXCEPT ![pro[ShortOption(e.members[n])].p_obj] =
          Stored(pro[ShortOption(e.members[n])], e.members[n].value)]

LEMMA BundledToDef ==
  ASSUME NEW e, NEW given, NEW explicitly, Len(e.members) \in Nat
  PROVE  BundledTo(e, given, explicitly) =
           [n \in 0..Len(e.members) |-> Bundle(BundledTo(e, given, explicitly), e, given, explicitly, n)]
<1> DEFINE N == Len(e.members)
           Step(g, n) == Bundle(g, e, given, explicitly, n)
           T == {n \in 0..N : \E g : g = [m \in 0..n |-> Step(g, m)]}
<1>1. N \in Nat
  OBVIOUS
<1>2. \A g : Step(g, 0) = given
  BY DEF Bundle
<1>3. \A n \in 1..N : \A g, h : g[n - 1] = h[n - 1] => Step(g, n) = Step(h, n)
  BY DEF Bundle
<1> HIDE DEF N
<1>4. 0 \in T
  <2> DEFINE g == [m \in 0..0 |-> given]
  <2>1. g = [m \in 0..0 |-> Step(g, m)]
    <3> HIDE DEF Step
    <3> QED BY <1>2
  <2>2. 0 \in 0..N
    BY <1>1
  <2> HIDE DEF Step, g
  <2> QED BY <2>1, <2>2
<1>5. ASSUME NEW n \in 0..N - 1, n \in T PROVE n + 1 \in T
  <2>1. PICK g : g = [m \in 0..n |-> Step(g, m)]
    BY <1>5
  <2> DEFINE h == [m \in 0..n + 1 |-> IF m = n + 1 THEN Step(g, m) ELSE g[m]]
  <2>2. \A m \in 0..n : h[m] = g[m]
    BY <1>1
  <2>3. \A m \in 0..n + 1 : h[m] = Step(g, m)
    <3> HIDE DEF Step
    <3> QED BY <1>1, <2>1
  <2>4. \A m \in 0..n + 1 : Step(g, m) = Step(h, m)
    <3> HIDE DEF h, Step
    <3>1. ASSUME NEW m \in 0..n + 1 PROVE Step(g, m) = Step(h, m)
      <4>1. CASE m = 0
        BY <1>2, <4>1
      <4>2. CASE m # 0
        <5>1. m \in 1..N /\ m - 1 \in 0..n
          BY <1>1, <4>2
        <5> QED BY <1>3, <2>2, <5>1
      <4> QED BY <4>1, <4>2
    <3> QED BY <3>1
  <2>5. h = [m \in 0..n + 1 |-> Step(h, m)]
    <3>1. h = [m \in 0..n + 1 |-> h[m]]
      BY Zenon
    <3> HIDE DEF h, Step
    <3> QED BY <2>3, <2>4, <3>1
  <2>6. n + 1 \in 0..N
    BY <1>1
  <2> HIDE DEF h, Step
  <2> QED BY <2>5, <2>6
<1>6. N \in T
  <2> HIDE DEF T
  <2>1. 0..N \subseteq T
    BY <1>1, <1>4, <1>5, UpToInduction
  <2> QED BY <1>1, <2>1
<1>7. PICK g : g = [m \in 0..N |-> Step(g, m)]
  BY <1>6
<1> QED BY <1>7 DEF BundledTo, Bundle, N

LEMMA StoredType == \A e : \A v \in Int : Stored(e, v) \in Int
BY DEF Stored

LEMMA StoredAny == \A e, v, u : e.p_type # "INT" => Stored(e, v) = Stored(e, u)
BY DEF Stored

LEMMA BundledIs ==
  ASSUME NEW e, Member(e.members), NEW given \in [Objects -> Int], NEW explicitly
  PROVE  LET b == Bundled(e, given, explicitly)
             ms == e.members
             Of(j) == pro[Documented(ms[j])]
         IN  /\ b \in [Objects -> Int]
             /\ \A obj \in Objects :
                  /\ (\A j \in 1..Len(ms) : Of(j).p_obj # obj) => b[obj] = given[obj]
                  /\ \A j \in 1..Len(ms) : Of(j).p_obj = obj =>
                       b[obj] = IF Of(j).p_explicit \in explicitly THEN given[obj]
                                ELSE Stored(Of(j), ms[j].value)
<1> DEFINE ms == e.members
           N == Len(ms)
           Of(j) == pro[Documented(ms[j])]
           f == BundledTo(e, given, explicitly)
           Good(n) == /\ f[n] \in [Objects -> Int]
                      /\ \A obj \in Objects :
                           /\ (\A j \in 1..n : Of(j).p_obj # obj) => f[n][obj] = given[obj]
                           /\ \A j \in 1..n : Of(j).p_obj = obj =>
                                f[n][obj] = IF Of(j).p_explicit \in explicitly THEN given[obj]
                                            ELSE Stored(Of(j), ms[j].value)
           T == {n \in 0..N : Good(n)}
<1>1. /\ N \in Nat
      /\ \A j \in 1..N : ShortOption(ms[j]) = Documented(ms[j]) /\ Documented(ms[j]) \in Bundles /\ ms[j].value \in Int
      /\ \A j, k \in 1..N : Of(j).p_obj = Of(k).p_obj => j = k
  BY DEF Member
<1>2. f = [n \in 0..N |-> Bundle(f, e, given, explicitly, n)]
  BY <1>1, BundledToDef
<1>3. f[0] = given
  <2> HIDE DEF f
  <2>1. 0 \in 0..N
    BY <1>1
  <2>2. f[0] = Bundle(f, e, given, explicitly, 0)
    BY <1>2, <2>1
  <2> QED BY <2>2 DEF Bundle
<1>4. \A n \in 1..N : f[n] = IF Of(n).p_explicit \in explicitly THEN f[n - 1]
                             ELSE [f[n - 1] EXCEPT ![Of(n).p_obj] = Stored(Of(n), ms[n].value)]
  <2> HIDE DEF f
  <2> SUFFICES ASSUME NEW n \in 1..N
               PROVE  f[n] = IF Of(n).p_explicit \in explicitly THEN f[n - 1]
                             ELSE [f[n - 1] EXCEPT ![Of(n).p_obj] = Stored(Of(n), ms[n].value)]
    OBVIOUS
  <2>1. f[n] = Bundle(f, e, given, explicitly, n) /\ n # 0
    BY <1>1, <1>2
  <2>2. ShortOption(ms[n]) = Documented(ms[n])
    BY <1>1
  <2> QED BY <2>1, <2>2 DEF Bundle
<1>5. \A j \in 1..N : Of(j).p_obj \in Objects
  <2>1. \A k \in Bundles : k \in Places
    BY DEF Bundles, Places
  <2>2. \A k \in Bundles : pro[k].p_obj # Nameless
    <3> SUFFICES ASSUME NEW k \in Bundles PROVE pro[k].p_obj # Nameless
      OBVIOUS
    <3>1. k = 9 \/ k = 11 \/ k = 12 \/ k = 14 \/ k = 15
      BY DEF Bundles
    <3> QED BY <3>1, PlaceObjects DEF Nameless
  <2> QED BY <1>1, <2>1, <2>2, ObjectsOf
<1> HIDE DEF f, N, ms, Of
<1>6. 0 \in T
  <2>1. Good(0)
    BY <1>3
  <2> QED BY <1>1, <2>1
<1>7. ASSUME NEW n \in 0..N - 1, n \in T PROVE n + 1 \in T
  <2> DEFINE m == n + 1
  <2>1. m \in 1..N /\ m - 1 = n /\ Good(n) /\ m \in 0..N
    BY <1>1, <1>7
  <2>2. \A j \in 1..m : j = m \/ j \in 1..n
    BY <2>1
  <2>3. 1..n \subseteq 1..m /\ 1..m \subseteq 1..N /\ m \notin 1..n /\ m \in 1..m
    BY <1>1, <2>1
  <2> HIDE DEF m
  <2>4. f[m] \in [Objects -> Int]
    <3>1. Stored(Of(m), ms[m].value) \in Int
      <4>1. ms[m].value \in Int
        BY <1>1, <2>1 DEF ms, N
      <4> QED BY <4>1, StoredType
    <3> HIDE DEF Good
    <3>2. f[n] \in [Objects -> Int]
      BY <2>1 DEF Good
    <3> QED BY <1>4, <1>5, <2>1, <3>1, <3>2
  <2>5. ASSUME NEW obj \in Objects, \A j \in 1..m : Of(j).p_obj # obj PROVE f[m][obj] = given[obj]
    <3>1. f[n][obj] = given[obj] /\ f[n] \in [Objects -> Int]
      BY <2>1, <2>3, <2>5
    <3>2. Of(m).p_obj # obj
      BY <2>3, <2>5
    <3>3. f[m][obj] = f[n][obj]
      BY <1>4, <2>1, <3>1, <3>2
    <3> QED BY <3>1, <3>3
  <2>6. ASSUME NEW obj \in Objects, NEW j \in 1..m, Of(j).p_obj = obj
        PROVE  f[m][obj] = IF Of(j).p_explicit \in explicitly THEN given[obj]
                           ELSE Stored(Of(j), ms[j].value)
    <3>1. CASE j = m
      <4>1. \A k \in 1..n : Of(k).p_obj # obj
        BY <1>1, <2>1, <2>3, <2>6, <3>1 DEF Of
      <4>2. f[n][obj] = given[obj] /\ f[n] \in [Objects -> Int]
        BY <2>1, <4>1
      <4> QED BY <1>4, <2>1, <2>6, <3>1, <4>2
    <3>2. CASE j \in 1..n
      <4>1. /\ f[n][obj] = IF Of(j).p_explicit \in explicitly THEN given[obj]
                           ELSE Stored(Of(j), ms[j].value)
            /\ f[n] \in [Objects -> Int]
        BY <2>1, <2>6, <3>2
      <4>2. Of(m).p_obj # obj
        BY <1>1, <2>1, <2>3, <2>6, <3>2 DEF Of
      <4>3. f[m][obj] = f[n][obj]
        BY <1>4, <2>1, <4>1, <4>2
      <4> QED BY <4>1, <4>3
    <3> QED BY <2>2, <3>1, <3>2
  <2>7. Good(m)
    BY <2>4, <2>5, <2>6
  <2> HIDE DEF Good
  <2> QED BY <2>1, <2>7 DEF m
<1>8. N \in T
  <2> HIDE DEF T
  <2>1. 0..N \subseteq T
    BY <1>1, <1>6, <1>7, UpToInduction
  <2> QED BY <1>1, <2>1
<1>9. Good(N)
  BY <1>8
<1> QED BY <1>9 DEF Bundled, f, N, ms, Of

-----------------------------------------------------------------------------
(* The settings are what the options mean.                                 *)

LEMMA MarkedIs ==
  ASSUME NEW g \in Seq(Givens), NEW k \in Places, pro[k].p_obj # Nameless
  PROVE  pro[k].p_explicit \in Marks(g) <=> NamedByCode(g, pro[k].p_obj) # {}
<1>1. \A j \in DOMAIN g : g[j].option \in Places
  <2>1. \A j \in DOMAIN g : g[j] \in Givens
    OBVIOUS
  <2> QED BY <2>1 DEF Givens
<1>2. \A j \in DOMAIN g : pro[g[j].option].p_explicit = pro[k].p_explicit <=> pro[g[j].option].p_obj = pro[k].p_obj
  BY <1>1, MarksOfObjects
<1> QED BY <1>2 DEF Marks, NamedByCode

Told == Objects \ {"expect_output_file"}

Settled(g, s, marks) ==
  /\ marks = Marks(g)
  /\ \A obj \in Told : s[obj] = MeantByCode(g, obj)

\* What an entry does to the variables, by its type.
LEMMA EntrySets ==
  \A k \in Places :
    /\ pro[k].p_type = "SETTINGS" => Member(pro[k].members) /\ pro[k].p_obj = Nameless
    /\ pro[k].p_type \in {"BOOL", "INT"} => pro[k].p_obj \in Objects
    /\ pro[k].p_type \notin {"SETTINGS", "BOOL", "INT"} => pro[k].p_obj = Nameless
    /\ pro[k].p_type # "SETTINGS" => Range(pro[k].members) = {}
<1> SUFFICES ASSUME NEW k \in Places
             PROVE  /\ pro[k].p_type = "SETTINGS" => Member(pro[k].members) /\ pro[k].p_obj = Nameless
                    /\ pro[k].p_type \in {"BOOL", "INT"} => pro[k].p_obj \in Objects
                    /\ pro[k].p_type \notin {"SETTINGS", "BOOL", "INT"} => pro[k].p_obj = Nameless
                    /\ pro[k].p_type # "SETTINGS" => Range(pro[k].members) = {}
  OBVIOUS
<1>1. CASE k \in Flags \cup Numbers
  <2>1. pro[k].p_type \in {"BOOL", "INT"} /\ pro[k].members = <<>>
    BY <1>1, PlaceTypes
  <2>2. pro[k].p_obj # Nameless
    <3>1. \/ k = 2 \/ k = 3 \/ k = 14 \/ k = 15 \/ k = 16 \/ k = 17 \/ k = 8 \/ k = 9 \/ k = 11 \/ k = 12
           \/ k = 6 \/ k = 7
      BY <1>1 DEF Flags, Numbers
    <3> QED BY <3>1, PlaceObjects DEF Nameless
  <2>3. Range(<<>>) = {}
    BY DEF Range
  <2> QED BY <2>1, <2>2, <2>3, ObjectsOf
<1>2. CASE k \in Styles
  <2>1. pro[k].p_type = "SETTINGS" /\ Member(pro[k].members) /\ pro[k].p_obj = Nameless
    BY <1>2, PlaceTypes, PlaceObjects, StyleMembers DEF Others
  <2> QED BY <2>1
<1>3. CASE k \in {1, 4, 18}
  <2>1. pro[k].p_type \in {"PRSTRING", "IGN", "KEY"} /\ pro[k].members = <<>> /\ pro[k].p_obj = Nameless
    BY <1>3, PlaceTypes, PlaceObjects
  <2>2. Range(<<>>) = {}
    BY DEF Range
  <2> QED BY <2>1, <2>2
<1> QED BY <1>1, <1>2, <1>3, PlaceSets DEF Others

\* The entries have marks, and the marks are those of entries.
LEMMA SetTypes ==
  ASSUME NEW w \in Word, IsOption(w), NEW param \in Word \cup {NoWord}, ~DieError(w, param),
         settings \in [Objects -> Int], explicit \subseteq {pro[k].p_explicit : k \in DOMAIN pro},
         set_option(w, param)
  PROVE  /\ settings' \in [Objects -> Int]
         /\ explicit' \subseteq {pro[k].p_explicit : k \in DOMAIN pro}
<1> DEFINE e == pro[Entry(w)]
           v == Value(w, param)
<1>1. Entry(w) \in Places /\ DOMAIN pro = Places
  BY EntryAgrees, PlaceNames
<1>2. /\ explicit' = explicit \cup {e.p_explicit}
      /\ settings' = CASE e.p_type = "SETTINGS" -> Bundled(e, settings, Marked(e))
                       [] e.p_type \in {"BOOL", "INT"} -> [settings EXCEPT ![e.p_obj] = Stored(e, v)]
                       [] OTHER -> settings
  BY DEF set_option, Marked
<1>3. explicit' \subseteq {pro[k].p_explicit : k \in DOMAIN pro}
  BY <1>1, <1>2
<1>4. v \in Int
  <2>1. w.value \in Int /\ (param # NoWord => param.value \in Int) /\ NoNumber \in Int
    <3>1. \A u \in Word : u.value \in Int
      BY DEF Word
    <3> QED BY <3>1 DEF NoNumber
  <2>2. Rest(w) \in Int
    BY <2>1 DEF Rest
  <2>3. TakesParameter(w) => param # NoWord
    BY EntryAgrees
  <2> QED BY <2>1, <2>2, <2>3 DEF Value
<1>5. Stored(e, v) \in Int
  BY <1>4, StoredType
<1> HIDE DEF v
<1>6. CASE e.p_type = "SETTINGS"
  <2>1. Member(e.members)
    BY <1>1, <1>6, EntrySets
  <2>2. Bundled(e, settings, Marked(e)) \in [Objects -> Int]
    BY <2>1, BundledIs
  <2> QED BY <1>2, <1>3, <1>6, <2>2
<1>7. CASE e.p_type # "SETTINGS"
  <2>1. settings' = settings \/ settings' = [settings EXCEPT ![e.p_obj] = Stored(e, v)]
    BY <1>2, <1>7
  <2> QED BY <1>3, <1>5, <2>1
<1> QED BY <1>6, <1>7

\* The next option keeps them so.
LEMMA SettledNext ==
  ASSUME NEW w \in Word, IsOption(w), NEW param \in Word \cup {NoWord}, ~DieError(w, param), ~Shadowed(w),
         settings \in [Objects -> Int], NEW g \in Seq(Givens), Settled(g, settings, explicit),
         set_option(w, param)
  PROVE  Settled(Append(g, [option |-> Documented(w),
                            value |-> IF NeedsValue(w) THEN param.value ELSE w.value]),
                 settings', explicit')
<1> DEFINE d == Documented(w)
           e == pro[d]
           v == IF NeedsValue(w) THEN param.value ELSE w.value
           x == [option |-> d, value |-> v]
           h == Append(g, x)
<1>1. /\ d = Entry(w) /\ d \in Places
      /\ e.p_type = "INT" => Value(w, param) = v
      /\ NeedsValue(w) => param # NoWord
  BY EntryAgrees
<1>2. x \in Givens
  <2>1. v \in Int
    BY <1>1 DEF Word
  <2> HIDE DEF v
  <2> QED BY <1>1, <2>1 DEF Givens
<1>3. x.option = d /\ x.value = v
  OBVIOUS
<1> HIDE DEF x
<1>4. /\ explicit = Marks(g)
      /\ \A obj \in Told : settings[obj] = MeantByCode(g, obj)
  BY DEF Settled
<1>5. /\ explicit' = Marked(e)
      /\ Marked(e) = explicit \cup {e.p_explicit}
      /\ settings' = CASE e.p_type = "SETTINGS" -> Bundled(e, settings, Marked(e))
                       [] e.p_type \in {"BOOL", "INT"} -> [settings EXCEPT ![e.p_obj] = Stored(e, Value(w, param))]
                       [] OTHER -> settings
  BY <1>1 DEF set_option, Marked
<1>6. explicit' = Marks(h)
  BY <1>2, <1>3, <1>4, <1>5, MarksAppend
<1> HIDE DEF d, v, h
<1>7. ASSUME NEW obj \in Told PROVE settings'[obj] = MeantByCode(h, obj)
  <2>1. obj \in Objects /\ obj # Nameless /\ settings[obj] = MeantByCode(g, obj)
    BY <1>4, <1>7, ObjectsOf DEF Told
  <2>2. MeantByCode(h, obj) =
          IF e.p_obj = obj THEN Stored(e, v)
          ELSE IF NamedByCode(g, obj) # {} THEN MeantByCode(g, obj)
          ELSE IF \E m \in Range(e.members) : Sets(m, obj) THEN MeantBy(e, obj)
          ELSE MeantByCode(g, obj)
    BY <1>2, <1>3, MeantAppend DEF h
  <2>3. CASE e.p_type \in {"BOOL", "INT"}
    <3>1. settings' = [settings EXCEPT ![e.p_obj] = Stored(e, Value(w, param))]
      BY <1>5, <2>3
    <3>2. Stored(e, Value(w, param)) = Stored(e, v)
      BY <1>1, StoredAny
    <3>3. e.p_obj \in Objects /\ Range(e.members) = {}
      BY <1>1, <2>3, EntrySets
    <3>4. settings'[obj] = IF e.p_obj = obj THEN Stored(e, v) ELSE settings[obj]
      BY <2>1, <3>1, <3>2, <3>3
    <3> QED BY <2>1, <2>2, <3>3, <3>4
  <2>4. CASE e.p_type = "SETTINGS"
    <3> DEFINE ms == e.members
               Of(j) == pro[Documented(ms[j])]
    <3>1. settings' = Bundled(e, settings, Marked(e)) /\ Member(ms) /\ e.p_obj # obj /\ e.p_obj = Nameless
      BY <1>1, <1>5, <2>1, <2>4, EntrySets
    <3>2. /\ (\A j \in 1..Len(ms) : Of(j).p_obj # obj) => settings'[obj] = settings[obj]
          /\ \A j \in 1..Len(ms) : Of(j).p_obj = obj =>
               settings'[obj] = IF Of(j).p_explicit \in Marked(e) THEN settings[obj]
                                ELSE Stored(Of(j), ms[j].value)
      <4> DEFINE b == Bundled(e, settings, Marked(e))
      <4>1. /\ (\A j \in 1..Len(ms) : Of(j).p_obj # obj) => b[obj] = settings[obj]
            /\ \A j \in 1..Len(ms) : Of(j).p_obj = obj =>
                 b[obj] = IF Of(j).p_explicit \in Marked(e) THEN settings[obj]
                          ELSE Stored(Of(j), ms[j].value)
        <5> DEFINE M == Marked(e)
        <5>1. Member(e.members)
          BY <3>1
        <5> HIDE DEF e, M
        <5>2. /\ (\A j \in 1..Len(e.members) : pro[Documented(e.members[j])].p_obj # obj) =>
                   Bundled(e, settings, M)[obj] = settings[obj]
              /\ \A j \in 1..Len(e.members) : pro[Documented(e.members[j])].p_obj = obj =>
                   Bundled(e, settings, M)[obj] =
                     IF pro[Documented(e.members[j])].p_explicit \in M THEN settings[obj]
                     ELSE Stored(pro[Documented(e.members[j])], e.members[j].value)
          BY <2>1, <5>1, BundledIs
        <5> QED BY <5>2 DEF M
      <4> HIDE DEF b, Of
      <4> QED BY <3>1, <4>1 DEF b
    <3>3. /\ DOMAIN ms = 1..Len(ms)
          /\ \A j \in 1..Len(ms) : Documented(ms[j]) \in Places
          /\ \A j, k \in 1..Len(ms) : Of(j).p_obj = Of(k).p_obj => j = k
      <4>1. \A k \in Bundles : k \in Places
        BY DEF Bundles, Places
      <4>2. Member(ms)
        BY <3>1
      <4> HIDE DEF ms
      <4> QED BY <4>1, <4>2 DEF Member
    <3>4. Range(ms) = {ms[j] : j \in 1..Len(ms)}
      BY <3>3 DEF Range
    <3> HIDE DEF ms
    <3>5. CASE \A j \in 1..Len(ms) : Of(j).p_obj # obj
      <4>1. ~\E m \in Range(ms) : Sets(m, obj)
        BY <3>4, <3>5 DEF Sets
      <4> QED BY <2>1, <2>2, <3>1, <3>2, <3>5, <4>1 DEF ms
    <3>6. CASE \E j \in 1..Len(ms) : Of(j).p_obj = obj
      <4>1. PICK j \in 1..Len(ms) : Of(j).p_obj = obj
        BY <3>6
      <4>2. Of(j).p_explicit \in Marked(e) <=> NamedByCode(g, obj) # {}
        <5>1. Of(j).p_explicit \in Marks(g) <=> NamedByCode(g, obj) # {}
          BY <2>1, <3>3, <4>1, MarkedIs
        <5>2. Of(j).p_explicit # e.p_explicit
          BY <1>1, <2>1, <3>1, <3>3, <4>1, MarksOfObjects
        <5> QED BY <1>4, <1>5, <5>1, <5>2
      <4>3. \A m \in Range(ms) : Sets(m, obj) <=> m = ms[j]
        <5>1. \A k \in 1..Len(ms) : Of(k).p_obj = obj <=> k = j
          BY <3>3, <4>1
        <5>2. \A k \in 1..Len(ms) : Sets(ms[k], obj) <=> Of(k).p_obj = obj
          BY DEF Sets
        <5> SUFFICES ASSUME NEW m \in Range(ms) PROVE Sets(m, obj) <=> m = ms[j]
          OBVIOUS
        <5>3. PICK k \in 1..Len(ms) : m = ms[k]
          BY <3>4
        <5>4. m = ms[j] => Sets(m, obj)
          BY <4>1, <5>2
        <5>5. Sets(m, obj) => m = ms[j]
          BY <5>1, <5>2, <5>3
        <5> QED BY <5>4, <5>5
      <4>4. ms[j] \in Range(ms) /\ (\E m \in Range(ms) : Sets(m, obj))
        BY <3>4, <4>3
      <4>5. MeantBy(e, obj) = Stored(Of(j), ms[j].value)
        <5>1. (CHOOSE m \in Range(ms) : Sets(m, obj)) = ms[j]
          <6> HIDE DEF Sets
          <6> QED BY <4>3, <4>4
        <5> QED BY <5>1 DEF MeantBy, ms
      <4>6. settings'[obj] = IF NamedByCode(g, obj) # {} THEN settings[obj] ELSE MeantBy(e, obj)
        BY <3>2, <4>1, <4>2, <4>5
      <4> QED BY <2>1, <2>2, <3>1, <4>4, <4>6 DEF ms
    <3> QED BY <3>5, <3>6
  <2>5. CASE e.p_type \notin {"BOOL", "INT", "SETTINGS"}
    <3>1. settings' = settings /\ e.p_obj # obj /\ Range(e.members) = {}
      BY <1>1, <1>5, <2>1, <2>5, EntrySets
    <3> QED BY <2>1, <2>2, <3>1
  <2> QED BY <2>3, <2>4, <2>5
<1> QED BY <1>6, <1>7 DEF Settled, h, x, v, d

-----------------------------------------------------------------------------
(* The words that are left, and those that have been read.                 *)

\* A word that indent does not die of as an option is one.
LEMMA AcceptedIsOption ==
  ASSUME NEW w \in Word, NEW param, ~DieError(w, param) PROVE IsOption(w)
<1>1. Entry(w) # 0 /\ w.prefix \in {"", "-", "--", "+"}
  BY DEF DieError, Word
<1>2. w.prefix # ""
  BY <1>1 DEF Entry
<1>3. ASSUME w.name = Nameless PROVE FALSE
  <2>1. Beginnings(w.name) = {}
    BY <1>3 DEF Beginnings, Nameless
  <2>2. CASE w.prefix = "-"
    <3>1. ShortOption(w) # 0
      BY <1>1, <2>2 DEF Entry
    <3>2. PICK k \in Places : pro[k].p_name = Nameless
      BY <1>3, <2>1, <3>1, ShortFound DEF eqin
    <3> QED BY <3>2, EachPlace, PlaceNames DEF Nameless
  <2>3. CASE w.prefix \in {"--", "+"}
    <3>1. LongOption(w) # 0
      BY <1>1, <2>3 DEF Entry
    <3>2. LongName(w) # 0
      BY <3>1, LongOptionFound
    <3>3. PICK k \in Conversions : option_conversions[k].long_name = Nameless
      BY <1>3, <2>1, <3>2, LongFound DEF eqin
    <3>4. k = 1 \/ k = 2 \/ k = 3 \/ k = 4 \/ k = 5 \/ k = 6 \/ k = 7
      BY EachConversion
    <3> QED BY <3>3, <3>4, ConversionNames DEF Nameless
  <2> QED BY <1>1, <1>2, <2>2, <2>3
<1> QED BY <1>2, <1>3 DEF IsOption

Remains(ws, list) ==
  /\ Len(ws) <= Len(list)
  /\ \A j \in 1..Len(ws) : ws[j] = list[Len(list) - Len(ws) + j]

LEMMA RemainsTail ==
  ASSUME NEW list \in Seq(Word), NEW ws \in Seq(Word), Remains(ws, list), ws # <<>>
  PROVE  /\ Head(ws) = list[Len(list) - Len(ws) + 1] /\ Head(ws) \in Word
         /\ Tail(ws) \in Seq(Word) /\ Len(Tail(ws)) = Len(ws) - 1 /\ Len(ws) \in Nat \ {0} /\ Len(list) \in Nat
         /\ Remains(Tail(ws), list)
<1>1. /\ Len(ws) \in Nat \ {0} /\ Len(list) \in Nat
      /\ Head(ws) = ws[1] /\ Head(ws) \in Word /\ Tail(ws) \in Seq(Word) /\ Len(Tail(ws)) = Len(ws) - 1
      /\ \A j \in 1..Len(ws) - 1 : Tail(ws)[j] = ws[j + 1]
  OBVIOUS
<1>2. Len(ws) <= Len(list) /\ \A j \in 1..Len(ws) : ws[j] = list[Len(list) - Len(ws) + j]
  BY DEF Remains
<1>3. \A j \in 1..Len(ws) - 1 : Tail(ws)[j] = list[Len(list) - (Len(ws) - 1) + j]
  <2> SUFFICES ASSUME NEW j \in 1..Len(ws) - 1 PROVE Tail(ws)[j] = list[Len(list) - (Len(ws) - 1) + j]
    OBVIOUS
  <2>1. Tail(ws)[j] = ws[j + 1] /\ j + 1 \in 1..Len(ws)
    BY <1>1
  <2>2. ws[j + 1] = list[Len(list) - Len(ws) + (j + 1)]
    BY <1>2, <2>1
  <2>3. Len(list) - Len(ws) + (j + 1) = Len(list) - (Len(ws) - 1) + j
    BY <1>1, <2>1
  <2> QED BY <2>1, <2>2, <2>3
<1>4. Remains(Tail(ws), list)
  BY <1>1, <1>2, <1>3 DEF Remains
<1>5. Head(ws) = list[Len(list) - Len(ws) + 1]
  BY <1>1, <1>2
<1> QED BY <1>1, <1>4, <1>5

LEMMA RemainsAll ==
  ASSUME NEW list \in Seq(Word) PROVE Remains(list, list) /\ Len(list) - Len(list) = 0 /\ Len(list) \in Nat
BY DEF Remains

LEMMA RemainsNone ==
  ASSUME NEW list \in Seq(Word), NEW ws \in Seq(Word), Remains(ws, list), ws = <<>>
  PROVE  Len(ws) = 0 /\ Len(list) \in Nat
OBVIOUS

\* What has been read when an option is accepted, with the word that is its parameter.
LEMMA OptionRead ==
  ASSUME NEW list \in Seq(Word), NEW n \in 0..Len(list) - 1, ReadingTo(list)[n] \in Closed,
         NEW param, param = (IF n + 1 < Len(list) THEN list[n + 2] ELSE NoWord),
         ~DieError(list[n + 1], param)
  PROVE  LET w == list[n + 1]
             m == IF TakesParameter(w) THEN n + 2 ELSE n + 1
             x == [option |-> Documented(w), value |-> IF NeedsValue(w) THEN param.value ELSE w.value]
         IN  /\ m \in 1..Len(list) /\ x \in Givens /\ Documented(w) \in Places /\ IsOption(w)
             /\ w \in Word /\ param \in Word \cup {NoWord}
             /\ ReadingTo(list)[m] \in Closed
             /\ ReadingTo(list)[m].given = Append(ReadingTo(list)[n].given, x)
             /\ ReadingTo(list)[m].plain = ReadingTo(list)[n].plain
<1> DEFINE w == list[n + 1]
           r == ReadingTo(list)[n]
           v == IF NeedsValue(w) THEN param.value ELSE w.value
           x == [option |-> Documented(w), value |-> v]
           t == [open |-> FALSE, plain |-> r.plain, given |-> Append(r.given, x)]
<1>1. Len(list) \in Nat /\ n \in Nat /\ n + 1 \in 1..Len(list) /\ w \in Word
      /\ (n + 1 < Len(list) => n + 2 \in 1..Len(list) /\ list[n + 2] \in Word /\ param = list[n + 2])
      /\ (~(n + 1 < Len(list)) => param = NoWord)
  OBVIOUS
<1>2. param \in Word \cup {NoWord} /\ IsOption(w)
  BY <1>1, AcceptedIsOption
<1>3. /\ Documented(w) \in Places
      /\ NeedsValue(w) <=> TakesParameter(w)
      /\ TakesParameter(w) => param # NoWord
  BY <1>1, <1>2, EntryAgrees
<1>4. TakesParameter(w) => n + 2 \in 1..Len(list) /\ param = list[n + 2] /\ param \in Word
  BY <1>1, <1>3
<1>5. /\ ReadingTo(list)[n + 1] = ReadWord(r, w)
      /\ n + 2 \in 1..Len(list) => ReadingTo(list)[n + 2] = ReadWord(ReadingTo(list)[n + 1], list[n + 2])
  <2>1. (n + 1) - 1 = n /\ (n + 2) - 1 = n + 1
    BY <1>1
  <2> QED BY <1>1, <2>1, ReadingStep
<1>6. v \in Int
  <2>1. \A u \in Word : u.value \in Int
    BY DEF Word
  <2> QED BY <1>1, <1>3, <1>4, <2>1
<1> HIDE DEF v
<1>7. x \in Givens
  BY <1>3, <1>6 DEF Givens
<1>8. t \in Closed
  <2>1. r.given \in Seq(Givens) /\ r.plain \in Seq(STRING)
    BY DEF Closed
  <2> HIDE DEF x
  <2>2. Append(r.given, x) \in Seq(Givens)
    BY <1>7, <2>1
  <2> QED BY <2>1, <2>2 DEF Closed
<1>9. CASE NeedsValue(w)
  <2>1. ReadWord(ReadWord(r, w), list[n + 2]) =
          [open |-> FALSE, plain |-> r.plain,
           given |-> Append(r.given, [option |-> Documented(w), value |-> list[n + 2].value])]
    BY <1>1, <1>2, <1>3, <1>4, <1>9, ReadOption
  <2>2. v = list[n + 2].value
    BY <1>3, <1>4, <1>9 DEF v
  <2>3. ReadingTo(list)[n + 2] = t
    BY <1>3, <1>4, <1>5, <1>9, <2>1, <2>2
  <2> QED BY <1>1, <1>2, <1>3, <1>4, <1>7, <1>8, <1>9, <2>3 DEF v
<1>10. CASE ~NeedsValue(w)
  <2>1. ReadWord(r, w) =
          [open |-> FALSE, plain |-> r.plain,
           given |-> Append(r.given, [option |-> Documented(w), value |-> w.value])]
    BY <1>1, <1>2, <1>3, <1>10, ReadOption
  <2>2. v = w.value
    BY <1>10 DEF v
  <2>3. ReadingTo(list)[n + 1] = t
    BY <1>5, <2>1, <2>2
  <2> QED BY <1>1, <1>2, <1>3, <1>7, <1>8, <1>10, <2>3 DEF v
<1> QED BY <1>9, <1>10

LEMMA AppendIs ==
  ASSUME NEW B, NEW s \in Seq(B), NEW x \in B
  PROVE  /\ Append(s, x) \in Seq(B) /\ Len(s) \in Nat /\ Len(Append(s, x)) = Len(s) + 1
         /\ \A j \in 1..Len(s) : Append(s, x)[j] = s[j]
         /\ Append(s, x)[Len(s) + 1] = x
OBVIOUS

LEMMA PlainIs ==
  ASSUME NEW r \in Closed, NEW name \in STRING
  PROVE  LET q == [r EXCEPT !.plain = Append(@, name)]
         IN  q \in Closed /\ q.given = r.given /\ q.plain = Append(r.plain, name)
<1> DEFINE p == Append(r.plain, name)
<1>1. /\ r = [open |-> FALSE, given |-> r.given, plain |-> r.plain]
      /\ r.open = FALSE /\ r.given \in Seq(Givens) /\ r.plain \in Seq(STRING)
  BY DEF Closed
<1>2. p \in Seq(STRING)
  BY <1>1, AppendIs
<1> HIDE DEF p
<1>3. LET q == [r EXCEPT !.plain = p] IN q \in Closed /\ q.given = r.given /\ q.plain = p
  BY <1>1, <1>2 DEF Closed
<1> QED BY <1>3 DEF p

NoOption(w) == w.prefix = "" \/ w = Option(Nameless)

\* A plain word is no option, and neither is that for the standard input.
LEMMA PlainRead ==
  ASSUME NEW list \in Seq(Word), NEW n \in 0..Len(list) - 1, ReadingTo(list)[n] \in Closed,
         NEW w \in Word, w = list[n + 1], NoOption(w)
  PROVE  LET r == ReadingTo(list)[n]
             q == ReadingTo(list)[n + 1]
         IN  /\ q \in Closed /\ q.given = r.given /\ w.name \in STRING
             /\ q.plain = IF w.prefix = "" THEN Append(r.plain, w.name) ELSE r.plain
<1>1. Len(list) \in Nat /\ n \in Nat /\ n + 1 \in 1..Len(list) /\ (n + 1) - 1 = n /\ w \in Word
  <2>1. Len(list) \in Nat
    OBVIOUS
  <2>2. n \in Nat /\ n + 1 \in 1..Len(list) /\ (n + 1) - 1 = n
    BY <2>1
  <2> QED BY <2>1, <2>2
<1>2. w.name \in STRING
  BY <1>1 DEF Word
<1>3. ReadingTo(list)[n + 1] = ReadWord(ReadingTo(list)[n], w)
  BY <1>1, ReadingStep
<1>4. CASE w.prefix = ""
  <2>1. ReadingTo(list)[n + 1] = [ReadingTo(list)[n] EXCEPT !.plain = Append(@, w.name)]
    BY <1>1, <1>3, <1>4, ReadPlain DEF NoOption
  <2> QED BY <1>2, <1>4, <2>1, PlainIs
<1>5. CASE w.prefix # ""
  <2>1. ReadingTo(list)[n + 1] = ReadingTo(list)[n]
    BY <1>1, <1>3, <1>5, ReadPlain DEF NoOption
  <2> QED BY <1>2, <1>5, <2>1
<1> QED BY <1>4, <1>5

-----------------------------------------------------------------------------
(* The names of the files.                                                 *)

LEMMA RemoveAtIs ==
  ASSUME NEW B, NEW s \in Seq(B), NEW k \in 1..Len(s)
  PROVE  /\ RemoveAt(s, k) \in Seq(B) /\ Len(s) \in Nat /\ Len(RemoveAt(s, k)) = Len(s) - 1
         /\ \A j \in 1..Len(s) - 1 : RemoveAt(s, k)[j] = IF j < k THEN s[j] ELSE s[j + 1]
<1> DEFINE a == SubSeq(s, 1, k - 1)
           b == SubSeq(s, k + 1, Len(s))
<1>1. Len(s) \in Nat /\ k \in Nat /\ k >= 1 /\ k <= Len(s)
  OBVIOUS
<1>2. a \in Seq(B) /\ Len(a) = k - 1 /\ \A j \in 1..k - 1 : a[j] = s[j]
  BY <1>1
<1>3. b \in Seq(B) /\ Len(b) = Len(s) - k /\ \A j \in 1..Len(s) - k : b[j] = s[k + j]
  BY <1>1
<1> HIDE DEF a, b
<1>4. a \o b \in Seq(B) /\ Len(a \o b) = Len(s) - 1
      /\ \A j \in 1..Len(s) - 1 : (a \o b)[j] = IF j <= k - 1 THEN a[j] ELSE b[j - (k - 1)]
  <2>1. (k - 1) + (Len(s) - k) = Len(s) - 1
    BY <1>1
  <2>2. a \o b \in Seq(B) /\ Len(a \o b) = Len(a) + Len(b)
    BY <1>2, <1>3, ConcatElements
  <2>3. \A j \in 1..Len(a) + Len(b) : (a \o b)[j] = IF j <= Len(a) THEN a[j] ELSE b[j - Len(a)]
    <3> SUFFICES ASSUME NEW j \in 1..Len(a) + Len(b) PROVE (a \o b)[j] = IF j <= Len(a) THEN a[j] ELSE b[j - Len(a)]
      OBVIOUS
    <3>1. CASE j <= Len(a)
      <4>1. j \in 1..Len(a)
        BY <1>1, <1>2, <1>3, <3>1
      <4> QED BY <1>2, <1>3, <3>1, <4>1, ConcatElements
    <3>2. CASE ~(j <= Len(a))
      <4>1. j - Len(a) \in 1..Len(b) /\ Len(a) + (j - Len(a)) = j
        BY <1>1, <1>2, <1>3, <3>2
      <4>2. (a \o b)[Len(a) + (j - Len(a))] = b[j - Len(a)]
        BY <1>2, <1>3, <4>1, ConcatElements
      <4> QED BY <3>2, <4>1, <4>2
    <3> QED BY <3>1, <3>2
  <2> QED BY <1>2, <1>3, <2>1, <2>2, <2>3
<1>5. \A j \in 1..Len(s) - 1 : (a \o b)[j] = IF j < k THEN s[j] ELSE s[j + 1]
  <2> SUFFICES ASSUME NEW j \in 1..Len(s) - 1 PROVE (a \o b)[j] = IF j < k THEN s[j] ELSE s[j + 1]
    OBVIOUS
  <2>1. CASE j < k
    BY <1>1, <1>2, <1>4, <2>1
  <2>2. CASE j >= k
    <3>1. j - (k - 1) \in 1..Len(s) - k /\ k + (j - (k - 1)) = j + 1 /\ ~(j < k)
      BY <1>1, <2>2
    <3> QED BY <1>1, <1>3, <1>4, <2>2, <3>1
  <2>3. j < k \/ j >= k
    BY <1>1
  <2> QED BY <2>1, <2>2, <2>3
<1>6. RemoveAt(s, k) = a \o b
  BY DEF RemoveAt, a, b
<1> QED BY <1>1, <1>4, <1>5, <1>6

LEMMA RemoveAppend ==
  ASSUME NEW B, NEW s \in Seq(B), NEW x \in B
  PROVE  /\ RemoveAt(Append(s, x), Len(s) + 1) = s
         /\ \A k \in 1..Len(s) : RemoveAt(Append(s, x), k) = Append(RemoveAt(s, k), x)
<1> DEFINE t == Append(s, x)
           n == Len(s)
<1>1. /\ t \in Seq(B) /\ n \in Nat /\ Len(t) = n + 1 /\ t[n + 1] = x
      /\ \A j \in 1..n : t[j] = s[j]
  BY AppendIs
<1> HIDE DEF t
<1>2. RemoveAt(t, n + 1) = s
  <2> DEFINE u == RemoveAt(t, n + 1)
  <2>1. u \in Seq(B) /\ Len(u) = n /\ \A j \in 1..n : u[j] = IF j < n + 1 THEN t[j] ELSE t[j + 1]
    <3>1. n + 1 \in 1..Len(t) /\ Len(t) - 1 = n
      BY <1>1
    <3> QED BY <1>1, <3>1, RemoveAtIs
  <2>2. \A j \in 1..n : u[j] = s[j]
    BY <1>1, <2>1
  <2> HIDE DEF u
  <2>3. u = s
    BY <2>1, <2>2, SameElements
  <2> QED BY <2>3 DEF u
<1>3. ASSUME NEW k \in 1..n PROVE RemoveAt(t, k) = Append(RemoveAt(s, k), x)
  <2> DEFINE u == RemoveAt(t, k)
             r == RemoveAt(s, k)
             v == Append(r, x)
  <2>1. u \in Seq(B) /\ Len(u) = n /\ \A j \in 1..n : u[j] = IF j < k THEN t[j] ELSE t[j + 1]
    <3>1. k \in 1..Len(t) /\ Len(t) - 1 = n
      BY <1>1
    <3> QED BY <1>1, <3>1, RemoveAtIs
  <2>2. r \in Seq(B) /\ Len(r) = n - 1 /\ \A j \in 1..n - 1 : r[j] = IF j < k THEN s[j] ELSE s[j + 1]
    BY RemoveAtIs
  <2>3. v \in Seq(B) /\ Len(v) = n /\ v[n] = x /\ \A j \in 1..n - 1 : v[j] = r[j]
    <3> HIDE DEF r
    <3>1. Len(r) + 1 = n
      BY <1>1, <2>2
    <3> QED BY <2>2, <3>1, AppendIs
  <2> HIDE DEF u, r, v
  <2>4. \A j \in 1..n : u[j] = v[j]
    <3> SUFFICES ASSUME NEW j \in 1..n PROVE u[j] = v[j]
      OBVIOUS
    <3>1. CASE j = n
      BY <1>1, <1>3, <2>1, <2>3, <3>1
    <3>2. CASE j < n
      <4>1. j \in 1..n - 1 /\ j + 1 \in 1..n
        BY <1>1, <3>2
      <4> QED BY <1>1, <2>1, <2>2, <2>3, <4>1
    <3> QED BY <1>1, <3>1, <3>2
  <2>5. u = v
    BY <2>1, <2>3, <2>4, SameElements
  <2> QED BY <2>5 DEF u, v, r
<1> QED BY <1>2, <1>3 DEF t

NamesKept(plain, in, out) ==
  /\ \/ out = NoName /\ in = plain
     \/ out # NoName /\ \E k \in DOMAIN plain : plain[k] = out /\ in = RemoveAt(plain, k)
  /\ out # NoName => Len(in) <= 1

\* A name becomes the output, or one more input.
LEMMA NamedOutput ==
  ASSUME NEW B, NEW plain \in Seq(B), NEW name \in B, name # NoName, NEW in,
         NamesKept(plain, in, NoName), ~(Len(in) > 1)
  PROVE  NamesKept(Append(plain, name), in, name)
<1>1. in = plain /\ Len(plain) \in Nat
  BY DEF NamesKept
<1>2. RemoveAt(Append(plain, name), Len(plain) + 1) = plain
  BY RemoveAppend
<1>3. /\ Append(plain, name) \in Seq(B) /\ Len(Append(plain, name)) = Len(plain) + 1
      /\ Append(plain, name)[Len(plain) + 1] = name
  BY AppendIs
<1>4. DOMAIN Append(plain, name) = 1..Len(plain) + 1 /\ Len(plain) + 1 \in 1..Len(plain) + 1
  BY <1>1, <1>3
<1>5. Len(in) <= 1
  BY <1>1
<1> QED BY <1>1, <1>2, <1>3, <1>4, <1>5 DEF NamesKept

LEMMA NamedInput ==
  ASSUME NEW B, NEW plain \in Seq(B), NEW name \in B, NEW in \in Seq(B), NEW out,
         NamesKept(plain, in, out), out = NoName \/ in = <<>>
  PROVE  NamesKept(Append(plain, name), Append(in, name), out)
<1> DEFINE p == Append(plain, name)
           q == Append(in, name)
<1>1. p \in Seq(B) /\ Len(plain) \in Nat /\ Len(p) = Len(plain) + 1 /\ \A j \in 1..Len(plain) : p[j] = plain[j]
  BY AppendIs
<1>2. CASE out = NoName
  <2>1. in = plain
    BY <1>2 DEF NamesKept
  <2> QED BY <1>2, <2>1 DEF NamesKept
<1>3. CASE out # NoName
  <2>1. in = <<>>
    BY <1>3
  <2>2. PICK k \in DOMAIN plain : plain[k] = out /\ in = RemoveAt(plain, k)
    BY <1>3 DEF NamesKept
  <2>3. k \in 1..Len(plain)
    OBVIOUS
  <2>4. RemoveAt(p, k) = q
    BY <2>2, <2>3, RemoveAppend
  <2>5. k \in DOMAIN p /\ p[k] = out
    <3>1. DOMAIN p = 1..Len(plain) + 1
      BY <1>1
    <3> HIDE DEF p
    <3> QED BY <1>1, <2>2, <2>3, <3>1
  <2>6. Len(q) <= 1
    BY <2>1
  <2> HIDE DEF p, q
  <2>7. NamesKept(p, q, out)
    BY <1>3, <2>4, <2>5, <2>6 DEF NamesKept
  <2> QED BY <2>7 DEF p, q
<1> QED BY <1>2, <1>3

\* One more option is accepted, after those in h.
LEMMA OptionTaken ==
  ASSUME NEW list \in Seq(Word), NEW n \in 0..Len(list) - 1, ReadingTo(list)[n] \in Closed,
         NEW param, param = (IF n + 1 < Len(list) THEN list[n + 2] ELSE NoWord),
         ~DieError(list[n + 1], param), NEW h \in Seq(Givens),
         settings \in [Objects -> Int], explicit \subseteq {pro[k].p_explicit : k \in DOMAIN pro},
         set_option(list[n + 1], param)
  PROVE  LET w == list[n + 1]
             m == IF TakesParameter(w) THEN n + 2 ELSE n + 1
         IN  /\ m \in 1..Len(list) /\ ReadingTo(list)[m] \in Closed
             /\ ReadingTo(list)[m].plain = ReadingTo(list)[n].plain
             /\ settings' \in [Objects -> Int]
             /\ explicit' \subseteq {pro[k].p_explicit : k \in DOMAIN pro}
             /\ ~Shadowed(w) /\ Settled(h \o ReadingTo(list)[n].given, settings, explicit) =>
                  Settled(h \o ReadingTo(list)[m].given, settings', explicit')
<1> DEFINE w == list[n + 1]
           m == IF TakesParameter(w) THEN n + 2 ELSE n + 1
           x == [option |-> Documented(w), value |-> IF NeedsValue(w) THEN param.value ELSE w.value]
           g == ReadingTo(list)[n].given
<1>1. /\ m \in 1..Len(list) /\ x \in Givens /\ IsOption(w)
      /\ w \in Word /\ param \in Word \cup {NoWord}
      /\ ReadingTo(list)[m] \in Closed
      /\ ReadingTo(list)[m].given = Append(g, x)
      /\ ReadingTo(list)[m].plain = ReadingTo(list)[n].plain
  BY OptionRead
<1>2. /\ settings' \in [Objects -> Int]
      /\ explicit' \subseteq {pro[k].p_explicit : k \in DOMAIN pro}
  BY <1>1, SetTypes
<1>3. g \in Seq(Givens)
  BY DEF Closed
<1>4. ASSUME ~Shadowed(w), Settled(h \o g, settings, explicit)
      PROVE  Settled(h \o Append(g, x), settings', explicit')
  <2>1. h \o g \in Seq(Givens)
    BY <1>3, ConcatElements
  <2>2. h \o Append(g, x) = Append(h \o g, x)
    <3> HIDE DEF x, g
    <3> QED BY <1>1, <1>3, AppendConcat
  <2>3. Settled(Append(h \o g, x), settings', explicit')
    BY <1>1, <1>4, <2>1, SettledNext
  <2> QED BY <2>2, <2>3
<1> QED BY <1>1, <1>2, <1>4

-----------------------------------------------------------------------------
(* The invariant.                                                          *)

Unshadowed ==
  /\ \A k \in DOMAIN profile : ~Shadowed(profile[k])
  /\ \A k \in DOMAIN arguments : ~Shadowed(arguments[k])

\* The first n words of the list are dealt with.
ScanAt(n, list, ws, b) ==
  /\ n \in 0..Len(list) /\ Remains(ws, list) /\ ReadingTo(list)[n] \in Closed
  /\ b = NoWord => n = Len(list) - Len(ws)
  /\ b # NoWord => n + 1 = Len(list) - Len(ws) /\ b = list[n + 1]

InProfile ==
  pc = "profile" =>
    /\ \E n \in Nat : /\ ScanAt(n, profile, words, b0)
                      /\ Unshadowed => Settled(ReadingTo(profile)[n].given, settings, explicit)
    /\ in_file_names = <<>> /\ out_name = NoName

InArguments ==
  pc = "arguments" =>
    /\ Reading(profile) \in Closed /\ b0 = NoWord
    /\ \E n \in Nat : /\ ScanAt(n, arguments, words, b0)
                      /\ Unshadowed => Settled(Reading(profile).given \o ReadingTo(arguments)[n].given, settings, explicit)
                      /\ NamesKept(ReadingTo(arguments)[n].plain, in_file_names, out_name)
    /\ using_stdin => in_file_names = <<>>

OptionsInv == OptionsTypeOK /\ InProfile /\ InArguments /\ FilesNamed /\ (Unshadowed => LaterWins)

LEMMA InitSettled == Settled(<<>>, [obj \in Objects |-> Default(obj)], {})
BY MeantNothing, MarksNothing DEF Settled, Told

LEMMA DefaultTypes == [obj \in Objects |-> Default(obj)] \in [Objects -> Int]
<1> SUFFICES ASSUME NEW obj \in Objects PROVE Default(obj) \in Int
  OBVIOUS
<1> DEFINE T == {k \in Places : pro[k].p_obj = obj /\ (pro[k].p_type = "INT" \/ pro[k].p_special = "ON")}
<1>1. Default(obj) = pro[Max(T)].p_default
  BY PlaceNames DEF Default
<1>2. T # {}
  <2>1. PICK k \in Places : pro[k].p_obj = obj /\ obj # Nameless
    BY ObjectsOf
  <2>2. pro[2].p_special = "ON" /\ pro[3].p_special = "ON" /\ pro[14].p_special = "ON"
        /\ pro[16].p_special = "ON" /\ pro[17].p_special = "ON"
    <3> HIDE DEF KR, GNU, Set
    <3> QED BY DEF pro, Flag, Number, Other
  <2>3. CASE k \in {6, 7, 15}
    <3>1. \E z \in {14, 16, 17} : z \in Places /\ pro[z].p_obj = obj
      BY <2>1, <2>3, PlaceObjects DEF Places
    <3> QED BY <2>2, <3>1
  <2>4. CASE k \in Numbers
    <3>1. pro[k].p_type = "INT"
      BY <2>4, PlaceTypes
    <3> QED BY <2>1, <3>1
  <2>5. CASE k \in {2, 3, 14, 16, 17}
    BY <2>1, <2>2, <2>5
  <2>6. k \notin Others
    BY <2>1, PlaceObjects
  <2>7. k \in {6, 7, 15} \/ k \in Numbers \/ k \in {2, 3, 14, 16, 17}
    BY <2>6, PlaceSets DEF Flags
  <2> QED BY <2>3, <2>4, <2>5, <2>7
<1>3. Max(T) \in T
  <2>1. T \in SUBSET (1..18) /\ 18 \in Nat
    BY DEF Places
  <2> HIDE DEF T
  <2> QED BY <1>2, <2>1, GreatestPlace
<1> QED BY <1>1, <1>3, PlaceSets

LEMMA ScanStart ==
  ASSUME NEW list \in Seq(Word)
  PROVE  ScanAt(0, list, list, NoWord) /\ 0 \in Nat /\ ReadingTo(list)[0].given = <<>> /\ ReadingTo(list)[0].plain = <<>>
<1>1. Remains(list, list) /\ Len(list) - Len(list) = 0 /\ Len(list) \in Nat
  BY RemainsAll
<1>2. ReadingTo(list)[0] = Nothing
  BY ReadingStep
<1>3. Nothing.given = <<>> /\ Nothing.plain = <<>>
  BY DEF Nothing
<1>4. ScanAt(0, list, list, NoWord)
  BY <1>1, <1>2, NothingClosed DEF ScanAt
<1> QED BY <1>2, <1>3, <1>4

LEMMA OptionsInitInv == OptionsInit => OptionsInv
<1> SUFFICES ASSUME OptionsInit PROVE OptionsInv
  OBVIOUS
<1>1. PICK e \in Environments, a \in ArgumentLists :
        /\ arguments = a
        /\ profile = IF \E k \in DOMAIN a : a[k] \in IgnoreProfile THEN <<>> ELSE set_profile(e).words
        /\ pc \in {"exited", "profile"}
        /\ words = profile /\ b0 = NoWord
        /\ settings = [obj \in Objects |-> Default(obj)] /\ explicit = {}
        /\ in_file_names = <<>> /\ out_name = NoName /\ using_stdin = FALSE
  BY DEF OptionsInit
<1>2. arguments \in Seq(Word) /\ profile \in Seq(Word)
  <2>1. a \in Seq(Word)
    BY OptionsAssumption
  <2>2. DOMAIN e = {"INDENT_PROFILE", ".", "HOME"} /\ \A p \in DOMAIN e : e[p].words \in Seq(Word)
    BY OptionsAssumption
  <2>3. set_profile(e).words \in Seq(Word)
    BY <2>2 DEF set_profile
  <2> QED BY <1>1, <2>1, <2>3
<1>3. OptionsTypeOK
  <2>1. settings \in [Objects -> Int]
    BY <1>1, DefaultTypes
  <2>2. in_file_names \in Seq(STRING)
    BY <1>1
  <2> QED BY <1>1, <1>2, <2>1, <2>2 DEF OptionsTypeOK
<1>4. InProfile
  <2>1. ScanAt(0, profile, words, b0) /\ 0 \in Nat /\ ReadingTo(profile)[0].given = <<>>
    BY <1>1, <1>2, ScanStart
  <2>2. Settled(ReadingTo(profile)[0].given, settings, explicit)
    BY <1>1, <2>1, InitSettled
  <2> QED BY <1>1, <2>1, <2>2 DEF InProfile
<1> QED BY <1>1, <1>3, <1>4 DEF OptionsInv, InArguments, FilesNamed, LaterWins

\* A step that dies, or one that reads the profile, leaves the names alone.
LEMMA DieInv == ASSUME OptionsInv, Die PROVE OptionsInv'
<1>1. /\ pc' = "exited"
      /\ arguments' = arguments /\ profile' = profile /\ words' = words /\ b0' = b0
      /\ settings' = settings /\ explicit' = explicit
      /\ in_file_names' = in_file_names /\ out_name' = out_name /\ using_stdin' = using_stdin
  BY DEF Die, files
<1>2. OptionsTypeOK'
  BY <1>1 DEF OptionsInv, OptionsTypeOK
<1> QED BY <1>1, <1>2 DEF OptionsInv, InProfile, InArguments, FilesNamed, LaterWins

LEMMA ScanFirstInv == ASSUME OptionsInv, ScanFirst PROVE OptionsInv'
<1>1. /\ pc = "profile" /\ words # <<>> /\ b0 = NoWord /\ b0' = Head(words) /\ words' = Tail(words)
      /\ pc' = pc /\ arguments' = arguments /\ profile' = profile
      /\ settings' = settings /\ explicit' = explicit
      /\ in_file_names' = in_file_names /\ out_name' = out_name /\ using_stdin' = using_stdin
  BY DEF ScanFirst, files
<1>2. OptionsTypeOK /\ InProfile
  BY DEF OptionsInv
<1>3. PICK n \in Nat : /\ ScanAt(n, profile, words, b0)
                       /\ Unshadowed => Settled(ReadingTo(profile)[n].given, settings, explicit)
  BY <1>1, <1>2 DEF InProfile
<1>4. /\ profile \in Seq(Word) /\ words \in Seq(Word)
      /\ n \in 0..Len(profile) /\ Remains(words, profile) /\ ReadingTo(profile)[n] \in Closed
      /\ n = Len(profile) - Len(words)
  BY <1>1, <1>2, <1>3 DEF OptionsTypeOK, ScanAt
<1>5. /\ Head(words) = profile[Len(profile) - Len(words) + 1] /\ Head(words) \in Word
      /\ Tail(words) \in Seq(Word) /\ Len(Tail(words)) = Len(words) - 1
      /\ Len(words) \in Nat \ {0} /\ Len(profile) \in Nat /\ Remains(Tail(words), profile)
  BY <1>1, <1>4, RemainsTail
<1>6. Head(words) # NoWord
  BY <1>5 DEF Word
<1>7. ScanAt(n, profile', words', b0')
  <2>1. n + 1 = Len(profile) - (Len(words) - 1)
    BY <1>4, <1>5
  <2> QED BY <1>1, <1>4, <1>5, <1>6, <2>1 DEF ScanAt
<1>8. Unshadowed' => Settled(ReadingTo(profile)[n].given, settings', explicit')
  BY <1>1, <1>3 DEF Unshadowed
<1>9. InProfile'
  BY <1>1, <1>2, <1>7, <1>8 DEF InProfile
<1>10. OptionsTypeOK'
  BY <1>1, <1>2, <1>5 DEF OptionsTypeOK
<1> QED BY <1>1, <1>9, <1>10 DEF OptionsInv, InArguments, FilesNamed, LaterWins

LEMMA ScanNextInv == ASSUME OptionsInv, ScanNext PROVE OptionsInv'
<1>1. CASE DieError(b0, Head(words))
  BY <1>1, DieInv DEF ScanNext
<1>2. CASE ~DieError(b0, Head(words))
  <2>1. /\ pc = "profile" /\ words # <<>> /\ b0 # NoWord
        /\ set_option(b0, Head(words))
        /\ b0' = IF TakesParameter(b0) THEN NoWord ELSE Head(words)
        /\ words' = Tail(words)
        /\ pc' = pc /\ arguments' = arguments /\ profile' = profile
        /\ in_file_names' = in_file_names /\ out_name' = out_name /\ using_stdin' = using_stdin
    BY <1>2 DEF ScanNext, files
  <2>2. OptionsTypeOK /\ InProfile
    BY DEF OptionsInv
  <2>3. PICK n \in Nat : /\ ScanAt(n, profile, words, b0)
                         /\ Unshadowed => Settled(ReadingTo(profile)[n].given, settings, explicit)
    BY <2>1, <2>2 DEF InProfile
  <2>4. /\ profile \in Seq(Word) /\ words \in Seq(Word) /\ settings \in [Objects -> Int]
        /\ explicit \subseteq {pro[k].p_explicit : k \in DOMAIN pro}
        /\ n \in 0..Len(profile) /\ Remains(words, profile) /\ ReadingTo(profile)[n] \in Closed
        /\ n + 1 = Len(profile) - Len(words) /\ b0 = profile[n + 1]
    BY <2>1, <2>2, <2>3 DEF OptionsTypeOK, ScanAt
  <2>5. /\ Head(words) = profile[Len(profile) - Len(words) + 1] /\ Head(words) \in Word
        /\ Tail(words) \in Seq(Word) /\ Len(Tail(words)) = Len(words) - 1
        /\ Len(words) \in Nat \ {0} /\ Len(profile) \in Nat /\ Remains(Tail(words), profile)
    BY <2>1, <2>4, RemainsTail
  <2>6. /\ n \in 0..Len(profile) - 1 /\ n + 1 < Len(profile) /\ Head(words) = profile[n + 2] /\ n + 1 \in DOMAIN profile
        /\ n + 2 = Len(profile) - Len(Tail(words))
    <3>1. n \in 0..Len(profile) - 1 /\ n + 1 < Len(profile) /\ n + 1 \in 1..Len(profile)
          /\ Len(profile) - Len(words) + 1 = n + 2 /\ n + 2 = Len(profile) - (Len(words) - 1)
      BY <2>4, <2>5
    <3>2. DOMAIN profile = 1..Len(profile)
      BY <2>4
    <3> QED BY <2>5, <3>1, <3>2
  <2> DEFINE m == IF TakesParameter(b0) THEN n + 2 ELSE n + 1
  <2>7. /\ m \in 1..Len(profile) /\ ReadingTo(profile)[m] \in Closed
        /\ settings' \in [Objects -> Int]
        /\ explicit' \subseteq {pro[k].p_explicit : k \in DOMAIN pro}
        /\ ~Shadowed(b0) /\ Settled(<<>> \o ReadingTo(profile)[n].given, settings, explicit) =>
             Settled(<<>> \o ReadingTo(profile)[m].given, settings', explicit')
    <3>1. <<>> \in Seq(Givens)
      OBVIOUS
    <3>2. Head(words) = IF n + 1 < Len(profile) THEN profile[n + 2] ELSE NoWord
      BY <2>6
    <3> QED BY <1>2, <2>1, <2>4, <2>6, <3>1, <3>2, OptionTaken
  <2>8. <<>> \o ReadingTo(profile)[n].given = ReadingTo(profile)[n].given
        /\ <<>> \o ReadingTo(profile)[m].given = ReadingTo(profile)[m].given
    <3>1. \A r \in Closed : r.given \in Seq(Givens)
      BY DEF Closed
    <3>2. \A s \in Seq(Givens) : <<>> \o s = s
      BY Associative
    <3> QED BY <2>4, <2>7, <3>1, <3>2
  <2>9. Unshadowed' => Settled(ReadingTo(profile)[m].given, settings', explicit')
    <3>1. Unshadowed' => Unshadowed /\ ~Shadowed(b0)
      BY <2>1, <2>4, <2>6 DEF Unshadowed
    <3> QED BY <2>3, <2>7, <2>8, <3>1
  <2>10. m \in Nat /\ ScanAt(m, profile', words', b0')
    <3>1. m \in Nat /\ m \in 0..Len(profile)
      BY <2>5, <2>7
    <3>2. Head(words) # NoWord
      BY <2>5 DEF Word
    <3>3. CASE TakesParameter(b0)
      <4>1. b0' = NoWord /\ m = Len(profile) - Len(Tail(words))
        BY <2>1, <2>6, <3>3
      <4> QED BY <2>1, <2>5, <2>7, <3>1, <4>1 DEF ScanAt
    <3>4. CASE ~TakesParameter(b0)
      <4>1. b0' = profile[m + 1] /\ m + 1 = Len(profile) - Len(Tail(words))
        <5>1. m = n + 1 /\ m + 1 = n + 2
          BY <3>4
        <5> QED BY <2>1, <2>6, <3>4, <5>1
      <4>2. b0' # NoWord
        BY <2>1, <3>2, <3>4
      <4> QED BY <2>1, <2>5, <2>7, <3>1, <4>1, <4>2 DEF ScanAt
    <3> QED BY <3>3, <3>4
  <2> HIDE DEF m
  <2>11. InProfile'
    BY <2>1, <2>2, <2>9, <2>10 DEF InProfile
  <2>12. OptionsTypeOK'
    <3>1. b0' \in Word \cup {NoWord}
      BY <2>1, <2>5
    <3> QED BY <2>1, <2>2, <2>5, <2>7, <3>1 DEF OptionsTypeOK
  <2> QED BY <2>1, <2>11, <2>12 DEF OptionsInv, InArguments, FilesNamed, LaterWins
<1> QED BY <1>1, <1>2

\* The command line starts with the settings of the whole profile.
LEMMA ArgumentsStart ==
  ASSUME OptionsTypeOK, pc' = "arguments", words' = arguments, b0' = NoWord,
         arguments' = arguments, profile' = profile,
         in_file_names = <<>>, out_name = NoName,
         in_file_names' = in_file_names, out_name' = out_name, using_stdin' = using_stdin,
         Reading(profile) \in Closed,
         Unshadowed => Settled(Reading(profile).given, settings', explicit'),
         settings' \in [Objects -> Int], explicit' \subseteq {pro[k].p_explicit : k \in DOMAIN pro}
  PROVE  OptionsInv'
<1>1. arguments \in Seq(Word)
  BY DEF OptionsTypeOK
<1>2. /\ ScanAt(0, arguments, arguments, NoWord) /\ 0 \in Nat
      /\ ReadingTo(arguments)[0].given = <<>> /\ ReadingTo(arguments)[0].plain = <<>>
  BY <1>1, ScanStart
<1>3. Reading(profile).given \o <<>> = Reading(profile).given
  <2>1. \A r \in Closed : r.given \in Seq(Givens)
    BY DEF Closed
  <2>2. \A s \in Seq(Givens) : s \o <<>> = s
    BY Associative
  <2> QED BY <2>1, <2>2
<1>4. NamesKept(<<>>, <<>>, NoName)
  BY DEF NamesKept
<1>5. Unshadowed' => Unshadowed
  BY DEF Unshadowed
<1>6. InArguments'
  <2>1. ScanAt(0, arguments', words', b0')
    BY <1>2
  <2>2. Unshadowed' => Settled(Reading(profile').given \o ReadingTo(arguments')[0].given, settings', explicit')
    BY <1>2, <1>3, <1>5
  <2>3. NamesKept(ReadingTo(arguments')[0].plain, in_file_names', out_name')
    BY <1>2, <1>4
  <2> QED BY <1>2, <2>1, <2>2, <2>3 DEF InArguments
<1>7. OptionsTypeOK'
  BY <1>1 DEF OptionsTypeOK
<1> QED BY <1>6, <1>7 DEF OptionsInv, InProfile, FilesNamed, LaterWins

LEMMA ScanEndInv == ASSUME OptionsInv, ScanEnd PROVE OptionsInv'
<1>1. CASE b0 # NoWord /\ DieError(b0, NoWord)
  BY <1>1, DieInv DEF ScanEnd
<1>2. CASE ~(b0 # NoWord /\ DieError(b0, NoWord))
  <2>1. /\ pc = "profile" /\ words = <<>>
        /\ b0 = NoWord => settings' = settings /\ explicit' = explicit
        /\ b0 # NoWord => set_option(b0, NoWord)
        /\ b0' = NoWord /\ words' = arguments /\ pc' = "arguments"
        /\ arguments' = arguments /\ profile' = profile
        /\ in_file_names' = in_file_names /\ out_name' = out_name /\ using_stdin' = using_stdin
    BY <1>2 DEF ScanEnd, files
  <2>2. OptionsTypeOK /\ InProfile
    BY DEF OptionsInv
  <2>3. PICK n \in Nat : /\ ScanAt(n, profile, words, b0)
                         /\ Unshadowed => Settled(ReadingTo(profile)[n].given, settings, explicit)
    BY <2>1, <2>2 DEF InProfile
  <2>4. /\ profile \in Seq(Word) /\ words \in Seq(Word) /\ settings \in [Objects -> Int]
        /\ explicit \subseteq {pro[k].p_explicit : k \in DOMAIN pro}
        /\ n \in 0..Len(profile) /\ ReadingTo(profile)[n] \in Closed
        /\ b0 = NoWord => n = Len(profile) - Len(words)
        /\ b0 # NoWord => n + 1 = Len(profile) - Len(words) /\ b0 = profile[n + 1]
        /\ in_file_names = <<>> /\ out_name = NoName
    BY <2>1, <2>2, <2>3 DEF OptionsTypeOK, ScanAt, InProfile
  <2>5. Len(words) = 0 /\ Len(profile) \in Nat
    BY <2>1, <2>4
  <2>6. CASE b0 = NoWord
    <3>1. n = Len(profile)
      BY <2>4, <2>5, <2>6
    <3>2. Reading(profile) = ReadingTo(profile)[n]
      BY <3>1 DEF Reading
    <3> QED BY <2>1, <2>2, <2>3, <2>4, <2>6, <3>2, ArgumentsStart
  <2>7. CASE b0 # NoWord
    <3>1. n + 1 = Len(profile) /\ n \in 0..Len(profile) - 1 /\ ~(n + 1 < Len(profile)) /\ n + 1 \in DOMAIN profile
      <4>1. n + 1 = Len(profile)
        BY <2>4, <2>5, <2>7
      <4>2. n \in 0..Len(profile) - 1 /\ ~(n + 1 < Len(profile)) /\ n + 1 \in 1..Len(profile)
        BY <2>4, <2>5, <4>1
      <4>3. DOMAIN profile = 1..Len(profile)
        BY <2>4
      <4> QED BY <4>1, <4>2, <4>3
    <3> DEFINE m == IF TakesParameter(b0) THEN n + 2 ELSE n + 1
    <3>2. /\ m \in 1..Len(profile) /\ ReadingTo(profile)[m] \in Closed
          /\ settings' \in [Objects -> Int]
          /\ explicit' \subseteq {pro[k].p_explicit : k \in DOMAIN pro}
          /\ ~Shadowed(b0) /\ Settled(<<>> \o ReadingTo(profile)[n].given, settings, explicit) =>
               Settled(<<>> \o ReadingTo(profile)[m].given, settings', explicit')
      <4>1. <<>> \in Seq(Givens)
        OBVIOUS
      <4>2. NoWord = IF n + 1 < Len(profile) THEN profile[n + 2] ELSE NoWord
        BY <3>1
      <4> QED BY <1>2, <2>1, <2>4, <2>7, <3>1, <4>1, <4>2, OptionTaken
    <3>3. m = Len(profile)
      <4>1. n + 2 \notin 1..Len(profile)
        BY <2>4, <3>1
      <4> QED BY <3>1, <3>2, <4>1
    <3>4. <<>> \o ReadingTo(profile)[n].given = ReadingTo(profile)[n].given
          /\ <<>> \o ReadingTo(profile)[m].given = ReadingTo(profile)[m].given
      <4>1. \A r \in Closed : r.given \in Seq(Givens)
        BY DEF Closed
      <4>2. \A s \in Seq(Givens) : <<>> \o s = s
        BY Associative
      <4> QED BY <2>4, <3>2, <4>1, <4>2
    <3>5. Unshadowed => ~Shadowed(b0)
      BY <2>4, <2>7, <3>1 DEF Unshadowed
    <3>6. Reading(profile) = ReadingTo(profile)[m]
      BY <3>3 DEF Reading
    <3> HIDE DEF m
    <3>7. Unshadowed => Settled(Reading(profile).given, settings', explicit')
      BY <2>3, <3>2, <3>4, <3>5, <3>6
    <3> QED BY <2>1, <2>2, <2>4, <3>2, <3>6, <3>7, ArgumentsStart
  <2> QED BY <2>6, <2>7
<1> QED BY <1>1, <1>2

\* The first word of the command line that is left.
LEMMA ArgumentLeft ==
  ASSUME OptionsInv, Argument
  PROVE  \E n \in Nat :
           /\ n \in 0..Len(arguments) - 1 /\ Head(words) = arguments[n + 1] /\ n + 1 \in DOMAIN arguments
           /\ Head(words) \in Word /\ arguments \in Seq(Word) /\ Len(arguments) \in Nat /\ words \in Seq(Word)
           /\ n = Len(arguments) - Len(words)
           /\ ReadingTo(arguments)[n] \in Closed
           /\ ReadingTo(arguments)[n].plain \in Seq(STRING) /\ ReadingTo(arguments)[n].given \in Seq(Givens)
           /\ Unshadowed => Settled(Reading(profile).given \o ReadingTo(arguments)[n].given, settings, explicit)
           /\ NamesKept(ReadingTo(arguments)[n].plain, in_file_names, out_name)
           /\ Tail(words) \in Seq(Word) /\ Len(Tail(words)) = Len(words) - 1 /\ Len(words) \in Nat \ {0}
           /\ Remains(Tail(words), arguments) /\ Remains(words, arguments)
<1>1. OptionsTypeOK /\ InArguments /\ pc = "arguments" /\ words # <<>>
  BY DEF OptionsInv, Argument
<1>2. PICK n \in Nat :
        /\ ScanAt(n, arguments, words, b0) /\ b0 = NoWord
        /\ Unshadowed => Settled(Reading(profile).given \o ReadingTo(arguments)[n].given, settings, explicit)
        /\ NamesKept(ReadingTo(arguments)[n].plain, in_file_names, out_name)
  BY <1>1 DEF InArguments
<1>3. /\ arguments \in Seq(Word) /\ words \in Seq(Word)
      /\ n \in 0..Len(arguments) /\ Remains(words, arguments) /\ ReadingTo(arguments)[n] \in Closed
      /\ n = Len(arguments) - Len(words)
  BY <1>1, <1>2 DEF OptionsTypeOK, ScanAt
<1>4. /\ Head(words) = arguments[Len(arguments) - Len(words) + 1] /\ Head(words) \in Word
      /\ Tail(words) \in Seq(Word) /\ Len(Tail(words)) = Len(words) - 1
      /\ Len(words) \in Nat \ {0} /\ Len(arguments) \in Nat /\ Remains(Tail(words), arguments)
  BY <1>1, <1>3, RemainsTail
<1>5. n \in 0..Len(arguments) - 1 /\ n + 1 \in 1..Len(arguments) /\ Head(words) = arguments[n + 1]
  BY <1>3, <1>4
<1>6. DOMAIN arguments = 1..Len(arguments)
  BY <1>3
<1>7. ReadingTo(arguments)[n].plain \in Seq(STRING) /\ ReadingTo(arguments)[n].given \in Seq(Givens)
  BY <1>3 DEF Closed
<1> QED BY <1>2, <1>3, <1>4, <1>5, <1>6, <1>7

LEMMA ScanPast ==
  ASSUME NEW list, NEW n \in 0..Len(list) - 1, Len(list) \in Nat, NEW ws, NEW tail,
         n = Len(list) - Len(ws), Len(ws) \in Nat \ {0}, Len(tail) = Len(ws) - 1,
         Remains(tail, list), ReadingTo(list)[n + 1] \in Closed
  PROVE  ScanAt(n + 1, list, tail, NoWord) /\ n + 1 \in Nat
<1>1. n + 1 \in 0..Len(list) /\ n + 1 = Len(list) - Len(tail) /\ n + 1 \in Nat
  OBVIOUS
<1> QED BY <1>1 DEF ScanAt

\* A word that is no option leaves the options as they are.
LEMMA WordInv ==
  ASSUME OptionsInv, Argument, NoOption(Head(words)),
         words' = Tail(words), pc' = pc, arguments' = arguments, profile' = profile, b0' = b0, explicit' = explicit,
         settings' \in [Objects -> Int], \A obj \in Told : settings'[obj] = settings[obj],
         in_file_names' \in Seq(STRING), out_name' \in {NoName} \cup STRING, using_stdin' \in BOOLEAN,
         using_stdin' => in_file_names' = <<>>,
         \A plain \in Seq(STRING) : NamesKept(plain, in_file_names, out_name) =>
           NamesKept(IF Head(words).prefix = "" THEN Append(plain, Head(words).name) ELSE plain,
                 in_file_names', out_name')
  PROVE  OptionsInv'
<1>1. OptionsTypeOK /\ InArguments /\ pc = "arguments" /\ b0 = NoWord /\ Reading(profile) \in Closed
  BY DEF OptionsInv, Argument, InArguments
<1>2. PICK n \in Nat :
        /\ n \in 0..Len(arguments) - 1 /\ Head(words) = arguments[n + 1] /\ n + 1 \in DOMAIN arguments
        /\ Head(words) \in Word /\ arguments \in Seq(Word) /\ Len(arguments) \in Nat /\ words \in Seq(Word)
        /\ n = Len(arguments) - Len(words)
        /\ ReadingTo(arguments)[n] \in Closed
        /\ ReadingTo(arguments)[n].plain \in Seq(STRING) /\ ReadingTo(arguments)[n].given \in Seq(Givens)
        /\ Unshadowed => Settled(Reading(profile).given \o ReadingTo(arguments)[n].given, settings, explicit)
        /\ NamesKept(ReadingTo(arguments)[n].plain, in_file_names, out_name)
        /\ Tail(words) \in Seq(Word) /\ Len(Tail(words)) = Len(words) - 1 /\ Len(words) \in Nat \ {0}
        /\ Remains(Tail(words), arguments)
  BY ArgumentLeft
<1>3. /\ ReadingTo(arguments)[n + 1] \in Closed
      /\ ReadingTo(arguments)[n + 1].given = ReadingTo(arguments)[n].given
      /\ ReadingTo(arguments)[n + 1].plain =
           IF Head(words).prefix = "" THEN Append(ReadingTo(arguments)[n].plain, Head(words).name)
           ELSE ReadingTo(arguments)[n].plain
  BY <1>2, PlainRead
<1>4. ScanAt(n + 1, arguments', words', b0') /\ n + 1 \in Nat
  <2>1. ScanAt(n + 1, arguments, Tail(words), NoWord) /\ n + 1 \in Nat
    BY <1>2, <1>3, ScanPast, Zenon
  <2> QED BY <1>1, <2>1
<1>5. NamesKept(ReadingTo(arguments)[n + 1].plain, in_file_names', out_name')
  BY <1>2, <1>3
<1>6. Unshadowed' => Settled(Reading(profile).given \o ReadingTo(arguments)[n + 1].given, settings', explicit')
  <2>1. Unshadowed' => Unshadowed
    BY DEF Unshadowed
  <2> QED BY <1>2, <1>3, <2>1 DEF Settled
<1>7. InArguments'
  BY <1>1, <1>4, <1>5, <1>6 DEF InArguments
<1>8. OptionsTypeOK'
  BY <1>1, <1>2 DEF OptionsTypeOK
<1> QED BY <1>1, <1>7, <1>8 DEF OptionsInv, InProfile, FilesNamed, LaterWins

LEMMA OutputNameInv == ASSUME OptionsInv, OutputName PROVE OptionsInv'
<1>1. CASE out_name # NoName \/ Len(in_file_names) > 1
  BY <1>1, DieInv DEF OutputName
<1>2. CASE ~(out_name # NoName \/ Len(in_file_names) > 1)
  <2>1. /\ Argument /\ Head(words).prefix = ""
        /\ out_name' = Head(words).name
        /\ settings' = [settings EXCEPT !["expect_output_file"] = 0]
        /\ words' = Tail(words)
        /\ pc' = pc /\ arguments' = arguments /\ profile' = profile /\ b0' = b0 /\ explicit' = explicit
        /\ in_file_names' = in_file_names /\ using_stdin' = using_stdin
    BY <1>2 DEF OutputName
  <2>2. OptionsTypeOK /\ (using_stdin => in_file_names = <<>>)
    BY <2>1 DEF OptionsInv, InArguments, Argument
  <2>3. Head(words) \in Word
    BY <2>1, ArgumentLeft
  <2>4. Head(words).name \in STRING /\ Head(words).name # NoName
    BY <2>3 DEF Word
  <2>5. settings' \in [Objects -> Int] /\ \A obj \in Told : settings'[obj] = settings[obj]
    <3>1. settings \in [Objects -> Int]
      BY <2>2 DEF OptionsTypeOK
    <3>2. settings' = [settings EXCEPT !["expect_output_file"] = 0]
      BY <2>1
    <3>3. "expect_output_file" \in Objects
      <4>1. 3 \in Places
        BY DEF Places
      <4>2. pro[3].p_obj = "expect_output_file" /\ "expect_output_file" # Nameless
        BY PlaceObjects DEF Nameless
      <4> QED BY <4>1, <4>2, ObjectsOf
    <3>4. settings' \in [Objects -> Int]
      BY <3>1, <3>2, <3>3
    <3>5. \A obj \in Told : obj \in Objects /\ obj # "expect_output_file"
      BY DEF Told
    <3> QED BY <3>1, <3>2, <3>3, <3>4, <3>5
  <2>6. ASSUME NEW plain \in Seq(STRING), NamesKept(plain, in_file_names, out_name)
        PROVE  NamesKept(IF Head(words).prefix = "" THEN Append(plain, Head(words).name) ELSE plain,
                     in_file_names', out_name')
    <3>1. NamesKept(Append(plain, Head(words).name), in_file_names, Head(words).name)
      BY <1>2, <2>4, <2>6, NamedOutput
    <3> QED BY <2>1, <3>1
  <2>7. NoOption(Head(words))
    BY <2>1 DEF NoOption
  <2>8. in_file_names' \in Seq(STRING) /\ out_name' \in {NoName} \cup STRING /\ using_stdin' \in BOOLEAN
    BY <2>1, <2>2, <2>4 DEF OptionsTypeOK
  <2> QED BY <2>1, <2>2, <2>5, <2>6, <2>7, <2>8, WordInv
<1> QED BY <1>1, <1>2

LEMMA InputNameInv == ASSUME OptionsInv, InputName PROVE OptionsInv'
<1> DEFINE refused == using_stdin \/ (in_file_names # <<>> /\ (out_name # NoName \/ settings["use_stdout"] = 1))
<1>1. CASE refused
  BY <1>1, DieInv DEF InputName
<1>2. CASE ~refused
  <2>1. /\ Argument /\ Head(words).prefix = ""
        /\ in_file_names' = Append(in_file_names, Head(words).name)
        /\ words' = Tail(words) /\ settings' = settings
        /\ pc' = pc /\ arguments' = arguments /\ profile' = profile /\ b0' = b0 /\ explicit' = explicit
        /\ out_name' = out_name /\ using_stdin' = using_stdin
    BY <1>2 DEF InputName
  <2>2. OptionsTypeOK /\ ~using_stdin /\ (out_name = NoName \/ in_file_names = <<>>)
    BY <1>2 DEF OptionsInv
  <2>3. Head(words) \in Word
    BY <2>1, ArgumentLeft
  <2>4. Head(words).name \in STRING
    BY <2>3 DEF Word
  <2>5. settings' \in [Objects -> Int] /\ \A obj \in Told : settings'[obj] = settings[obj]
    BY <2>1, <2>2 DEF OptionsTypeOK
  <2>6. ASSUME NEW plain \in Seq(STRING), NamesKept(plain, in_file_names, out_name)
        PROVE  NamesKept(IF Head(words).prefix = "" THEN Append(plain, Head(words).name) ELSE plain,
                     in_file_names', out_name')
    <3>1. in_file_names \in Seq(STRING)
      BY <2>2 DEF OptionsTypeOK
    <3>2. NamesKept(Append(plain, Head(words).name), Append(in_file_names, Head(words).name), out_name)
      BY <2>2, <2>4, <2>6, <3>1, NamedInput
    <3> QED BY <2>1, <3>2
  <2>7. NoOption(Head(words))
    BY <2>1 DEF NoOption
  <2>8. in_file_names' \in Seq(STRING) /\ out_name' \in {NoName} \cup STRING /\ using_stdin' \in BOOLEAN
    <3>1. in_file_names \in Seq(STRING) /\ out_name \in {NoName} \cup STRING /\ using_stdin \in BOOLEAN
      BY <2>2 DEF OptionsTypeOK
    <3>2. Append(in_file_names, Head(words).name) \in Seq(STRING)
      BY <2>4, <3>1, AppendIs
    <3> QED BY <2>1, <3>1, <3>2
  <2>9. using_stdin' => in_file_names' = <<>>
    BY <2>1, <2>2
  <2> QED BY <2>1, <2>5, <2>6, <2>7, <2>8, <2>9, WordInv
<1> QED BY <1>1, <1>2

LEMMA StandardInputInv == ASSUME OptionsInv, StandardInput PROVE OptionsInv'
<1>1. CASE in_file_names # <<>>
  BY <1>1, DieInv DEF StandardInput
<1>2. CASE in_file_names = <<>>
  <2>1. /\ Argument /\ Head(words) = Option(Nameless)
        /\ in_file_names' = in_file_names
        /\ words' = Tail(words) /\ settings' = settings
        /\ pc' = pc /\ arguments' = arguments /\ profile' = profile /\ b0' = b0 /\ explicit' = explicit
        /\ out_name' = out_name /\ using_stdin' = TRUE
    BY <1>2 DEF StandardInput
  <2>2. OptionsTypeOK
    BY DEF OptionsInv
  <2>3. Head(words).prefix # "" /\ NoOption(Head(words))
    <3>1. Option(Nameless).prefix = "-"
      BY DEF Option
    <3> QED BY <2>1, <3>1 DEF NoOption
  <2>4. settings' \in [Objects -> Int] /\ \A obj \in Told : settings'[obj] = settings[obj]
    BY <2>1, <2>2 DEF OptionsTypeOK
  <2>5. \A plain \in Seq(STRING) : NamesKept(plain, in_file_names, out_name) =>
          NamesKept(IF Head(words).prefix = "" THEN Append(plain, Head(words).name) ELSE plain,
                in_file_names', out_name')
    BY <2>1, <2>3
  <2>6. in_file_names' \in Seq(STRING) /\ out_name' \in {NoName} \cup STRING /\ using_stdin' \in BOOLEAN
    BY <2>1, <2>2 DEF OptionsTypeOK
  <2>7. using_stdin' => in_file_names' = <<>>
    BY <1>2, <2>1
  <2> QED BY <2>1, <2>3, <2>4, <2>5, <2>6, <2>7, WordInv
<1> QED BY <1>1, <1>2

LEMMA OptionArgumentInv == ASSUME OptionsInv, OptionArgument PROVE OptionsInv'
<1> DEFINE w == Head(words)
           param == IF Len(words) > 1 THEN words[2] ELSE NoWord
<1>1. CASE DieError(w, param)
  BY <1>1, DieInv DEF OptionArgument
<1>2. CASE ~DieError(w, param)
  <2>1. /\ Argument /\ set_option(w, param)
        /\ words' = IF TakesParameter(w) THEN Tail(Tail(words)) ELSE Tail(words)
        /\ pc' = pc /\ arguments' = arguments /\ profile' = profile /\ b0' = b0
        /\ in_file_names' = in_file_names /\ out_name' = out_name /\ using_stdin' = using_stdin
    BY <1>2 DEF OptionArgument, files
  <2>2. OptionsTypeOK /\ InArguments /\ pc = "arguments" /\ b0 = NoWord /\ Reading(profile) \in Closed
        /\ (using_stdin => in_file_names = <<>>)
    BY <2>1 DEF OptionsInv, Argument, InArguments
  <2>3. PICK n \in Nat :
          /\ n \in 0..Len(arguments) - 1 /\ Head(words) = arguments[n + 1] /\ n + 1 \in DOMAIN arguments
          /\ Head(words) \in Word /\ arguments \in Seq(Word) /\ Len(arguments) \in Nat /\ words \in Seq(Word)
          /\ n = Len(arguments) - Len(words)
          /\ ReadingTo(arguments)[n] \in Closed
          /\ ReadingTo(arguments)[n].plain \in Seq(STRING) /\ ReadingTo(arguments)[n].given \in Seq(Givens)
          /\ Unshadowed => Settled(Reading(profile).given \o ReadingTo(arguments)[n].given, settings, explicit)
          /\ NamesKept(ReadingTo(arguments)[n].plain, in_file_names, out_name)
          /\ Tail(words) \in Seq(Word) /\ Len(Tail(words)) = Len(words) - 1 /\ Len(words) \in Nat \ {0}
          /\ Remains(Tail(words), arguments) /\ Remains(words, arguments)
    BY <2>1, ArgumentLeft
  <2>4. param = (IF n + 1 < Len(arguments) THEN arguments[n + 2] ELSE NoWord)
    <3>1. Len(words) > 1 <=> n + 1 < Len(arguments)
      BY <2>3
    <3>2. ASSUME Len(words) > 1 PROVE words[2] = arguments[n + 2]
      <4>1. 2 \in 1..Len(words) /\ Len(arguments) - Len(words) + 2 = n + 2
        BY <2>3, <3>2
      <4>2. \A j \in 1..Len(words) : words[j] = arguments[Len(arguments) - Len(words) + j]
        BY <2>3 DEF Remains
      <4> QED BY <4>1, <4>2
    <3> QED BY <3>1, <3>2
  <2> HIDE DEF w, param
  <2> DEFINE m == IF TakesParameter(w) THEN n + 2 ELSE n + 1
             h == Reading(profile).given
  <2>5. w = arguments[n + 1]
    BY <2>3 DEF w
  <2>6. h \in Seq(Givens)
    BY <2>2 DEF Closed
  <2>7. /\ settings \in [Objects -> Int]
        /\ explicit \subseteq {pro[k].p_explicit : k \in DOMAIN pro}
    BY <2>2 DEF OptionsTypeOK
  <2> HIDE DEF h
  <2>8. /\ m \in 1..Len(arguments) /\ ReadingTo(arguments)[m] \in Closed
        /\ ReadingTo(arguments)[m].plain = ReadingTo(arguments)[n].plain
        /\ settings' \in [Objects -> Int]
        /\ explicit' \subseteq {pro[k].p_explicit : k \in DOMAIN pro}
        /\ ~Shadowed(w) /\ Settled(h \o ReadingTo(arguments)[n].given, settings, explicit) =>
             Settled(h \o ReadingTo(arguments)[m].given, settings', explicit')
    BY <1>2, <2>1, <2>3, <2>4, <2>5, <2>6, <2>7, OptionTaken
  <2>9. words' \in Seq(Word) /\ Remains(words', arguments) /\ Len(words') = Len(arguments) - m
    <3>1. CASE ~TakesParameter(w)
      <4>1. words' = Tail(words) /\ m = n + 1
        BY <2>1, <3>1
      <4>2. Len(arguments) - (n + 1) = Len(words) - 1
        BY <2>3
      <4> QED BY <2>3, <4>1, <4>2
    <3>2. CASE TakesParameter(w)
      <4>1. words' = Tail(Tail(words)) /\ m = n + 2
        BY <2>1, <3>2
      <4>2. Len(Tail(words)) # 0 /\ Len(arguments) - (n + 2) = Len(Tail(words)) - 1
        BY <2>3, <2>8, <4>1
      <4>3. Tail(words) # <<>>
        <5>1. Len(<<>>) = 0
          OBVIOUS
        <5> QED BY <4>2, <5>1, Zenon
      <4>4. Tail(Tail(words)) \in Seq(Word) /\ Len(Tail(Tail(words))) = Len(Tail(words)) - 1
            /\ Remains(Tail(Tail(words)), arguments)
        BY <2>3, <4>3, RemainsTail
      <4> QED BY <4>1, <4>2, <4>4
    <3> QED BY <3>1, <3>2
  <2>10. m \in Nat /\ m \in 0..Len(arguments) /\ m = Len(arguments) - Len(words')
    BY <2>3, <2>8, <2>9
  <2> HIDE DEF m
  <2>11. ScanAt(m, arguments', words', b0')
    BY <2>1, <2>2, <2>8, <2>9, <2>10 DEF ScanAt
  <2>12. Unshadowed' => Unshadowed /\ ~Shadowed(w)
    BY <2>1, <2>3, <2>5 DEF Unshadowed
  <2>13. Unshadowed' => Settled(Reading(profile').given \o ReadingTo(arguments')[m].given, settings', explicit')
    BY <2>1, <2>3, <2>8, <2>12 DEF h
  <2>14. NamesKept(ReadingTo(arguments')[m].plain, in_file_names', out_name')
    BY <2>1, <2>3, <2>8
  <2>15. InArguments'
    BY <2>1, <2>2, <2>10, <2>11, <2>13, <2>14 DEF InArguments
  <2>16. OptionsTypeOK'
    BY <2>1, <2>2, <2>8, <2>9 DEF OptionsTypeOK
  <2> QED BY <2>1, <2>2, <2>15, <2>16 DEF OptionsInv, InProfile, FilesNamed, LaterWins
<1> QED BY <1>1, <1>2

LEMMA NipIs == \A k \in Places : pro[k].p_name = "nip" <=> k = 5
BY PlaceNames, NamesDiffer DEF Places

\* What -nip sets.
LEMMA NipSets ==
  /\ \A obj : (\E m \in Range(pro[5].members) : Sets(m, obj)) <=> obj = "indent_parameters"
  /\ MeantBy(pro[5], "indent_parameters") = 0
<1>1. Range(pro[5].members) = {Set("ip", 0)}
  <2>1. pro[5].members = <<Set("ip", 0)>>
    BY PlaceTypes
  <2> QED BY <2>1 DEF Range
<1>2. Documented(Set("ip", 0)) = 11 /\ pro[11].p_obj = "indent_parameters" /\ pro[11].p_type = "INT"
  BY BundleWords, PlaceObjects, PlaceTypes DEF Numbers
<1>3. Set("ip", 0).value = 0
  BY DEF Set
<1>4. \A obj : Sets(Set("ip", 0), obj) <=> obj = "indent_parameters"
  BY <1>2 DEF Sets
<1>5. (CHOOSE m \in {Set("ip", 0)} : Sets(m, "indent_parameters")) = Set("ip", 0)
  <2> HIDE DEF Sets, Set
  <2> QED BY <1>4
<1>6. MeantBy(pro[5], "indent_parameters") = 0
  BY <1>1, <1>2, <1>3, <1>5 DEF MeantBy, Stored
<1>7. \A obj : (\E m \in Range(pro[5].members) : Sets(m, obj)) <=> obj = "indent_parameters"
  <2> HIDE DEF Sets
  <2> QED BY <1>1, <1>4
<1> QED BY <1>6, <1>7

LEMMA MaxIs ==
  ASSUME NEW n \in Nat, NEW T \in SUBSET (1..n), NEW m \in T, \A k \in T : k <= m
  PROVE  Max(T) = m
<1> T # {}
  OBVIOUS
<1>1. Max(T) \in T /\ \A k \in T : k <= Max(T)
  BY GreatestPlace
<1>2. m <= Max(T) /\ Max(T) <= m /\ m \in Int /\ Max(T) \in Int
  <2>1. m \in 1..n /\ Max(T) \in 1..n
    BY <1>1
  <2>2. m <= Max(T) /\ Max(T) <= m
    BY <1>1
  <2> HIDE DEF Max
  <2> QED BY <2>1, <2>2
<1> QED BY <1>2

\* What the table makes of the options is what the manual says, but for an unheeded -nip.
LEMMA MeantAsCoded ==
  ASSUME NEW g \in Seq(Givens), NEW obj \in Objects
  PROVE  /\ obj # "indent_parameters" =>
              Meant(g, obj) = MeantByCode(g, obj) /\ Explicitly(g, obj) = NamedByCode(g, obj)
         /\ obj = "indent_parameters" /\ NipHeeded(g) => Meant(g, obj) = MeantByCode(g, obj)
<1> DEFINE n == Len(g)
           E == Explicitly(g, obj)
           C == NamedByCode(g, obj)
           B == Background(g, obj)
           S == StyledByCode(g, obj)
           Nips == {k \in DOMAIN g : IsNip(g[k])}
           ip == obj = "indent_parameters"
<1>1. n \in Nat /\ DOMAIN g = 1..n /\ \A k \in DOMAIN g : g[k].option \in Places
  <2>1. \A k \in DOMAIN g : g[k] \in Givens
    OBVIOUS
  <2> QED BY <2>1 DEF Givens
<1>2. \A k \in DOMAIN g : IsNip(g[k]) <=> g[k].option = 5
  BY <1>1, NipIs DEF IsNip
<1>3. pro[5].p_obj = Nameless /\ obj # Nameless
  BY PlaceObjects, ObjectsOf
<1>4. E = C \cup (IF ip THEN Nips ELSE {}) /\ C \cap Nips = {}
  <2>1. \A k \in C : k \notin Nips
    BY <1>2, <1>3 DEF NamedByCode
  <2> QED BY <2>1 DEF Explicitly, NamedByCode
<1>5. S = B \cup (IF ip THEN Nips ELSE {})
  <2> HIDE DEF Sets
  <2>1. \A k \in DOMAIN g : IsNip(g[k]) =>
          ((\E m \in Range(pro[g[k].option].members) : Sets(m, obj)) <=> ip)
    BY <1>2, NipSets
  <2>2. \A k \in DOMAIN g : k \in S <=> (k \in B \/ (ip /\ IsNip(g[k])))
    BY <2>1 DEF StyledByCode, Background
  <2>3. S \subseteq DOMAIN g /\ B \subseteq DOMAIN g
    BY DEF StyledByCode, Background
  <2> QED BY <2>2, <2>3
<1>6. E \in SUBSET (1..n) /\ C \in SUBSET (1..n) /\ S \in SUBSET (1..n) /\ Nips \in SUBSET (1..n)
  BY <1>1 DEF Explicitly, NamedByCode, StyledByCode
<1>7. Meant(g, obj) = IF E # {} THEN ExplicitValue(g[Max(E)])
                      ELSE IF B # {} THEN MeantBy(pro[g[Max(B)].option], obj) ELSE Default(obj)
  BY DEF Meant, MeantBy
<1>8. MeantByCode(g, obj) = IF C # {} THEN Stored(pro[g[Max(C)].option], g[Max(C)].value)
                            ELSE IF S # {} THEN MeantBy(pro[g[Max(S)].option], obj) ELSE Default(obj)
  BY DEF MeantByCode, MeantBy
<1>9. \A k \in Nips : ExplicitValue(g[k]) = 0
  BY DEF ExplicitValue
<1>10. \A k \in C : ExplicitValue(g[k]) = Stored(pro[g[k].option], g[k].value)
  <2>1. \A k \in C : k \in DOMAIN g /\ k \notin Nips
    BY <1>1, <1>4, <1>6
  <2> QED BY <2>1 DEF ExplicitValue
<1>11. \A T \in SUBSET (1..n) : T # {} => Max(T) \in T /\ \A k \in T : k <= Max(T)
  BY <1>1, GreatestPlace
<1>12. NipHeeded(g) /\ ip /\ E # {} /\ Max(E) \in Nips => E \subseteq Nips /\ \A k \in B : k < Max(E)
  <2>1. \A k \in E : k \in DOMAIN g
    BY <1>1, <1>6
  <2> SUFFICES ASSUME NipHeeded(g), ip, E # {}, Max(E) \in Nips
               PROVE  E \subseteq Nips /\ \A k \in B : k < Max(E)
    OBVIOUS
  <2>2. E = Explicitly(g, "indent_parameters") /\ B = Background(g, "indent_parameters") /\ IsNip(g[Max(E)])
    OBVIOUS
  <2> HIDE DEF IsNip, E, B
  <2>3. (\A k \in E : IsNip(g[k])) /\ \A k \in B : k < Max(E)
    BY <2>2 DEF NipHeeded
  <2>4. \A k \in E : k \in Nips
    BY <2>1, <2>3
  <2> HIDE DEF Nips
  <2> QED BY <2>3, <2>4
<1> HIDE DEF n, E, C, B, S, Nips
<1>13. CASE E = {}
  <2>1. C = {} /\ (ip => Nips = {})
    BY <1>4, <1>13
  <2>2. S = B
    BY <1>5, <2>1
  <2>3. Meant(g, obj) = MeantByCode(g, obj)
    BY <1>7, <1>8, <1>13, <2>1, <2>2
  <2> QED BY <1>13, <2>1, <2>3 DEF E, C
<1>14. CASE E # {} /\ Max(E) \in C
  <2>1. C \subseteq E /\ \A k \in C : k <= Max(E)
    BY <1>4, <1>6, <1>11, <1>14
  <2>2. Max(C) = Max(E)
    BY <1>1, <1>6, <1>14, <2>1, MaxIs
  <2>3. Meant(g, obj) = MeantByCode(g, obj)
    BY <1>7, <1>8, <1>10, <1>14, <2>2
  <2>4. ~ip => E = C
    BY <1>4
  <2> QED BY <2>3, <2>4 DEF E, C
<1>15. CASE E # {} /\ Max(E) \notin C
  <2>1. Max(E) \in E /\ Max(E) \in Nips /\ ip
    BY <1>4, <1>6, <1>11, <1>15
  <2>2. SUFFICES ASSUME NipHeeded(g) PROVE Meant(g, obj) = MeantByCode(g, obj)
    BY <2>1
  <2>3. E \subseteq Nips /\ \A k \in B : k < Max(E)
    BY <1>12, <1>15, <2>1, <2>2
  <2>4. C = {} /\ S = B \cup Nips /\ E = Nips
    BY <1>4, <1>5, <2>1, <2>3
  <2>5. \A k \in S : k <= Max(E)
    <3>1. \A k \in B : k <= Max(E)
      <4>1. \A k \in B : k \in Int
        <5>1. B \subseteq 1..n /\ \A k \in 1..n : k \in Int
          BY <1>1, <1>6, <2>4
        <5> QED BY <5>1
      <4>2. Max(E) \in Int
        <5>1. Max(E) \in 1..n
          BY <1>6, <2>1
        <5> QED BY <1>1, <5>1
      <4> QED BY <2>3, <4>1, <4>2
    <3>2. \A k \in Nips : k <= Max(E)
      BY <1>6, <1>11, <1>15, <2>4
    <3> QED BY <2>4, <3>1, <3>2
  <2>6. Max(S) = Max(E) /\ S # {}
    BY <1>1, <1>6, <2>1, <2>4, <2>5, MaxIs
  <2>7. g[Max(E)].option = 5
    BY <1>2, <2>1 DEF Nips
  <2>8. Meant(g, obj) = 0
    BY <1>7, <1>9, <1>15, <2>1
  <2>9. MeantByCode(g, obj) = 0
    BY <1>8, <2>1, <2>4, <2>6, <2>7, NipSets
  <2> QED BY <2>8, <2>9
<1> QED BY <1>13, <1>14, <1>15 DEF E, C

LEMMA ReadyInv == ASSUME OptionsInv, Ready PROVE OptionsInv'
<1>1. /\ pc = "arguments" /\ words = <<>> /\ pc' = "ready"
      /\ settings' = IF "lc" \in explicit THEN settings
                     ELSE [settings EXCEPT !["comment_max_col"] = settings["max_col"]]
      /\ arguments' = arguments /\ profile' = profile /\ words' = words /\ b0' = b0 /\ explicit' = explicit
      /\ in_file_names' = in_file_names /\ out_name' = out_name /\ using_stdin' = using_stdin
  BY DEF Ready, files
<1>2. OptionsTypeOK /\ InArguments
  BY DEF OptionsInv
<1>3. PICK n \in Nat :
        /\ ScanAt(n, arguments, words, b0) /\ b0 = NoWord
        /\ Unshadowed => Settled(Reading(profile).given \o ReadingTo(arguments)[n].given, settings, explicit)
        /\ NamesKept(ReadingTo(arguments)[n].plain, in_file_names, out_name)
  BY <1>1, <1>2 DEF InArguments
<1>4. /\ n = Len(arguments) /\ ReadingTo(arguments)[n] \in Closed /\ Reading(profile) \in Closed
      /\ using_stdin => in_file_names = <<>>
  <2>1. n = Len(arguments) - Len(words) /\ Len(words) = 0 /\ Len(arguments) \in Nat
    BY <1>1, <1>2, <1>3 DEF ScanAt, OptionsTypeOK
  <2>2. n = Len(arguments)
    BY <2>1
  <2> QED BY <1>1, <1>2, <1>3, <2>2 DEF ScanAt, InArguments
<1>5. Reading(arguments) = ReadingTo(arguments)[n]
  BY <1>4 DEF Reading
<1>6. FilesNamed'
  <2>1. NamesKept(Reading(arguments).plain, in_file_names, out_name)
    BY <1>3, <1>5
  <2> QED BY <1>1, <1>4, <2>1 DEF FilesNamed, NamesKept
<1>7. settings \in [Objects -> Int]
  BY <1>2 DEF OptionsTypeOK
<1>8. /\ 8 \in Places /\ 9 \in Places /\ pro[8].p_obj = "comment_max_col" /\ pro[9].p_obj = "max_col"
      /\ pro[8].p_explicit = "lc" /\ "comment_max_col" # Nameless /\ "max_col" # Nameless
  <2>1. 8 \in Places /\ 9 \in Places /\ 8 \in Places \ {6, 7, 14}
    BY DEF Places
  <2>2. pro[8].p_explicit = pro[8].p_name /\ pro[8].p_name = "lc"
    BY <2>1, PlaceMarks, PlaceNames
  <2> QED BY <2>1, <2>2, PlaceObjects DEF Nameless
<1>9. "comment_max_col" \in Told /\ "max_col" \in Told
  BY <1>8, ObjectsOf DEF Told
<1>10. settings' \in [Objects -> Int] /\ \A obj \in Objects \ {"comment_max_col"} : settings'[obj] = settings[obj]
  BY <1>1, <1>7, <1>9 DEF Told
<1>11. OptionsTypeOK'
  BY <1>1, <1>2, <1>10 DEF OptionsTypeOK
<1>12. ASSUME Unshadowed' PROVE LaterWins'
  <2> DEFINE g == Reading(profile).given \o Reading(arguments).given
  <2>1. Unshadowed
    BY <1>1, <1>12 DEF Unshadowed
  <2>2. Settled(g, settings, explicit)
    BY <1>3, <1>5, <2>1
  <2>3. g \in Seq(Givens)
    <3>1. \A r \in Closed : r.given \in Seq(Givens)
      BY DEF Closed
    <3> QED BY <1>4, <1>5, <3>1, ConcatElements
  <2>4. Given' = g
    BY <1>1 DEF Given
  <2> HIDE DEF g
  <2>5. explicit = Marks(g) /\ \A obj \in Told : settings[obj] = MeantByCode(g, obj)
    BY <2>2 DEF Settled
  <2>6. "lc" \in explicit <=> NamedByCode(g, "comment_max_col") # {}
    BY <1>8, <2>3, <2>5, MarkedIs
  <2> DEFINE margin == IF NamedByCode(g, "comment_max_col") = {} THEN "max_col" ELSE "comment_max_col"
  <2>7. settings'["comment_max_col"] = MeantByCode(g, margin)
    <3>1. CASE "lc" \in explicit
      BY <1>1, <1>9, <2>5, <2>6, <3>1
    <3>2. CASE "lc" \notin explicit
      <4>1. settings'["comment_max_col"] = settings["max_col"]
        BY <1>1, <1>7, <1>9, <3>2 DEF Told
      <4> QED BY <1>9, <2>5, <2>6, <3>2, <4>1
    <3> QED BY <3>1, <3>2
  <2>8. \A obj \in Objects \ {"expect_output_file", "comment_max_col"} : settings'[obj] = MeantByCode(g, obj)
    BY <1>10, <2>5 DEF Told
  <2>9. ASSUME NEW obj \in Objects \ {"expect_output_file", "comment_max_col"},
               obj = "indent_parameters" => NipHeeded(g)
        PROVE  settings'[obj] = Meant(g, obj)
    BY <2>3, <2>8, <2>9, MeantAsCoded
  <2>10. /\ Explicitly(g, "comment_max_col") = NamedByCode(g, "comment_max_col")
         /\ Meant(g, "comment_max_col") = MeantByCode(g, "comment_max_col")
         /\ Meant(g, "max_col") = MeantByCode(g, "max_col")
    <3>1. "comment_max_col" \in Objects /\ "max_col" \in Objects
      BY <1>9 DEF Told
    <3> QED BY <2>3, <3>1, MeantAsCoded
  <2>11. settings'["comment_max_col"] =
           Meant(g, IF Explicitly(g, "comment_max_col") = {} THEN "max_col" ELSE "comment_max_col")
    BY <2>7, <2>10
  <2> QED BY <2>4, <2>9, <2>11 DEF LaterWins
<1> QED BY <1>1, <1>6, <1>11, <1>12 DEF OptionsInv, InProfile, InArguments

LEMMA OptionsNextInv == OptionsInv /\ [OptionsNext]_optionsVars => OptionsInv'
<1>1. ASSUME OptionsInv, OptionsNext PROVE OptionsInv'
  BY <1>1, ScanFirstInv, ScanNextInv, ScanEndInv, OutputNameInv, InputNameInv, StandardInputInv,
     OptionArgumentInv, ReadyInv DEF OptionsNext
<1>2. ASSUME OptionsInv, UNCHANGED optionsVars PROVE OptionsInv'
  BY <1>2 DEF OptionsInv, OptionsTypeOK, InProfile, InArguments, FilesNamed, LaterWins, Unshadowed, Given, optionsVars
<1> QED BY <1>1, <1>2

LEMMA OptionsInvariant == OptionsSpec => []OptionsInv
BY OptionsInitInv, OptionsNextInv, PTL DEF OptionsSpec

\* The settings are numbers, the marks are those of the table, and what is left of the
\* profile and of argv are words, whatever set_option() is handed.
THEOREM OptionsTyped == OptionsSpec => []OptionsTypeOK
<1>1. OptionsInv => OptionsTypeOK
  BY DEF OptionsInv
<1> QED BY <1>1, OptionsInvariant, PTL

\* However options, styles and the profile are mixed, the last option that names a setting
\* decides it, else the last style; a -nip that an -ip precedes or a style follows, last of
\* its kind, is excepted (NipHeeded), as the table takes it for a style.  The two long options
\* that a shorter name of the table hides (LongNameFound) must not be among the words.
THEOREM LaterOptionsWin == OptionsSpec => [](Unshadowed => LaterWins)
<1>1. OptionsInv => (Unshadowed => LaterWins)
  BY DEF OptionsInv
<1> QED BY <1>1, OptionsInvariant, PTL

\* Each plain word that is no parameter is one input or the output, whatever the options
\* between them (process_args).
THEOREM EveryFileNamed == OptionsSpec => []FilesNamed
<1>1. OptionsInv => FilesNamed
  BY DEF OptionsInv
<1> QED BY <1>1, OptionsInvariant, PTL

\* What process_args() leaves is what the run over the files starts from: -o names the
\* output of one file.
THEOREM RunStarts == OptionsSpec => [](pc = "ready" /\ Multiple => out_name = NoName)
<1>1. OptionsTypeOK /\ FilesNamed => (pc = "ready" /\ Multiple => out_name = NoName)
  <2> SUFFICES ASSUME OptionsTypeOK, FilesNamed, pc = "ready", Multiple PROVE out_name = NoName
    OBVIOUS
  <2>1. Len(in_file_names) \in Nat /\ Len(in_file_names) > 1
    BY DEF OptionsTypeOK, Multiple
  <2>2. out_name # NoName => Len(in_file_names) <= 1
    BY DEF FilesNamed
  <2> QED BY <2>1, <2>2
<1> QED BY <1>1, OptionsTyped, EveryFileNamed, PTL
=============================================================================
