----------------------------- MODULE LogRotation -----------------------------
(***************************************************************************)
(* The self-rotating log file of the proxy (logging.rs): one write, or one *)
(* rename of a rotation, at a time.  Writers of one process are serialised *)
(* by a mutex; the process may die between two steps and come back.  A     *)
(* line is its number, its length and the offset it was written at; write  *)
(* errors other than those of a rotation, and a second process on the same *)
(* path, are left out.                                                     *)
(***************************************************************************)
EXTENDS Naturals, Sequences

CONSTANTS
    MaxBytes,     \* max_bytes
    Backups,       \* keep
    LineLengths,  \* lengths a line may have
    MaxLines       \* bound: lines logged

(* max_bytes and keep are raised to one.                                   *)
ASSUME LogAssumption ==
    /\ MaxBytes \in Nat \ {0} /\ Backups \in Nat \ {0}
    /\ LineLengths \subseteq Nat /\ MaxLines \in Nat

VARIABLES
    logFile,   \* the files: 0 is the live one, i the backup .i; <<>> is no file
    logger,    \* the writer: step of a rotation, self.size, the line at hand
    logged,    \* history: lines given to the writer
    rotations, \* history: rotations completed
    mishap     \* history: "none", "crash", or "fault" (a rename that failed)

logVars == <<logFile, logger, logged, rotations, mishap>>

LogLineOf(number, length, at) == [number |-> number, length |-> length, at |-> at]
Ready == [step |-> "idle", shift |-> 0, size |-> 0, line |-> LogLineOf(0, 0, 0)]

LogInit ==
    /\ logFile = [i \in 0..Backups |-> <<>>]
    /\ logger = Ready
    /\ logged = 0
    /\ rotations = 0
    /\ mishap = "none"

(* The length of a file that has these lines.                              *)
EndOf(lines) ==
    IF lines = <<>> THEN 0 ELSE lines[Len(lines)].at + lines[Len(lines)].length

(* O_APPEND: the line goes to the end of the live file.                    *)
Append0(line, size) ==
    /\ logFile' = [logFile EXCEPT ![0] = Append(@, [line EXCEPT !.at = EndOf(logFile[0])])]
    /\ logger' = [Ready EXCEPT !.size = size + line.length]

(* write_inner: a line that would exceed the limit rotates first, unless   *)
(* it would exceed an empty file as well; the oldest backup goes first.    *)
LogLine == \E length \in LineLengths :
    /\ logger.step = "idle" /\ logged < MaxLines
    /\ logged' = logged + 1
    /\ LET line == LogLineOf(logged + 1, length, 0) IN
       IF logger.size + length > MaxBytes /\ length < MaxBytes
       THEN /\ logFile' = [logFile EXCEPT ![Backups] = <<>>]
            /\ logger' = [logger EXCEPT !.step = "shift", !.shift = Backups - 1, !.line = line]
       ELSE Append0(line, logger.size)
    /\ UNCHANGED <<rotations, mishap>>

(* Faulty variant: the loop runs over 2..keep. *)
ThenShiftFromTwo(i) == IF i > 2 THEN i - 1 ELSE 0

(* for i in (1..keep).rev()                                                *)
ThenShift(i) == IF i > 0 THEN i - 1 ELSE 0

(* Faulty variant: the file is copied. *)
MoveCopies(from, to) == [logFile EXCEPT ![to] = logFile[from]]

Move(from, to) == [logFile EXCEPT ![to] = logFile[from], ![from] = <<>>]

(* An error of this rename is dropped (`let _ =`).                         *)
ShiftBackup == \E fails \in BOOLEAN :
    /\ logger.step = "shift" /\ logger.shift > 0
    /\ logFile' = IF fails \/ logFile[logger.shift] = <<>> THEN logFile
                  ELSE Move(logger.shift, logger.shift + 1)
    /\ logger' = [logger EXCEPT !.shift = ThenShift(@)]
    /\ mishap' = IF fails THEN "fault" ELSE mishap
    /\ UNCHANGED <<logged, rotations>>

(* rename(path, .1); `?` gives up the rotation and the line.               *)
MoveLive == \E fails \in BOOLEAN :
    /\ logger.step = "shift" /\ logger.shift = 0
    /\ IF fails
       THEN /\ logger' = [Ready EXCEPT !.size = logger.size]
            /\ mishap' = "fault" /\ UNCHANGED logFile
       ELSE /\ logFile' = IF logFile[0] = <<>> THEN logFile ELSE Move(0, 1)
            /\ logger' = [logger EXCEPT !.step = "reopen"]
            /\ UNCHANGED mishap
    /\ UNCHANGED <<logged, rotations>>

(* A fresh file, and the line that started it all.                         *)
Reopen ==
    /\ logger.step = "reopen"
    /\ Append0(logger.line, 0)
    /\ rotations' = rotations + 1
    /\ UNCHANGED <<logged, mishap>>

(* Faulty variant: open takes the file for a new one. *)
OpenLogEmpty == Ready

(* RotatingFile::open: the size is what is there.                          *)
OpenLog == [Ready EXCEPT !.size = EndOf(logFile[0])]

(* The process dies, in or out of a rotation, and is started again.        *)
RestartLogger ==
    /\ logger' = OpenLog
    /\ mishap' = IF logger.step = "idle" \/ mishap = "fault" THEN mishap ELSE "crash"
    /\ UNCHANGED <<logFile, logged, rotations>>

LogNext == LogLine \/ ShiftBackup \/ MoveLive \/ Reopen \/ RestartLogger

(***************************************************************************)
(* Properties                                                              *)
(***************************************************************************)

LogLines == [number : 1..MaxLines, length : Nat, at : Nat]

(* Type of the log part. *)
LogTypeOK ==
    /\ logFile \in [0..Backups -> Seq(LogLines)]
    /\ logger.step \in {"idle", "shift", "reopen"} /\ logger.shift \in 0..Backups
    /\ logger.size \in Nat /\ logged \in 0..MaxLines /\ rotations \in 0..MaxLines
    /\ mishap \in {"none", "crash", "fault"}

(* The numbers of the lines in the files, and the last one written.        *)
Retained == UNION {{logFile[i][k].number : k \in DOMAIN logFile[i]} : i \in 0..Backups}
Newest   == IF logger.step = "idle" THEN logged ELSE logged - 1

(* Unless a rename failed, the lines are in order, the older ones in the   *)
(* files with the higher numbers, and none is there twice; and unless a    *)
(* crash cut a rotation off they are the youngest ones, none missing.      *)
LogInOrder ==
    /\ mishap # "fault" =>
         \A i, j \in 0..Backups : \A k \in DOMAIN logFile[i], l \in DOMAIN logFile[j] :
             i > j \/ (i = j /\ k < l) => logFile[i][k].number < logFile[j][l].number
    /\ mishap = "none" =>
         /\ Newest > 0 => Newest \in Retained
         /\ \A n \in Retained : n..Newest \subseteq Retained

(* "older backups shift up to .<keep>": a backup is given up only when     *)
(* there are `keep` of them.                                               *)
LogKept ==
    mishap = "none" /\ logger.step = "idle" =>
        \A i \in 1..Backups : logFile[i] # <<>> <=> i <= rotations

(* Size-bounded: a line that fits into a file ends within the limit.       *)
LogBounded ==
    \A i \in 0..Backups : \A k \in DOMAIN logFile[i] :
        LET line == logFile[i][k]
        IN  line.length < MaxBytes => line.at + line.length <= MaxBytes

(* The log files as a whole: the youngest lines, in order, in bounded      *)
(* files, through crashes and failing renames.                             *)
LogFaithful == LogInOrder /\ LogKept /\ LogBounded
=============================================================================
