------------------------------- MODULE LogFile -------------------------------
(***************************************************************************)
(* The log file (cc_log.c, the log calls of cc_of_lib.c): every thread of  *)
(* the library writes to it through one stream, the application switches   *)
(* it on and off, reads it by closing and reopening the stream, and        *)
(* truncates it behind the stream's back.                                  *)
(*                                                                         *)
(* write_logfile_lock and cc_of_log_toggle do all their work with          *)
(* oflog_lock and are one action each; cc_of_log_read is several, because  *)
(* cc_of_log_clear takes no lock.  stdio buffers what is written.  fopen   *)
(* may fail when the process has no descriptor left.                       *)
(*                                                                         *)
(* "Seeded fault": a wrong version of the definition that follows, used    *)
(* only to see that a property notices.                                    *)
(***************************************************************************)
EXTENDS Naturals, Sequences, SequencesExt

CONSTANTS
  Threads,   \* threads that log: of the application and of the library
  MaxMsgs,   \* bound: messages logged in a behaviour; they are numbered
  MaxTime,   \* bound: seconds that pass; a file is named after its second
  None

ASSUME LogAssumption ==
  /\ MaxMsgs \in Nat /\ MaxTime \in Nat
  /\ None \notin Threads \cup (0 .. MaxTime)

Times == 0 .. MaxTime

VARIABLES
  inited,       \* between cc_of_lib_init and cc_of_lib_free
  oflog_enable,
  oflog_file,   \* the second in the file's name, or None: memory never written
  oflog_fd,     \* the stream: "NULL", "closed" (a stale pointer), "r" or "a+"
  buffer,       \* messages in the stream's buffer
  disk,         \* contents of each file
  streams,      \* streams that were opened and not closed
  lock,         \* holder of oflog_lock
  pc,           \* where each thread is
  result,       \* what cc_of_log_read returned last, or None
  logged,       \* messages given to each file while logging was on
  cleared,      \* files that were truncated
  failed,       \* has an fopen failed?
  crash,        \* a NULL stream was used
  now, msgs

vars == <<inited, oflog_enable, oflog_file, oflog_fd, buffer, disk, streams, lock,
          pc, result, logged, cleared, failed, crash, now, msgs>>

Init ==
  /\ inited = FALSE
  /\ oflog_enable = FALSE /\ oflog_file = None /\ oflog_fd = "NULL"
  /\ buffer = <<>>
  /\ disk = [f \in Times |-> <<>>]
  /\ streams = 0
  /\ lock = None
  /\ pc = [t \in Threads |-> "idle"]
  /\ result = None
  /\ logged = [f \in Times |-> <<>>]
  /\ cleared = {} /\ failed = FALSE /\ crash = FALSE
  /\ now = 0 /\ msgs = 0

\* t can enter a function that takes oflog_lock.
Enters(t) == ~crash /\ pc[t] = "idle" /\ lock = None
-----------------------------------------------------------------------------
(* stdio *)

\* Seeded fault: the stream is not closed, only replaced.
CloseNot == /\ oflog_fd' = "closed"
            /\ UNCHANGED <<streams, disk, buffer>>

\* fclose(oflog_fd): the buffer goes to the end of the file.
Close == /\ streams' = streams - 1
         /\ disk' = IF buffer = <<>> THEN disk
                    ELSE [disk EXCEPT ![oflog_file] = @ \o buffer]
         /\ buffer' = <<>>
         /\ oflog_fd' = "closed"

\* The stream that fopen returns, or NULL.
Opens(mode, ok) == IF ok THEN mode ELSE "NULL"

\* The buffer is full.
Flush ==
  /\ ~crash /\ oflog_fd = "a+" /\ buffer # <<>>
  /\ disk' = [disk EXCEPT ![oflog_file] = @ \o buffer]
  /\ buffer' = <<>>
  /\ UNCHANGED <<inited, oflog_enable, oflog_file, oflog_fd, streams, lock, pc, result,
                 logged, cleared, failed, crash, now, msgs>>
-----------------------------------------------------------------------------
(* The library's calls *)

\* The log's part of cc_of_lib_init.
LibInit(t) ==
  /\ Enters(t) /\ ~inited
  /\ inited' = TRUE
  /\ oflog_enable' = FALSE /\ oflog_fd' = "NULL" /\ oflog_file' = None
  /\ UNCHANGED <<buffer, disk, streams, lock, pc, result, logged, cleared, failed,
                 crash, now, msgs>>

\* Seeded fault: fopen with "w", not "a+".
EnableTruncates(t) ==
  /\ Enters(t) /\ inited /\ ~oflog_enable
  /\ oflog_file' = now /\ oflog_fd' = "a+" /\ streams' = streams + 1
  /\ disk' = [disk EXCEPT ![now] = <<>>]
  /\ oflog_enable' = TRUE
  /\ UNCHANGED <<inited, buffer, lock, pc, result, logged, cleared, failed, crash, now,
                 msgs>>

\* cc_of_log_toggle(TRUE): create_logfile, whose result is not looked at.
Enable(t) ==
  /\ Enters(t) /\ inited /\ ~oflog_enable
  /\ oflog_file' = now
  /\ \E ok \in BOOLEAN :
       /\ oflog_fd' = Opens("a+", ok)
       /\ streams' = IF ok THEN streams + 1 ELSE streams
       /\ failed' = (failed \/ ~ok)
  /\ oflog_enable' = TRUE
  /\ UNCHANGED <<inited, buffer, disk, lock, pc, result, logged, cleared, crash, now,
                 msgs>>

\* Seeded fault: the file of a log that is on is opened again.
ToggleAgainOpens(t) ==
  /\ Enters(t) /\ inited /\ oflog_enable
  /\ oflog_file' = now /\ oflog_fd' = "a+" /\ streams' = streams + 1
  /\ UNCHANGED <<inited, oflog_enable, buffer, disk, lock, pc, result, logged, cleared,
                 failed, crash, now, msgs>>

\* cc_of_log_toggle(TRUE) when the log is on does nothing, and so does
\* cc_of_log_toggle(FALSE) when it is off.
ToggleAgain(t) == Enters(t) /\ inited /\ UNCHANGED vars

\* cc_of_log_toggle(FALSE), and cc_of_lib_free, which calls it last and frees
\* the name.  fclose(NULL) crashes.
DisableThen(stays) ==
  /\ oflog_enable
  /\ oflog_enable' = FALSE
  /\ \/ /\ oflog_fd = "NULL" /\ crash' = TRUE
        /\ UNCHANGED <<oflog_fd, streams, disk, buffer>>
     \/ /\ oflog_fd # "NULL" /\ Close
        /\ UNCHANGED crash
  /\ inited' = stays
  /\ oflog_file' = IF stays THEN oflog_file ELSE None
  /\ UNCHANGED <<lock, pc, result, logged, cleared, failed, now, msgs>>

Disable(t) == Enters(t) /\ inited /\ DisableThen(TRUE)

LibFree(t) ==
  /\ Enters(t) /\ inited
  /\ \/ DisableThen(FALSE)
     \/ /\ ~oflog_enable
        /\ inited' = FALSE /\ oflog_file' = None
        /\ UNCHANGED <<oflog_enable, oflog_fd, buffer, disk, streams, lock, pc, result,
                       logged, cleared, failed, crash, now, msgs>>

\* write_logfile_lock: the end of every CC_LOG macro.
Write(t) ==
  /\ Enters(t) /\ inited /\ msgs < MaxMsgs /\ oflog_enable
  /\ msgs' = msgs + 1
  /\ \/ /\ oflog_fd = "NULL" /\ crash' = TRUE
        /\ UNCHANGED <<buffer, logged>>
     \/ /\ oflog_fd # "NULL"
        /\ buffer' = Append(buffer, msgs + 1)
        /\ logged' = [logged EXCEPT ![oflog_file] = Append(@, msgs + 1)]
        /\ UNCHANGED crash
  /\ UNCHANGED <<inited, oflog_enable, oflog_file, oflog_fd, disk, streams, lock, pc,
                 result, cleared, failed, now>>

\* cc_of_log_read, read_logfile: with the lock, the stream is closed and the
\* file opened for reading ...
Read(t) ==
  /\ Enters(t) /\ inited /\ oflog_enable
  /\ \/ /\ oflog_fd = "NULL" /\ crash' = TRUE
        /\ UNCHANGED <<oflog_fd, streams, disk, buffer, lock, pc>>
     \/ /\ oflog_fd # "NULL"
        /\ lock' = t
        /\ pc' = [pc EXCEPT ![t] = "closed"]
        /\ Close
        /\ UNCHANGED crash
  /\ UNCHANGED <<inited, oflog_enable, oflog_file, result, logged, cleared, failed, now,
                 msgs>>

ReadOpen(t) ==
  /\ ~crash /\ pc[t] = "closed"
  /\ \E ok \in BOOLEAN :
       /\ oflog_fd' = Opens("r", ok)
       /\ streams' = IF ok THEN streams + 1 ELSE streams
       /\ failed' = (failed \/ ~ok)
  /\ pc' = [pc EXCEPT ![t] = "reading"]
  /\ UNCHANGED <<inited, oflog_enable, oflog_file, buffer, disk, lock, result, logged,
                 cleared, crash, now, msgs>>

\* ... its contents are fetched through yet another descriptor; if that fails,
\* CC_LOG_ERROR asks for oflog_lock, which this thread has ...
ReadContents(t) ==
  /\ ~crash /\ pc[t] = "reading"
  /\ \/ /\ result' = disk[oflog_file]
        /\ pc' = [pc EXCEPT ![t] = "read"]
        /\ UNCHANGED failed
     \/ /\ failed' = TRUE
        /\ pc' = [pc EXCEPT ![t] = "stuck"]
        /\ UNCHANGED result
  /\ UNCHANGED <<inited, oflog_enable, oflog_file, oflog_fd, buffer, disk, streams, lock,
                 logged, cleared, crash, now, msgs>>

\* Seeded fault: the file stays open for reading.
AppendModeRead == "r"

\* The mode of the stream afterwards.
AppendMode == "a+"

\* Seeded fault: the lock is kept.
ReadEndKeeps(t) ==
  /\ ~crash /\ pc[t] = "read"
  /\ oflog_fd' = AppendMode
  /\ pc' = [pc EXCEPT ![t] = "idle"]
  /\ UNCHANGED <<inited, oflog_enable, oflog_file, buffer, disk, streams, lock, result,
                 logged, cleared, failed, crash, now, msgs>>

\* ... and the file is opened for appending again.
ReadEnd(t) ==
  /\ ~crash /\ pc[t] = "read"
  /\ \/ /\ oflog_fd = "NULL" /\ crash' = TRUE
        /\ UNCHANGED <<oflog_fd, streams, failed>>
     \/ /\ oflog_fd # "NULL"
        /\ \E ok \in BOOLEAN :
             /\ oflog_fd' = Opens(AppendMode, ok)
             /\ streams' = IF ok THEN streams ELSE streams - 1
             /\ failed' = (failed \/ ~ok)
        /\ UNCHANGED crash
  /\ lock' = None
  /\ pc' = [pc EXCEPT ![t] = "idle"]
  /\ UNCHANGED <<inited, oflog_enable, oflog_file, buffer, disk, result, logged, cleared,
                 now, msgs>>

\* cc_of_log_clear: the file is truncated by a shell, without the lock.  What
\* the shell does with a name that was never written is not modelled.
Clear(t) ==
  /\ ~crash /\ pc[t] = "idle" /\ inited /\ oflog_file # None
  /\ disk' = [disk EXCEPT ![oflog_file] = <<>>]
  /\ cleared' = cleared \cup {oflog_file}
  /\ UNCHANGED <<inited, oflog_enable, oflog_file, oflog_fd, buffer, streams, lock, pc,
                 result, logged, failed, crash, now, msgs>>

Tick ==
  /\ now < MaxTime
  /\ now' = now + 1
  /\ UNCHANGED <<inited, oflog_enable, oflog_file, oflog_fd, buffer, disk, streams, lock,
                 pc, result, logged, cleared, failed, crash, msgs>>

Goes(t) == ReadOpen(t) \/ ReadContents(t) \/ ReadEnd(t)
Begins(t) == \/ LibInit(t) \/ Enable(t) \/ ToggleAgain(t) \/ Disable(t) \/ LibFree(t)
             \/ Write(t) \/ Read(t) \/ Clear(t)

Next == Flush \/ Tick \/ \E t \in Threads : Begins(t) \/ Goes(t)

\* A thread inside cc_of_log_read is scheduled.
Spec == Init /\ [][Next]_vars /\ \A t \in Threads : WF_vars(Goes(t))
-----------------------------------------------------------------------------
(* Properties *)

\* Every variable has its type.
TypeOK ==
  /\ inited \in BOOLEAN /\ oflog_enable \in BOOLEAN
  /\ oflog_file \in Times \cup {None}
  /\ oflog_fd \in {"NULL", "closed", "r", "a+"}
  /\ buffer \in Seq(1 .. MaxMsgs)
  /\ disk \in [Times -> Seq(1 .. MaxMsgs)] /\ logged \in [Times -> Seq(1 .. MaxMsgs)]
  /\ streams \in Nat
  /\ lock \in Threads \cup {None}
  /\ pc \in [Threads -> {"idle", "closed", "reading", "read", "stuck"}]
  /\ result = None \/ result \in Seq(1 .. MaxMsgs)
  /\ cleared \subseteq Times /\ failed \in BOOLEAN /\ crash \in BOOLEAN

\* The log keeps what it is given, in order and once, although the stream is
\* closed and reopened under the writers and the file truncated under the
\* stream: file and buffer together are the last part of what was logged, all
\* of it if nobody cleared the file.
LogComplete ==
  \A f \in Times :
    LET kept == disk[f] \o (IF f = oflog_file THEN buffer ELSE <<>>) IN
    /\ IsSuffix(kept, logged[f])
    /\ f \notin cleared => kept = logged[f]

\* A reader sees everything that was logged before it took the lock.
ReadsAll ==
  [][\A t \in Threads : pc[t] = "reading" /\ pc'[t] = "read" /\ cleared = {}
       => result' = logged[oflog_file]]_vars

\* As long as no fopen fails, a log that is on and not being read can be
\* written: no writer meets a NULL pointer, a closed stream or one that was
\* opened for reading.
Writable == ~failed /\ oflog_enable /\ lock = None => oflog_fd = "a+"

\* Switching on and off and reading, in any order, lose no stream: the only
\* one that is open is oflog_fd.
OneStream == streams = (IF oflog_fd \in {"r", "a+"} THEN 1 ELSE 0)

\* cc_of_log_read returns and gives the lock back, if no fopen fails.
ReadReturns ==
  \A t \in Threads : lock = t ~> (lock = None \/ failed)

-----------------------------------------------------------------------------
(* Statements of the documents that fail on small instances (README,       *)
(* "Statements the code does not keep").                                   *)

\* cc_of_lib.h: "Clear contents of global log file."
ClearEmpties == [][\A t \in Threads : Clear(t) => buffer = <<>>]_vars

\* cc_of_lib.h: "A new log file is generated any time this is called with
\* logging_on TRUE".
NewFileEachTime == [][\A t \in Threads : Enable(t) => logged[now] = <<>>]_vars
=============================================================================
