--------------------------- MODULE LogFileProofs ---------------------------
(***************************************************************************)
(* Theorems about LogFile, for any number of threads, messages and files:  *)
(* closing and reopening the stream under the writers, truncating the file *)
(* under the stream and failing fopens lose no stream and no message but   *)
(* the truncated ones.                                                     *)
(***************************************************************************)
EXTENDS LogFile, TLAPS, SequenceTheorems

-----------------------------------------------------------------------------
(* Lemmas about suffixes *)

\* IsSuffix (SequencesExt) compares the reversed sequences; element by element
\* that is: s stands at the end of t.
LEMMA SuffixElements ==
  ASSUME NEW S, NEW s \in Seq(S), NEW t \in Seq(S)
  PROVE  IsSuffix(s, t) <=>
           /\ Len(s) <= Len(t)
           /\ \A i \in 1 .. Len(s) : s[i] = t[Len(t) - Len(s) + i]
<1> DEFINE rs == Reverse(s)
           rt == Reverse(t)
<1>1. Len(s) \in Nat /\ Len(t) \in Nat
  OBVIOUS
<1>2. /\ rs \in Seq(S) /\ Len(rs) = Len(s)
      /\ \A i \in 1 .. Len(s) : rs[i] = s[(Len(s) - i) + 1]
  BY <1>1 DEF Reverse
<1>3. /\ rt \in Seq(S) /\ Len(rt) = Len(t)
      /\ \A i \in 1 .. Len(t) : rt[i] = t[(Len(t) - i) + 1]
  BY <1>1 DEF Reverse
<1>4. IsSuffix(s, t) <=> Len(rs) <= Len(rt) /\ SubSeq(rs, 1, Len(rs)) = SubSeq(rt, 1, Len(rs))
  BY DEF IsSuffix, IsPrefix
<1> HIDE DEF rs, rt
<1>5. SUFFICES ASSUME Len(s) <= Len(t)
               PROVE  SubSeq(rs, 1, Len(s)) = SubSeq(rt, 1, Len(s)) <=>
                        \A i \in 1 .. Len(s) : s[i] = t[Len(t) - Len(s) + i]
  BY <1>1, <1>2, <1>3, <1>4
<1> DEFINE a == SubSeq(rs, 1, Len(s))
           b == SubSeq(rt, 1, Len(s))
<1>6. /\ a \in Seq(S) /\ Len(a) = Len(s)
      /\ \A i \in 1 .. Len(s) : a[i] = s[(Len(s) - i) + 1]
  BY <1>1, <1>2, SubSeqProperties
<1>7. /\ b \in Seq(S) /\ Len(b) = Len(s)
      /\ \A i \in 1 .. Len(s) : b[i] = t[(Len(t) - i) + 1]
  BY <1>1, <1>3, <1>5, SubSeqProperties
<1> HIDE DEF a, b
<1>8. a = b <=> \A i \in 1 .. Len(s) : a[i] = b[i]
  BY <1>6, <1>7, SeqEqual
<1>9. ASSUME \A i \in 1 .. Len(s) : a[i] = b[i], NEW i \in 1 .. Len(s)
      PROVE  s[i] = t[Len(t) - Len(s) + i]
  <2>1. (Len(s) - i) + 1 \in 1 .. Len(s)
    BY <1>1
  <2>2. (Len(s) - ((Len(s) - i) + 1)) + 1 = i
    BY <1>1
  <2>3. (Len(t) - ((Len(s) - i) + 1)) + 1 = Len(t) - Len(s) + i
    BY <1>1
  <2> DEFINE j == (Len(s) - i) + 1
  <2>4. a[j] = s[i]
    BY <1>6, <2>1, <2>2
  <2>5. b[j] = t[Len(t) - Len(s) + i]
    BY <1>7, <2>1, <2>3
  <2> HIDE DEF j
  <2>6. j \in 1 .. Len(s)
    BY <2>1 DEF j
  <2> QED BY <1>9, <2>4, <2>5, <2>6
<1>10. ASSUME \A i \in 1 .. Len(s) : s[i] = t[Len(t) - Len(s) + i], NEW i \in 1 .. Len(s)
       PROVE  a[i] = b[i]
  <2>1. (Len(s) - i) + 1 \in 1 .. Len(s)
    BY <1>1
  <2>2. Len(t) - Len(s) + ((Len(s) - i) + 1) = (Len(t) - i) + 1
    BY <1>1
  <2> QED BY <1>6, <1>7, <1>10, <2>1, <2>2
<1> QED BY <1>8, <1>9, <1>10 DEF a, b

\* A suffix stays one when both grow by the same message.
LEMMA SuffixAppend ==
  ASSUME NEW S, NEW s \in Seq(S), NEW t \in Seq(S), NEW e \in S, IsSuffix(s, t)
  PROVE  IsSuffix(Append(s, e), Append(t, e))
<1>1. /\ Len(s) \in Nat /\ Len(t) \in Nat /\ Len(s) <= Len(t)
      /\ \A i \in 1 .. Len(s) : s[i] = t[Len(t) - Len(s) + i]
  BY SuffixElements
<1>2. /\ Append(s, e) \in Seq(S) /\ Len(Append(s, e)) = Len(s) + 1
      /\ \A i \in 1 .. Len(s) : Append(s, e)[i] = s[i]
      /\ Append(s, e)[Len(s) + 1] = e
  BY AppendProperties
<1>3. /\ Append(t, e) \in Seq(S) /\ Len(Append(t, e)) = Len(t) + 1
      /\ \A i \in 1 .. Len(t) : Append(t, e)[i] = t[i]
      /\ Append(t, e)[Len(t) + 1] = e
  BY AppendProperties
<1>4. ASSUME NEW i \in 1 .. Len(s) + 1
      PROVE  Append(s, e)[i] = Append(t, e)[(Len(t) + 1) - (Len(s) + 1) + i]
  <2>1. CASE i = Len(s) + 1
    <3>1. (Len(t) + 1) - (Len(s) + 1) + i = Len(t) + 1
      BY <1>1, <2>1
    <3> QED BY <1>2, <1>3, <2>1, <3>1
  <2>2. CASE i # Len(s) + 1
    <3>1. /\ i \in 1 .. Len(s)
          /\ (Len(t) + 1) - (Len(s) + 1) + i = Len(t) - Len(s) + i
          /\ Len(t) - Len(s) + i \in 1 .. Len(t)
      BY <1>1, <2>2
    <3> QED BY <1>1, <1>2, <1>3, <3>1
  <2> QED BY <2>1, <2>2
<1> DEFINE se == Append(s, e)
           te == Append(t, e)
<1>5. /\ se \in Seq(S) /\ Len(se) = Len(s) + 1
      /\ te \in Seq(S) /\ Len(te) = Len(t) + 1
      /\ \A i \in 1 .. Len(s) + 1 : se[i] = te[(Len(t) + 1) - (Len(s) + 1) + i]
  BY <1>2, <1>3, <1>4
<1> HIDE DEF se, te
<1>6. /\ Len(se) <= Len(te)
      /\ \A i \in 1 .. Len(se) : se[i] = te[Len(te) - Len(se) + i]
  BY <1>1, <1>5
<1>7. IsSuffix(se, te)
  BY <1>5, <1>6, SuffixElements
<1> QED BY <1>7 DEF se, te

\* The end of a suffix is a suffix.
LEMMA SuffixOfConcat ==
  ASSUME NEW S, NEW d \in Seq(S), NEW s \in Seq(S), NEW t \in Seq(S), IsSuffix(d \o s, t)
  PROVE  IsSuffix(s, t)
<1> DEFINE ds == d \o s
<1>1. /\ ds \in Seq(S) /\ Len(ds) = Len(d) + Len(s)
      /\ \A i \in 1 .. Len(d) + Len(s) :
           ds[i] = IF i <= Len(d) THEN d[i] ELSE s[i - Len(d)]
  BY ConcatProperties
<1>2. IsSuffix(ds, t)
  OBVIOUS
<1>3. Len(d) \in Nat /\ Len(s) \in Nat /\ Len(t) \in Nat
  OBVIOUS
<1> HIDE DEF ds
<1>4. /\ Len(ds) <= Len(t)
      /\ \A i \in 1 .. Len(ds) : ds[i] = t[Len(t) - Len(ds) + i]
  BY <1>1, <1>2, SuffixElements
<1>5. ASSUME NEW i \in 1 .. Len(s) PROVE s[i] = t[Len(t) - Len(s) + i]
  <2>1. /\ Len(d) + i \in 1 .. Len(d) + Len(s) /\ ~(Len(d) + i <= Len(d))
        /\ (Len(d) + i) - Len(d) = i
        /\ Len(t) - (Len(d) + Len(s)) + (Len(d) + i) = Len(t) - Len(s) + i
    BY <1>3
  <2> QED BY <1>1, <1>4, <2>1
<1> QED BY <1>1, <1>3, <1>4, <1>5, SuffixElements

-----------------------------------------------------------------------------
(* The inductive invariant *)

Types == TypeOK /\ msgs \in 0 .. MaxMsgs /\ now \in Times

\* oflog_lock is held exactly by the thread inside cc_of_log_read.
Lock == \A t \in Threads : pc[t] # "idle" <=> lock = t

\* What the stream is, by where the reader is and whether the log is on.  Only
\* a failed fopen leaves NULL in a log that is on.
Stream ==
  /\ oflog_enable => inited /\ oflog_file # None
  /\ ~oflog_enable => lock = None /\ oflog_fd \in {"NULL", "closed"}
  /\ oflog_enable /\ lock = None => oflog_fd \in {"a+", "NULL"}
  /\ \A t \in Threads :
       /\ pc[t] = "closed" => oflog_fd = "closed"
       /\ pc[t] \in {"reading", "read", "stuck"} => oflog_fd \in {"r", "NULL"}
  /\ oflog_enable /\ oflog_fd = "NULL" => failed
  /\ buffer # <<>> => oflog_fd = "a+"
  /\ OneStream

Inv == Types /\ Lock /\ Stream /\ LogComplete

\* The log is off and nothing is logged.
LEMMA InitInv == Init => Inv
<1> SUFFICES ASSUME Init PROVE Inv
  OBVIOUS
<1> USE DEF Init
<1>1. Types
  BY EmptySeq, LogAssumption DEF Types, TypeOK, Times
<1>2. Lock /\ Stream
  BY LogAssumption DEF Lock, Stream, OneStream
<1>3. LogComplete
  <2> DEFINE e == <<>>
  <2>1. e \in Seq(Nat) /\ Len(e) = 0
    BY EmptySeq
  <2>2. \A f \in Times : disk[f] = e /\ logged[f] = e
    OBVIOUS
  <2>3. buffer = e /\ <<>> = e
    OBVIOUS
  <2> HIDE DEF e, Init
  <2>4. e \o e = e
    BY <2>1, <2>3, ConcatEmptySeq
  <2>5. IsSuffix(e, e)
    <3>1. Len(e) <= Len(e) /\ \A i \in 1 .. Len(e) : e[i] = e[Len(e) - Len(e) + i]
      BY <2>1
    <3> QED BY <2>1, <3>1, SuffixElements
  <2> QED BY <2>2, <2>3, <2>4, <2>5 DEF LogComplete
<1> QED BY <1>1, <1>2, <1>3 DEF Inv

-----------------------------------------------------------------------------
(* The steps *)

\* What file f and the buffer hold of the log.
Kept(f) == disk[f] \o (IF f = oflog_file THEN buffer ELSE <<>>)

\* LogComplete needs only what becomes of Kept, logged and cleared.
LEMMA LogKept ==
  ASSUME LogComplete,
         \A f \in Times : Kept(f)' = Kept(f) /\ logged'[f] = logged[f],
         cleared' = cleared
  PROVE  LogComplete'
BY DEF LogComplete, Kept

\* The buffer goes to the end of the file, or there was nothing in it.
Saved ==
  /\ disk' = IF buffer = <<>> THEN disk ELSE [disk EXCEPT ![oflog_file] = @ \o buffer]
  /\ buffer' = <<>>

\* Nothing is lost then, whichever file the library names afterwards.
LEMMA SavedKeeps ==
  ASSUME Types, Saved, NEW f \in Times
  PROVE  Kept(f)' = Kept(f)
<1> DEFINE M == 1 .. MaxMsgs
<1>1. disk[f] \in Seq(M) /\ buffer \in Seq(M)
  BY DEF Types, TypeOK
<1>2. Kept(f)' = disk'[f] \o <<>>
  BY DEF Kept, Saved
<1>3. CASE buffer = <<>>
  BY <1>2, <1>3 DEF Saved, Kept
<1>4. CASE buffer # <<>>
  <2>1. disk'[f] = IF f = oflog_file THEN disk[f] \o buffer ELSE disk[f]
    BY <1>4 DEF Saved, Types, TypeOK
  <2>2. disk'[f] \in Seq(M)
    BY <1>1, <2>1, ConcatProperties
  <2>3. disk'[f] \o <<>> = disk'[f] /\ disk[f] \o <<>> = disk[f]
    BY <1>1, <2>2, ConcatEmptySeq
  <2> QED BY <1>2, <2>1, <2>3 DEF Kept
<1> QED BY <1>3, <1>4

\* A message that is written joins the log and what is kept of it.
LEMMA WriteKeeps ==
  ASSUME Inv, NEW t \in Threads, Write(t)
  PROVE  Types' /\ LogComplete'
<1> DEFINE M == 1 .. MaxMsgs
           x == msgs + 1
<1>1. /\ Types /\ Stream /\ LogComplete /\ x \in M /\ msgs' \in 0 .. MaxMsgs
      /\ oflog_file \in Times /\ oflog_file' = oflog_file
      /\ disk' = disk /\ cleared' = cleared
  <2>1. msgs < MaxMsgs /\ msgs' = msgs + 1 /\ msgs \in 0 .. MaxMsgs /\ MaxMsgs \in Nat
    BY LogAssumption DEF Inv, Write, Types
  <2>2. x \in M /\ msgs' \in 0 .. MaxMsgs
    BY <2>1
  <2>3. oflog_file \in Times
    BY DEF Inv, Write, Types, TypeOK, Stream
  <2> QED BY <2>2, <2>3 DEF Inv, Write
<1>2. CASE oflog_fd = "NULL"
  <2>1. UNCHANGED <<buffer, logged>> /\ crash'
    BY <1>2 DEF Write
  <2>2. Types'
    BY <1>1, <2>1 DEF Write, Types, TypeOK
  <2>3. LogComplete'
    BY <1>1, <2>1, LogKept DEF Kept
  <2> QED BY <2>2, <2>3
<1>3. CASE oflog_fd # "NULL"
  <2>1. /\ buffer' = Append(buffer, x) /\ buffer \in Seq(M)
        /\ logged' = [logged EXCEPT ![oflog_file] = Append(@, x)]
        /\ crash' = crash
    BY <1>3 DEF Write, Inv, Types, TypeOK
  <2> HIDE DEF x
  <2>2. Types'
    BY <1>1, <2>1 DEF Write, Types, TypeOK
  <2>3. ASSUME NEW f \in Times, f # oflog_file
        PROVE  Kept(f)' = Kept(f) /\ logged'[f] = logged[f]
    BY <1>1, <2>1, <2>3 DEF Kept, Types, TypeOK
  <2> DEFINE f0 == oflog_file
             d == disk[f0]
             l == logged[f0]
  <2>4. /\ d \in Seq(M) /\ l \in Seq(M)
        /\ Kept(f0) = d \o buffer /\ Kept(f0)' = d \o Append(buffer, x)
        /\ logged'[f0] = Append(l, x)
    BY <1>1, <2>1 DEF Kept, Types, TypeOK
  <2> HIDE DEF d, l
  <2>5. d \o Append(buffer, x) = Append(d \o buffer, x)
    <3>1. d \in Seq(M) /\ buffer \in Seq(M) /\ x \in M /\ <<x>> \in Seq(M)
      BY <1>1, <2>1, <2>4
    <3>2. d \o buffer \in Seq(M)
      BY <3>1
    <3>3. Append(buffer, x) = buffer \o <<x>>
      BY <3>1, AppendIsConcat
    <3>4. Append(d \o buffer, x) = (d \o buffer) \o <<x>>
      BY <3>1, <3>2, AppendIsConcat
    <3>5. (d \o buffer) \o <<x>> = d \o (buffer \o <<x>>)
      BY <3>1, ConcatAssociative
    <3> QED BY <3>3, <3>4, <3>5
  <2> DEFINE k == d \o buffer
  <2>6. k \in Seq(M) /\ IsSuffix(k, l) /\ (f0 \notin cleared => k = l)
    <3>1. k \in Seq(M)
      BY <2>1, <2>4, ConcatProperties
    <3> QED BY <1>1, <3>1, <2>4 DEF LogComplete, Kept, l
  <2>7. /\ Kept(f0)' = Append(k, x)
        /\ f0 \notin cleared' => Append(k, x) = Append(l, x)
    BY <1>1, <2>4, <2>5, <2>6
  <2> HIDE DEF k
  <2>8. IsSuffix(Append(k, x), Append(l, x))
    BY <1>1, <2>4, <2>6, SuffixAppend
  <2> QED BY <1>1, <2>2, <2>3, <2>4, <2>7, <2>8 DEF LogComplete, Kept
<1> QED BY <1>2, <1>3

\* cc_of_log_clear takes the file and leaves the end of the log in the buffer.
LEMMA ClearKeeps ==
  ASSUME Inv, NEW t \in Threads, Clear(t)
  PROVE  Types' /\ LogComplete'
<1> DEFINE M == 1 .. MaxMsgs
           f0 == oflog_file
<1>1. /\ Types /\ LogComplete /\ f0 \in Times /\ oflog_file' = f0
      /\ disk' = [disk EXCEPT ![f0] = <<>>] /\ cleared' = cleared \cup {f0}
      /\ buffer' = buffer /\ logged' = logged
  BY DEF Inv, Clear, Types, TypeOK
<1>2. <<>> \in Seq(M)
  OBVIOUS
<1>3. Types'
  BY <1>1, <1>2 DEF Clear, Types, TypeOK
<1>4. ASSUME NEW f \in Times, f # f0 PROVE Kept(f)' = Kept(f)
  BY <1>1, <1>4 DEF Kept, Types, TypeOK
<1>5. /\ disk[f0] \in Seq(M) /\ buffer \in Seq(M) /\ logged[f0] \in Seq(M)
      /\ Kept(f0) = disk[f0] \o buffer /\ disk'[f0] = <<>>
  BY <1>1 DEF Kept, Types, TypeOK
<1>6. Kept(f0)' = buffer
  <2>1. Kept(f0)' = <<>> \o buffer
    BY <1>1, <1>5 DEF Kept
  <2> QED BY <1>5, <2>1, ConcatEmptySeq
<1>7. IsSuffix(disk[f0] \o buffer, logged[f0])
  BY <1>1, <1>5 DEF LogComplete, Kept
<1>8. IsSuffix(buffer, logged[f0])
  BY <1>5, <1>7, SuffixOfConcat
<1> QED BY <1>1, <1>3, <1>4, <1>6, <1>8 DEF LogComplete, Kept

\* fopen, wherever it is called.
Opened(mode, ok) ==
  /\ oflog_fd' = Opens(mode, ok)
  /\ streams' = IF ok THEN streams + 1 ELSE streams
  /\ failed' = (failed \/ ~ok)

\* It opens one stream, or fails and leaves NULL.
LEMMA OpenedOrNot ==
  ASSUME NEW mode, NEW ok \in BOOLEAN, Opened(mode, ok)
  PROVE  \/ oflog_fd' = mode /\ streams' = streams + 1
         \/ oflog_fd' = "NULL" /\ streams' = streams /\ failed'
<1>1. CASE ok
  BY <1>1 DEF Opened, Opens
<1>2. CASE ~ok
  <2>1. failed'
    BY <1>2, Zenon DEF Opened
  <2>2. oflog_fd' = "NULL" /\ streams' = streams
    BY <1>2 DEF Opened, Opens
  <2> QED BY <2>1, <2>2
<1> QED BY <1>1, <1>2

\* The stream and the lock, step by step.  This is where streams could be lost:
\* fclose is called only on a stream that is open.
LEMMA StreamStep ==
  ASSUME Types, Lock, Stream, Next
  PROVE  Lock' /\ Stream'
<1> USE LogAssumption DEF Types, TypeOK, Lock, Stream, OneStream
<1>1. CASE Flush
  BY <1>1 DEF Flush
<1>2. CASE Tick
  BY <1>2 DEF Tick
<1>3. ASSUME NEW t \in Threads, Begins(t) PROVE Lock' /\ Stream'
  <2>1. CASE LibInit(t)
    BY <2>1 DEF LibInit, Enters
  <2>2. CASE Enable(t)
    <3>1. /\ oflog_enable' /\ inited' /\ oflog_file' \in Times /\ buffer' = buffer
          /\ buffer = <<>> /\ lock' = None /\ lock = None /\ pc' = pc /\ streams = 0
      BY <2>2 DEF Enable, Enters
    <3>2. \/ oflog_fd' = "a+" /\ streams' = 1
          \/ oflog_fd' = "NULL" /\ streams' = 0 /\ failed'
      <4>1. \E ok \in BOOLEAN : Opened("a+", ok)
        BY <2>2 DEF Enable, Opened
      <4> QED BY <3>1, <4>1, OpenedOrNot
    <3> QED BY <3>1, <3>2 DEF Times
  <2>3. CASE ToggleAgain(t)
    BY <2>3 DEF ToggleAgain, vars
  <2>4. ASSUME NEW stays \in BOOLEAN, Enters(t), DisableThen(stays)
        PROVE  Lock' /\ Stream'
    <3>1. /\ oflog_enable /\ lock = None /\ lock' = None /\ pc' = pc /\ ~oflog_enable'
          /\ failed' = failed
      BY <2>4 DEF Enters, DisableThen
    <3>2. \/ oflog_fd' = "NULL" /\ oflog_fd = "NULL" /\ streams' = streams /\ buffer' = buffer
          \/ oflog_fd' = "closed" /\ oflog_fd = "a+" /\ streams' = streams - 1 /\ buffer' = <<>>
      BY <2>4, <3>1 DEF DisableThen, Close
    <3> QED BY <3>1, <3>2
  <2>5. CASE Disable(t)
    BY <2>4, <2>5 DEF Disable
  <2>6. CASE LibFree(t)
    <3>1. CASE ~oflog_enable
      BY <2>6, <3>1 DEF LibFree, DisableThen, Enters
    <3>2. CASE oflog_enable
      BY <2>4, <2>6, <3>2 DEF LibFree
    <3> QED BY <3>1, <3>2
  <2>7. CASE Write(t)
    BY <2>7 DEF Write, Enters
  <2>8. CASE Read(t)
    BY <2>8 DEF Read, Enters, Close
  <2>9. CASE Clear(t)
    BY <2>9 DEF Clear
  <2> QED BY <1>3, <2>1, <2>2, <2>3, <2>5, <2>6, <2>7, <2>8, <2>9 DEF Begins
<1>4. ASSUME NEW t \in Threads, ReadOpen(t) PROVE Lock' /\ Stream'
  <2>1. /\ pc[t] = "closed" /\ lock = t /\ oflog_fd = "closed" /\ streams = 0
        /\ lock' = lock /\ oflog_enable /\ UNCHANGED <<oflog_enable, inited, oflog_file>>
        /\ buffer = <<>> /\ buffer' = buffer
        /\ pc' = [pc EXCEPT ![t] = "reading"]
    BY <1>4 DEF ReadOpen
  <2>2. \/ oflog_fd' = "r" /\ streams' = 1
        \/ oflog_fd' = "NULL" /\ streams' = 0 /\ failed'
    <3>1. \E ok \in BOOLEAN : Opened("r", ok)
      BY <1>4 DEF ReadOpen, Opened
    <3> QED BY <2>1, <3>1, OpenedOrNot
  <2> QED BY <2>1, <2>2
<1>5. ASSUME NEW t \in Threads, ReadContents(t) PROVE Lock' /\ Stream'
  BY <1>5 DEF ReadContents
<1>6. ASSUME NEW t \in Threads, ReadEnd(t) PROVE Lock' /\ Stream'
  BY <1>6 DEF ReadEnd, Opens, AppendMode
<1> QED BY <1>1, <1>2, <1>3, <1>4, <1>5, <1>6 DEF Next, Goes

\* The other steps of the stream save the buffer or leave it where it is.
LEMMA OthersSave ==
  ASSUME Inv, Next, ~\E t \in Threads : Write(t) \/ Clear(t)
  PROVE  /\ UNCHANGED <<logged, cleared>>
         /\ Saved \/ UNCHANGED <<disk, buffer, oflog_file>>
<1> USE DEF Inv, Types, TypeOK, Stream, Saved
<1>1. CASE Flush
  BY <1>1 DEF Flush
<1>2. CASE Tick
  BY <1>2 DEF Tick
<1>3. ASSUME NEW t \in Threads, Goes(t)
      PROVE  UNCHANGED <<logged, cleared, disk, buffer, oflog_file>>
  BY <1>3 DEF Goes, ReadOpen, ReadContents, ReadEnd
<1>4. ASSUME NEW t \in Threads, Begins(t)
      PROVE  /\ UNCHANGED <<logged, cleared>>
             /\ Saved \/ UNCHANGED <<disk, buffer, oflog_file>>
  <2>1. CASE LibInit(t)
    BY <2>1 DEF LibInit
  <2>2. CASE Enable(t)
    BY <2>2 DEF Enable
  <2>3. CASE ToggleAgain(t)
    BY <2>3 DEF ToggleAgain, vars
  <2>4. CASE Disable(t)
    BY <2>4 DEF Disable, DisableThen, Close
  <2>5. CASE LibFree(t)
    BY <2>5 DEF LibFree, DisableThen, Close
  <2>6. CASE Read(t)
    BY <2>6 DEF Read, Close
  <2> QED BY <1>4, <2>1, <2>2, <2>3, <2>4, <2>5, <2>6 DEF Begins
<1> QED BY <1>1, <1>2, <1>3, <1>4 DEF Next

\* They keep the types as well; that streams stays a number is part of Stream.
LEMMA OthersTyped ==
  ASSUME Inv, Next, ~\E t \in Threads : Write(t) \/ Clear(t), Stream'
  PROVE  Types'
<1> DEFINE M == 1 .. MaxMsgs
<1>1. /\ buffer' \in Seq(M) /\ disk' \in [Times -> Seq(M)] /\ logged' \in [Times -> Seq(M)]
      /\ cleared' \subseteq Times
  <2>1. \A s, u \in Seq(M) : s \o u \in Seq(M)
    BY ConcatProperties
  <2>2. <<>> \in Seq(M)
    OBVIOUS
  <2>3. /\ UNCHANGED <<logged, cleared>>
        /\ Saved \/ UNCHANGED <<disk, buffer, oflog_file>>
    BY OthersSave
  <2>4. CASE Saved
    BY <2>1, <2>2, <2>3, <2>4 DEF Inv, Types, TypeOK, Saved
  <2>5. CASE UNCHANGED <<disk, buffer, oflog_file>>
    BY <2>3, <2>5 DEF Inv, Types, TypeOK
  <2> QED BY <2>3, <2>4, <2>5
<1>2. streams' \in Nat
  BY DEF Stream, OneStream
<1> DEFINE Rest ==
      /\ msgs' \in 0 .. MaxMsgs /\ now' \in Times
      /\ inited' \in BOOLEAN /\ oflog_enable' \in BOOLEAN /\ crash' \in BOOLEAN
      /\ failed' \in BOOLEAN /\ oflog_file' \in Times \cup {None}
      /\ oflog_fd' \in {"NULL", "closed", "r", "a+"} /\ lock' \in Threads \cup {None}
      /\ pc' \in [Threads -> {"idle", "closed", "reading", "read", "stuck"}]
      /\ result' = None \/ result' \in Seq(M)
<1>3. Rest
  <2> USE DEF Inv, Types, TypeOK
  <2>1. CASE Flush
    BY <2>1 DEF Flush
  <2>2. CASE Tick
    BY <2>2, LogAssumption DEF Tick, Times
  <2>3. ASSUME NEW t \in Threads, Begins(t) PROVE Rest
    <3>1. CASE LibInit(t)
      BY <3>1 DEF LibInit
    <3>2. CASE Enable(t)
      BY <3>2 DEF Enable, Opens
    <3>3. CASE ToggleAgain(t)
      BY <3>3 DEF ToggleAgain, vars
    <3>4. CASE Disable(t)
      BY <3>4 DEF Disable, DisableThen, Close
    <3>5. CASE LibFree(t)
      BY <3>5 DEF LibFree, DisableThen, Close
    <3>6. CASE Read(t)
      BY <3>6 DEF Read, Close
    <3> QED BY <2>3, <3>1, <3>2, <3>3, <3>4, <3>5, <3>6 DEF Begins
  <2>4. ASSUME NEW t \in Threads, Goes(t) PROVE Rest
    <3>1. CASE ReadOpen(t)
      BY <3>1 DEF ReadOpen, Opens
    <3>2. CASE ReadContents(t)
      <4>1. oflog_file \in Times
        BY <3>2, LogAssumption DEF ReadContents, Lock, Stream
      <4> QED BY <3>2, <4>1 DEF ReadContents
    <3>3. CASE ReadEnd(t)
      BY <3>3 DEF ReadEnd, Opens, AppendMode
    <3> QED BY <2>4, <3>1, <3>2, <3>3 DEF Goes
  <2> QED BY <2>1, <2>2, <2>3, <2>4 DEF Next
<1> QED BY <1>1, <1>2, <1>3 DEF Types, TypeOK

\* The invariant is inductive.
LEMMA StepInv == Inv /\ [Next]_vars => Inv'
<1> SUFFICES ASSUME Inv, [Next]_vars PROVE Inv'
  OBVIOUS
<1>1. CASE UNCHANGED vars
  BY <1>1 DEF vars, Inv, Types, TypeOK, Lock, Stream, OneStream, LogComplete
<1>2. CASE Next
  <2>1. Lock' /\ Stream'
    BY <1>2, StreamStep DEF Inv
  <2>2. ASSUME NEW t \in Threads, Write(t) \/ Clear(t) PROVE Types' /\ LogComplete'
    BY <2>2, WriteKeeps, ClearKeeps
  <2>3. CASE ~\E t \in Threads : Write(t) \/ Clear(t)
    <3>1. Types'
      BY <1>2, <2>1, <2>3, OthersTyped
    <3>2. \A f \in Times : Kept(f)' = Kept(f)
      BY <1>2, <2>3, OthersSave, SavedKeeps DEF Inv, Kept
    <3>3. LogComplete'
      BY <1>2, <2>3, <3>2, OthersSave, LogKept DEF Inv
    <3> QED BY <2>1, <3>1, <3>3 DEF Inv
  <2> QED BY <2>1, <2>2, <2>3 DEF Inv
<1> QED BY <1>1, <1>2

\* The invariant holds in every behaviour.
THEOREM Invariance == Spec => []Inv
BY InitInv, StepInv, PTL DEF Spec

-----------------------------------------------------------------------------
(* What follows from it *)

\* Nothing that was logged is lost but by clearing: file and buffer together
\* are the end of the log, all of it if nobody cleared the file.
THEOREM LogCompleteHolds == Spec => []LogComplete
<1>1. Inv => LogComplete
  BY DEF Inv
<1> QED BY <1>1, Invariance, PTL

\* write_logfile_lock meets a stream open for appending, unless an fopen
\* failed before.
THEOREM WritableHolds == Spec => []Writable
<1>1. Inv => Writable
  BY DEF Inv, Stream, Writable
<1> QED BY <1>1, Invariance, PTL

\* No call loses a stream or closes one twice.
THEOREM OneStreamHolds == Spec => []OneStream
<1>1. Inv => OneStream
  BY DEF Inv, Stream
<1> QED BY <1>1, Invariance, PTL

\* cc_of_log_read returns the whole log of the file, also if other threads
\* wait for the lock with their messages.
THEOREM ReadsAllHolds == Spec => ReadsAll
<1>1. Inv /\ [Next]_vars =>
        [\A t \in Threads : pc[t] = "reading" /\ pc'[t] = "read" /\ cleared = {}
           => result' = logged[oflog_file]]_vars
  <2> SUFFICES ASSUME Inv, Next, NEW t \in Threads, pc[t] = "reading", pc'[t] = "read",
                      cleared = {}
               PROVE  result' = logged[oflog_file]
    OBVIOUS
  <2>1. ReadContents(t)
    BY DEF Inv, Types, TypeOK, Next, Begins, Goes, Flush, Tick, LibInit, Enable, ToggleAgain,
         vars, Disable, LibFree, DisableThen, Write, Clear, Read, ReadOpen, ReadContents,
         ReadEnd, Enters
  <2>2. /\ result' = disk[oflog_file] /\ oflog_file \in Times /\ buffer = <<>>
        /\ disk[oflog_file] \in Seq(1 .. MaxMsgs)
    BY <2>1, LogAssumption DEF ReadContents, Inv, Types, TypeOK, Lock, Stream
  <2>3. disk[oflog_file] \o <<>> = disk[oflog_file]
    BY <2>2, ConcatEmptySeq
  <2> QED BY <2>2, <2>3 DEF Inv, LogComplete
<1> QED BY <1>1, Invariance, PTL DEF Spec, ReadsAll
=============================================================================
