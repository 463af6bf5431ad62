--------------------------- MODULE LibLocksProofs ---------------------------
(***************************************************************************)
(* Theorems about LibLocks, for any number of application threads, sockets *)
(* and calls: every call takes the locks in order but for the places       *)
(* named, and a deadlock therefore has one of five causes; to an           *)
(* application that makes its calls one at a time one of the five does not *)
(* happen.                                                                 *)
(*                                                                         *)
(* A call is judged by its whole remaining sequence of steps: Good(c, H,   *)
(* s) says that call c, holding the locks H, may do the steps of s.  The   *)
(* lemmas put one step in front of a good sequence, then whole paths, then *)
(* follow the actions, which take one step off or put a path in front.     *)
(* The second half (from Upto on) says by what is left to do how far a     *)
(* call has come and what the tables and the poll threads can then be.     *)
(***************************************************************************)
EXTENDS LibLocks, TLAPS, SequenceTheorems
-----------------------------------------------------------------------------
(* Sequences of steps that keep to the order of the locks *)

\* The locks that may be held when l is taken.
Before(l) == CASE l = "dev" -> {} [] l = "chan" -> {"dev"} [] l = "rw" -> {"dev", "chan"}
               [] l = "list" -> {"dev", "chan", "rw"}

\* A thread that takes a lock twice gets no further: what it would do then is
\* marked as never done.
Never == {"never"}
Marks == Locks \cup Never

\* The steps of LibLocks, with their arguments.
Steps == [what : {"lock", "pass"}, arg : Locks] \cup [what : {"release"}, arg : SUBSET Locks]
         \cup [what : {"add", "delete", "table", "untable", "find", "put", "callback"}, arg : Fds]
         \cup [what : {"end"}, arg : PollThreads]
         \cup [what : {"register", "unregister", "listen", "unlisten", "assert", "walk",
                       "devices", "clear", "finddev"}, arg : {None}]

\* A lock that the thread itself holds.
Twice(H, x) == x.what \in {"lock", "pass"} /\ x.arg \in H

\* The locks a thread holds after step x, if it holds H before.
After(H, x) ==
  IF H = Never \/ Twice(H, x) THEN Never
  ELSE IF x.what = "lock" THEN H \cup {x.arg}
  ELSE IF x.what = "release" THEN H \ x.arg
  ELSE H

\* What each step needs of the call c it is part of and of the locks H held.
Fits(c, H, x) ==
  \/ H = Never \/ Twice(H, x)
  \/ x.what \in {"lock", "pass"} /\ H \subseteq Before(x.arg)
  \/ x.what = "lock" /\ x.arg = "chan" /\ H = {"rw"} /\ c = "lib_free"
  \/ x.what = "release" /\ x.arg \subseteq H
  \/ x.what = "add" /\ H = {} /\ c \in {"create", "accept"}
  \/ x.what = "listen" /\ H = {} /\ c = "register"
  \/ x.what \in {"delete", "unlisten", "end"} /\ c \in TearDown
  \/ x.what = "walk" /\ H = Three /\ c \in TearDown
  \/ x.what = "devices" /\ H = {"dev"} /\ c = "lib_free"
  \/ x.what = "table" /\ H = Three /\ c \in {"create", "accept"}
  \/ x.what = "callback" /\ ((c = "accept" /\ H = {"dev"}) \/ (c = "receive" /\ H = Three))
  \/ x.what = "register" /\ c = "register"
  \/ x.what \in {"unregister", "untable", "clear"} /\ c \in TearDown
  \/ x.what \in {"put", "find", "finddev", "assert"}

\* h: the locks held before each step of s and after the last.
Trace(c, s, h) ==
  /\ h \in [1 .. Len(s) + 1 -> SUBSET Marks]
  /\ h[Len(s) + 1] \in {{}, Never}
  /\ \A i \in 1 .. Len(s) : Fits(c, h[i], s[i]) /\ h[i + 1] = After(h[i], s[i])

\* With the locks H held, call c may do the steps of s, and then holds none.
Good(c, H, s) == s \in Seq(Steps) /\ \E h : Trace(c, s, h) /\ h[1] = H

\* Doing the first step.
LEMMA GoodTail ==
  ASSUME NEW c, NEW H, NEW s, s # <<>>, Good(c, H, s)
  PROVE  /\ Head(s) \in Steps /\ Tail(s) \in Seq(Steps)
         /\ Fits(c, H, Head(s)) /\ Good(c, After(H, Head(s)), Tail(s))
<1> DEFINE n == Len(s)
           t == Tail(s)
<1>1. /\ n \in Nat /\ n >= 1 /\ Len(t) = n - 1 /\ t \in Seq(Steps)
      /\ \A i \in 1 .. n - 1 : t[i] = s[i + 1]
      /\ Head(s) = s[1] /\ s[1] \in Steps
  BY DEF Good
<1>2. PICK h : Trace(c, s, h) /\ h[1] = H
  BY DEF Good
<1>3. /\ h \in [1 .. n + 1 -> SUBSET Marks] /\ h[n + 1] \in {{}, Never}
      /\ \A i \in 1 .. n : Fits(c, h[i], s[i]) /\ h[i + 1] = After(h[i], s[i])
  BY <1>2 DEF Trace
<1> DEFINE g == [i \in 1 .. n |-> h[i + 1]]
<1>4. g \in [1 .. (n - 1) + 1 -> SUBSET Marks] /\ g[1] = h[2] /\ g[(n - 1) + 1] = h[n + 1]
  BY <1>1, <1>3
<1>5. \A i \in 1 .. n - 1 : g[i] = h[i + 1] /\ g[i + 1] = h[i + 2]
  BY <1>1
<1> HIDE DEF n, t, g
<1>6. \A i \in 1 .. n - 1 : Fits(c, g[i], t[i]) /\ g[i + 1] = After(g[i], t[i])
  <2> TAKE i \in 1 .. n - 1
  <2>1. i + 1 \in 1 .. n /\ (i + 1) + 1 = i + 2
    BY <1>1
  <2>2. Fits(c, h[i + 1], s[i + 1]) /\ h[(i + 1) + 1] = After(h[i + 1], s[i + 1])
    BY <1>3, <2>1
  <2> QED BY <1>1, <1>5, <2>1, <2>2
<1>7. Fits(c, h[1], s[1]) /\ h[2] = After(h[1], s[1])
  <2>1. 1 \in 1 .. n /\ 1 + 1 = 2
    BY <1>1
  <2> QED BY <1>3, <2>1
<1>8. Trace(c, t, g)
  <2>1. g \in [1 .. Len(t) + 1 -> SUBSET Marks] /\ g[Len(t) + 1] \in {{}, Never}
    BY <1>1, <1>3, <1>4
  <2>2. \A i \in 1 .. Len(t) : Fits(c, g[i], t[i]) /\ g[i + 1] = After(g[i], t[i])
    BY <1>1, <1>6
  <2> QED BY <2>1, <2>2 DEF Trace
<1>9. Good(c, After(H, Head(s)), t)
  BY <1>1, <1>2, <1>4, <1>7, <1>8 DEF Good
<1> QED BY <1>1, <1>2, <1>7, <1>9 DEF t

\* Putting a step in front.
LEMMA GoodCons ==
  ASSUME NEW c, NEW H \in SUBSET Marks, NEW x \in Steps, NEW s,
         Fits(c, H, x), Good(c, After(H, x), s)
  PROVE  Good(c, H, <<x>> \o s)
<1> DEFINE n == Len(s)
           t == <<x>> \o s
<1>1. /\ n \in Nat /\ Len(t) = n + 1 /\ t \in Seq(Steps)
      /\ t[1] = x /\ \A i \in 2 .. n + 1 : t[i] = s[i - 1]
  BY DEF Good
<1>2. PICK h : Trace(c, s, h) /\ h[1] = After(H, x)
  BY DEF Good
<1>3. /\ h \in [1 .. n + 1 -> SUBSET Marks] /\ h[n + 1] \in {{}, Never}
      /\ \A i \in 1 .. n : Fits(c, h[i], s[i]) /\ h[i + 1] = After(h[i], s[i])
  BY <1>2 DEF Trace
<1> DEFINE g == [i \in 1 .. (n + 1) + 1 |-> IF i = 1 THEN H ELSE h[i - 1]]
<1>4. /\ g \in [1 .. (n + 1) + 1 -> SUBSET Marks]
      /\ g[1] = H /\ g[(n + 1) + 1] = h[n + 1]
      /\ \A i \in 2 .. n + 2 : g[i] = h[i - 1]
  BY <1>1, <1>3
<1> HIDE DEF n, t, g
<1>5. ASSUME NEW i \in 1 .. n + 1
      PROVE  Fits(c, g[i], t[i]) /\ g[i + 1] = After(g[i], t[i])
  <2>1. CASE i = 1
    <3>1. 2 \in 2 .. n + 2 /\ 1 + 1 = 2 /\ 2 - 1 = 1
      BY <1>1
    <3> QED BY <1>1, <1>2, <1>4, <2>1, <3>1
  <2>2. CASE i # 1
    <3>1. i - 1 \in 1 .. n /\ i \in 2 .. n + 1 /\ i \in 2 .. n + 2 /\ i + 1 \in 2 .. n + 2
          /\ (i - 1) + 1 = i /\ (i + 1) - 1 = i
      BY <1>1, <2>2
    <3>2. Fits(c, h[i - 1], s[i - 1]) /\ h[i] = After(h[i - 1], s[i - 1])
      BY <1>3, <3>1
    <3> QED BY <1>1, <1>4, <3>1, <3>2
  <2> QED BY <2>1, <2>2
<1>6. Trace(c, t, g)
  BY <1>1, <1>3, <1>4, <1>5 DEF Trace
<1> QED BY <1>1, <1>4, <1>6 DEF Good, t

\* Nothing left to do.
LEMMA GoodNil ==
  ASSUME NEW c PROVE Good(c, {}, <<>>)
<1> DEFINE h == [i \in 1 .. 1 |-> {}]
<1>1. h \in [1 .. Len(<<>>) + 1 -> SUBSET Marks] /\ h[1] = {} /\ h[Len(<<>>) + 1] = {}
  OBVIOUS
<1>2. 1 .. Len(<<>>) = {} /\ <<>> \in Seq(Steps)
  OBVIOUS
<1> HIDE DEF h
<1> QED BY <1>1, <1>2 DEF Good, Trace

\* Nothing left to do means that nothing is held.
LEMMA GoodEnd ==
  ASSUME NEW c, NEW H \in SUBSET Locks, Good(c, H, <<>>)
  PROVE  H = {}
<1>1. PICK h : Trace(c, <<>>, h) /\ h[1] = H
  BY DEF Good
<1>2. h[1] \in {{}, Never}
  BY <1>1 DEF Trace
<1> QED BY <1>1, <1>2 DEF Never, Locks

\* What is never done may be anything.
LEMMA GoodNever ==
  ASSUME NEW c, NEW s \in Seq(Steps)
  PROVE  Good(c, Never, s)
<1> DEFINE n == Len(s)
           h == [i \in 1 .. n + 1 |-> Never]
<1>1. n \in Nat /\ h \in [1 .. n + 1 -> SUBSET Marks] /\ \A i \in 1 .. n + 1 : h[i] = Never
  BY DEF Marks
<1>2. 1 \in 1 .. n + 1 /\ n + 1 \in 1 .. n + 1 /\ \A i \in 1 .. n : i \in 1 .. n + 1 /\ i + 1 \in 1 .. n + 1
  BY <1>1
<1>3. \A x : Fits(c, Never, x) /\ After(Never, x) = Never
  BY DEF Fits, After
<1> HIDE DEF h, n
<1>4. Trace(c, s, h)
  <2>1. h[n + 1] \in {{}, Never}
    BY <1>1, <1>2
  <2>2. \A i \in 1 .. n : Fits(c, h[i], s[i]) /\ h[i + 1] = After(h[i], s[i])
    BY <1>1, <1>2, <1>3
  <2> QED BY <1>1, <2>1, <2>2 DEF Trace, n
<1> QED BY <1>1, <1>2, <1>4 DEF Good

\* g_mutex_lock in the order of the locks.
LEMMA GoodLock ==
  ASSUME NEW c, NEW H, NEW l \in Locks, NEW s, H \subseteq Before(l), Good(c, H \cup {l}, s)
  PROVE  Good(c, H, <<Lock(l)>> \o s)
<1>1. Lock(l) \in Steps
  BY DEF Lock, Do, Steps
<1>2. H \in SUBSET Marks /\ H # Never /\ l \notin H
  BY DEF Before, Marks, Locks, Never
<1>3. Fits(c, H, Lock(l)) /\ After(H, Lock(l)) = H \cup {l}
  BY <1>2 DEF Fits, After, Lock, Do, Twice
<1> QED BY <1>1, <1>2, <1>3, GoodCons

\* A critical section without a wait in it.
LEMMA GoodPass ==
  ASSUME NEW c, NEW H, NEW l \in Locks, NEW s, H \subseteq Before(l), Good(c, H, s)
  PROVE  Good(c, H, <<Pass(l)>> \o s)
<1>1. Pass(l) \in Steps
  BY DEF Pass, Do, Steps
<1>2. H \in SUBSET Marks /\ H # Never /\ l \notin H
  BY DEF Before, Marks, Locks, Never
<1>3. Fits(c, H, Pass(l)) /\ After(H, Pass(l)) = H
  BY <1>2 DEF Fits, After, Pass, Do, Twice
<1> QED BY <1>1, <1>2, <1>3, GoodCons

\* g_mutex_unlock of locks that are held.
LEMMA GoodRelease ==
  ASSUME NEW c, NEW H \in SUBSET Locks, NEW ls \in SUBSET H, NEW s, Good(c, H \ ls, s)
  PROVE  Good(c, H, <<Release(ls)>> \o s)
<1>1. Release(ls) \in Steps
  BY DEF Release, Do, Steps
<1>2. H \in SUBSET Marks /\ H # Never
  BY DEF Marks, Locks, Never
<1>3. Fits(c, H, Release(ls)) /\ After(H, Release(ls)) = H \ ls
  BY <1>2 DEF Fits, After, Release, Do, Twice
<1> QED BY <1>1, <1>2, <1>3, GoodCons

\* A lock that is held is taken again.
LEMMA GoodTwice ==
  ASSUME NEW c, NEW H \in SUBSET Locks, NEW l \in H, NEW s \in Seq(Steps)
  PROVE  Good(c, H, <<Lock(l)>> \o s) /\ Good(c, H, <<Pass(l)>> \o s)
<1>1. Lock(l) \in Steps /\ Pass(l) \in Steps
  BY DEF Lock, Pass, Do, Steps
<1>2. H \in SUBSET Marks
  BY DEF Marks
<1>3. /\ Fits(c, H, Lock(l)) /\ After(H, Lock(l)) = Never
      /\ Fits(c, H, Pass(l)) /\ After(H, Pass(l)) = Never
  BY DEF Fits, After, Lock, Pass, Do, Twice
<1> QED BY <1>1, <1>2, <1>3, GoodCons, GoodNever

\* A step that takes and releases nothing.
LEMMA GoodDo ==
  ASSUME NEW c, NEW H \in SUBSET Locks, NEW w, NEW a, NEW s,
         Do(w, a) \in Steps, w \notin {"lock", "pass", "release"},
         Fits(c, H, Do(w, a)), Good(c, H, s)
  PROVE  Good(c, H, <<Do(w, a)>> \o s)
<1>1. H \in SUBSET Marks /\ H # Never
  BY DEF Marks, Locks, Never
<1>2. After(H, Do(w, a)) = H
  BY <1>1 DEF After, Do, Twice
<1> QED BY <1>1, <1>2, GoodCons

\* Steps that may be done with any locks held.
LEMMA GoodAny ==
  ASSUME NEW c, NEW H \in SUBSET Locks, NEW w, NEW a, NEW s, Good(c, H, s),
         \/ w \in {"put", "find"} /\ a \in Fds
         \/ w \in {"finddev", "assert"} /\ a = None
  PROVE  Good(c, H, <<Do(w, a)>> \o s)
<1>1. Do(w, a) \in Steps /\ w \notin {"lock", "pass", "release"}
  BY DEF Do, Steps
<1>2. Fits(c, H, Do(w, a))
  BY DEF Fits, Do
<1> QED BY <1>1, <1>2, GoodDo

\* Steps of tear-down: requests to a poll thread, made with locks held, and
\* what they undo in the tables.
LEMMA GoodAsk ==
  ASSUME NEW c \in TearDown, NEW H \in SUBSET Locks, NEW w, NEW a, NEW s, Good(c, H, s),
         \/ w \in {"delete", "untable"} /\ a \in Fds
         \/ w \in {"unlisten", "unregister", "clear"} /\ a = None
         \/ w = "end" /\ a \in PollThreads
  PROVE  Good(c, H, <<Do(w, a)>> \o s)
<1>1. Do(w, a) \in Steps /\ w \notin {"lock", "pass", "release"}
  BY DEF Do, Steps
<1>2. Fits(c, H, Do(w, a))
  BY DEF Fits, Do
<1> QED BY <1>1, <1>2, GoodDo

\* A new socket is handed to its thread with no lock held.
LEMMA GoodAdd ==
  ASSUME NEW c \in {"create", "accept"}, NEW fd \in Fds, NEW s, Good(c, {}, s)
  PROVE  Good(c, {}, <<Do("add", fd)>> \o s)
<1>1. Do("add", fd) \in Steps
  BY DEF Do, Steps
<1>2. Fits(c, {}, Do("add", fd))
  BY DEF Fits, Do
<1> QED BY <1>1, <1>2, GoodDo

\* A new socket is entered into the tables.
LEMMA GoodTable ==
  ASSUME NEW c \in {"create", "accept"}, NEW fd \in Fds, NEW s, Good(c, Three, s)
  PROVE  Good(c, Three, <<Do("table", fd)>> \o s)
<1>1. Do("table", fd) \in Steps
  BY DEF Do, Steps
<1>2. Fits(c, Three, Do("table", fd)) /\ Three \in SUBSET Locks
  BY DEF Fits, Do, Three, Locks
<1> QED BY <1>1, <1>2, GoodDo

\* The loop over the sockets of a device.
LEMMA GoodWalk ==
  ASSUME NEW c \in TearDown, NEW s, Good(c, Three, s)
  PROVE  Good(c, Three, <<Do("walk", None)>> \o s)
<1>1. Do("walk", None) \in Steps
  BY DEF Do, Steps
<1>2. Fits(c, Three, Do("walk", None)) /\ Three \in SUBSET Locks
  BY DEF Fits, Do, Three, Locks
<1> QED BY <1>1, <1>2, GoodDo

\* The listen thread is asked with no lock held.
LEMMA GoodListen ==
  ASSUME NEW s, Good("register", {}, s)
  PROVE  Good("register", {}, <<Do("listen", None)>> \o s)
<1>1. Do("listen", None) \in Steps
  BY DEF Do, Steps
<1>2. Fits("register", {}, Do("listen", None))
  BY DEF Fits, Do
<1> QED BY <1>1, <1>2, GoodDo

\* A device is registered.
LEMMA GoodEnter ==
  ASSUME NEW H \in SUBSET Locks, NEW s, Good("register", H, s)
  PROVE  Good("register", H, <<Do("register", None)>> \o s)
<1>1. Do("register", None) \in Steps
  BY DEF Do, Steps
<1>2. Fits("register", H, Do("register", None))
  BY DEF Fits, Do
<1> QED BY <1>1, <1>2, GoodDo

\* The loop over the devices.
LEMMA GoodDevices ==
  ASSUME NEW s, Good("lib_free", {"dev"}, s)
  PROVE  Good("lib_free", {"dev"}, <<Do("devices", None)>> \o s)
<1>1. Do("devices", None) \in Steps
  BY DEF Do, Steps
<1>2. Fits("lib_free", {"dev"}, Do("devices", None)) /\ {"dev"} \in SUBSET Locks
  BY DEF Fits, Do, Locks
<1> QED BY <1>1, <1>2, GoodDo

\* accept_func is called with one lock, recv_func with three.
LEMMA GoodCallback ==
  ASSUME NEW c, NEW H, NEW fd \in Fds, NEW s, Good(c, H, s),
         (c = "accept" /\ H = {"dev"}) \/ (c = "receive" /\ H = Three)
  PROVE  Good(c, H, <<Do("callback", fd)>> \o s)
<1>1. Do("callback", fd) \in Steps
  BY DEF Do, Steps
<1>2. Fits(c, H, Do("callback", fd)) /\ H \in SUBSET Locks
  BY DEF Fits, Do, Locks, Three
<1> QED BY <1>1, <1>2, GoodDo

\* The two locks that cc_of_lib_free takes the other way round.
LEMMA GoodReversed ==
  ASSUME NEW s, Good("lib_free", {"rw", "chan"}, s)
  PROVE  Good("lib_free", {"rw"}, <<Lock("chan")>> \o s)
<1>1. Lock("chan") \in Steps /\ {"rw"} \in SUBSET Marks
  BY DEF Lock, Do, Steps, Locks, Marks
<1>2. Fits("lib_free", {"rw"}, Lock("chan")) /\ After({"rw"}, Lock("chan")) = {"rw", "chan"}
  BY DEF Lock, Do, Fits, After, Twice, Never
<1> QED BY <1>1, <1>2, GoodCons

\* The steps that the paths are made of.
LEMMA StepTypes ==
  /\ \A l \in Locks : Lock(l) \in Steps /\ Pass(l) \in Steps
  /\ \A ls \in SUBSET Locks : Release(ls) \in Steps
  /\ \A fd \in Fds : \A w \in {"add", "delete", "table", "untable", "find", "put", "callback"} :
        Do(w, fd) \in Steps
  /\ \A t \in PollThreads : Do("end", t) \in Steps
  /\ \A w \in {"register", "unregister", "listen", "unlisten", "assert", "walk", "devices",
              "clear", "finddev"} : Do(w, None) \in Steps
BY DEF Steps, Lock, Pass, Release, Do

\* The sets of locks that are held on the way.
LEMMA LockSets ==
  /\ {} \in SUBSET Locks /\ {"dev"} \in SUBSET Locks /\ {"dev", "chan"} \in SUBSET Locks
  /\ Three \in SUBSET Locks /\ Three # {} /\ {"dev", "chan"} \in SUBSET Three
  /\ Before("dev") = {} /\ Before("chan") = {"dev"} /\ Before("rw") = {"dev", "chan"}
  /\ Before("list") = Three
  /\ {} \cup {"dev"} = {"dev"} /\ {"dev"} \cup {"chan"} = {"dev", "chan"}
  /\ {"dev", "chan"} \cup {"rw"} = Three
  /\ Three \ Three = {} /\ {"dev"} \ {"dev"} = {} /\ {"dev", "chan"} \ {"chan"} = {"dev"}
  /\ Three \ {"chan", "rw"} = {"dev"} /\ {"chan", "rw"} \in SUBSET Three
  /\ {} \cup {"rw"} = {"rw"} /\ {"rw", "chan"} \in SUBSET Locks
  /\ {"rw", "chan"} \ {"chan", "rw"} = {} /\ {"chan", "rw"} \in SUBSET {"rw", "chan"}
  /\ {} \cup {"list"} = {"list"} /\ {"list"} \in SUBSET Locks /\ {"list"} \ {"list"} = {}
  /\ {"dev"} \in SUBSET {"dev"} /\ {"list"} \in SUBSET {"list"}
  /\ {"chan"} \in SUBSET Locks /\ {"chan"} \ {"chan"} = {} /\ {} \cup {"chan"} = {"chan"}
  /\ {"chan"} \subseteq {"dev", "chan"} /\ {"chan"} \in SUBSET {"chan"}
  /\ Three \in SUBSET Three
  /\ "dev" \in Locks /\ "chan" \in Locks /\ "rw" \in Locks /\ "list" \in Locks
BY DEF Locks, Three, Before

\* cc_add_sockfd_rw_pollthr_safe, in a call or in a callback.
LEMMA GoodAddSocket ==
  ASSUME NEW c \in {"create", "accept"}, NEW fd \in Fds, NEW s, Good(c, {}, s)
  PROVE  Good(c, {}, AddSocket(fd) \o s)
<1>1. /\ s \in Seq(Steps)
      /\ Pass("list") \in Steps /\ Lock("dev") \in Steps /\ Lock("chan") \in Steps
      /\ Lock("rw") \in Steps /\ Do("table", fd) \in Steps /\ Release(Three) \in Steps
      /\ Do("add", fd) \in Steps
  BY LockSets, StepTypes DEF Good
<1> DEFINE s1 == <<Do("add", fd)>> \o s
           s2 == <<Release(Three)>> \o s1
           s3 == <<Do("table", fd)>> \o s2
           s4 == <<Lock("rw")>> \o s3
           s5 == <<Lock("chan")>> \o s4
           s6 == <<Lock("dev")>> \o s5
           s7 == <<Pass("list")>> \o s6
<1>2. AddSocket(fd) \o s = s7
  BY <1>1 DEF AddSocket, LockThree
<1>3. Good(c, {}, s1)
  BY LockSets, GoodAdd
<1> HIDE DEF s1
<1>4. Good(c, Three, s2)
  BY <1>3, LockSets, GoodRelease
<1> HIDE DEF s2
<1>5. Good(c, Three, s3)
  BY <1>4, LockSets, GoodTable
<1> HIDE DEF s3
<1>6. Good(c, {"dev", "chan"}, s4)
  BY <1>5, LockSets, GoodLock
<1> HIDE DEF s4
<1>7. Good(c, {"dev"}, s5)
  BY <1>6, LockSets, GoodLock
<1> HIDE DEF s5
<1>8. Good(c, {}, s6)
  BY <1>7, LockSets, GoodLock
<1> HIDE DEF s6
<1>9. Good(c, {}, s7)
  BY <1>8, LockSets, GoodPass
<1> QED BY <1>2, <1>9

\* tcp_close, with the three locks held.
LEMMA GoodCloseConn ==
  ASSUME NEW c \in TearDown, NEW fd \in Fds, NEW s, Good(c, Three, s)
  PROVE  Good(c, Three, CloseConn(fd) \o s)
<1>1. /\ s \in Seq(Steps)
      /\ Do("delete", fd) \in Steps /\ Pass("list") \in Steps /\ Do("untable", fd) \in Steps
  BY LockSets, StepTypes DEF Good
<1> DEFINE s1 == <<Do("untable", fd)>> \o s
           s2 == <<Pass("list")>> \o s1
           s3 == <<Do("delete", fd)>> \o s2
<1>2. CloseConn(fd) \o s = s3
  BY <1>1 DEF CloseConn
<1>3. Good(c, Three, s1)
  BY LockSets, GoodAsk
<1> HIDE DEF s1
<1>4. Good(c, Three, s2)
  BY <1>3, LockSets, GoodPass
<1> HIDE DEF s2
<1>5. Good(c, Three, s3)
  BY <1>4, LockSets, GoodAsk
<1> QED BY <1>2, <1>5

\* cc_of_dev_free_lockfree, with the device lock held.
LEMMA GoodDevFreeLockfree ==
  ASSUME NEW c \in TearDown, NEW s, Good(c, {"dev"}, s)
  PROVE  Good(c, {"dev"}, DevFreeLockfree \o s)
<1>1. /\ s \in Seq(Steps)
      /\ Lock("chan") \in Steps /\ Lock("rw") \in Steps /\ Do("assert", None) \in Steps
      /\ Do("walk", None) \in Steps /\ Do("unlisten", None) \in Steps /\ Release({"chan", "rw"}) \in Steps
      /\ Do("unregister", None) \in Steps
  BY LockSets, StepTypes DEF Good
<1> DEFINE s1 == <<Do("unregister", None)>> \o s
           s2 == <<Release({"chan", "rw"})>> \o s1
           s3 == <<Do("unlisten", None)>> \o s2
           s4 == <<Do("walk", None)>> \o s3
           s5 == <<Do("assert", None)>> \o s4
           s6 == <<Lock("rw")>> \o s5
           s7 == <<Lock("chan")>> \o s6
<1>2. DevFreeLockfree \o s = s7
  BY <1>1 DEF DevFreeLockfree
<1>3. Good(c, {"dev"}, s1)
  BY LockSets, GoodAsk
<1> HIDE DEF s1
<1>4. Good(c, Three, s2)
  BY <1>3, LockSets, GoodRelease
<1> HIDE DEF s2
<1>5. Good(c, Three, s3)
  BY <1>4, LockSets, GoodAsk
<1> HIDE DEF s3
<1>6. Good(c, Three, s4)
  BY <1>5, LockSets, GoodWalk
<1> HIDE DEF s4
<1>7. Good(c, Three, s5)
  BY <1>6, LockSets, GoodAny
<1> HIDE DEF s5
<1>8. Good(c, {"dev", "chan"}, s6)
  BY <1>7, LockSets, GoodLock
<1> HIDE DEF s6
<1>9. Good(c, {"dev"}, s7)
  BY <1>8, LockSets, GoodLock
<1> QED BY <1>2, <1>9

\* cc_of_dev_free.
LEMMA GoodDevFree ==
  ASSUME NEW c \in TearDown, NEW s, Good(c, {}, s)
  PROVE  Good(c, {}, DevFree \o s)
<1>1. /\ s \in Seq(Steps)
      /\ Lock("dev") \in Steps /\ Lock("chan") \in Steps /\ Lock("rw") \in Steps
      /\ Do("assert", None) \in Steps /\ Do("walk", None) \in Steps /\ Do("unlisten", None) \in Steps
      /\ Do("unregister", None) \in Steps /\ Release(Three) \in Steps
  BY LockSets, StepTypes DEF Good
<1> DEFINE s1 == <<Release(Three)>> \o s
           s2 == <<Do("unregister", None)>> \o s1
           s3 == <<Do("unlisten", None)>> \o s2
           s4 == <<Do("walk", None)>> \o s3
           s5 == <<Do("assert", None)>> \o s4
           s6 == <<Lock("rw")>> \o s5
           s7 == <<Lock("chan")>> \o s6
           s8 == <<Lock("dev")>> \o s7
<1>2. DevFree \o s = s8
  BY <1>1 DEF DevFree, LockThree
<1>3. Good(c, Three, s1)
  BY LockSets, GoodRelease
<1> HIDE DEF s1
<1>4. Good(c, Three, s2)
  BY <1>3, LockSets, GoodAsk
<1> HIDE DEF s2
<1>5. Good(c, Three, s3)
  BY <1>4, LockSets, GoodAsk
<1> HIDE DEF s3
<1>6. Good(c, Three, s4)
  BY <1>5, LockSets, GoodWalk
<1> HIDE DEF s4
<1>7. Good(c, Three, s5)
  BY <1>6, LockSets, GoodAny
<1> HIDE DEF s5
<1>8. Good(c, {"dev", "chan"}, s6)
  BY <1>7, LockSets, GoodLock
<1> HIDE DEF s6
<1>9. Good(c, {"dev"}, s7)
  BY <1>8, LockSets, GoodLock
<1> HIDE DEF s7
<1>10. Good(c, {}, s8)
  BY <1>9, LockSets, GoodLock
<1> QED BY <1>2, <1>10

\* cc_of_destroy_channel.
LEMMA GoodDestroy ==
  ASSUME NEW c \in TearDown, NEW fd \in Fds, NEW s, Good(c, {}, s)
  PROVE  Good(c, {}, Destroy(fd) \o s)
<1>1. /\ s \in Seq(Steps)
      /\ Lock("dev") \in Steps /\ Lock("chan") \in Steps /\ Do("find", fd) \in Steps
      /\ Lock("rw") \in Steps /\ Do("delete", fd) \in Steps /\ Pass("list") \in Steps
      /\ Do("untable", fd) \in Steps /\ Release(Three) \in Steps
  BY LockSets, StepTypes DEF Good
<1> DEFINE s1 == <<Release(Three)>> \o s
           s2 == <<Do("untable", fd)>> \o s1
           s3 == <<Pass("list")>> \o s2
           s4 == <<Do("delete", fd)>> \o s3
           s5 == <<Do("find", fd)>> \o s4
           s6 == <<Lock("rw")>> \o s5
           s7 == <<Do("find", fd)>> \o s6
           s8 == <<Lock("chan")>> \o s7
           s9 == <<Lock("dev")>> \o s8
<1>2. Destroy(fd) \o s = s9
  BY <1>1 DEF Destroy, CloseConn
<1>3. Good(c, Three, s1)
  BY LockSets, GoodRelease
<1> HIDE DEF s1
<1>4. Good(c, Three, s2)
  BY <1>3, LockSets, GoodAsk
<1> HIDE DEF s2
<1>5. Good(c, Three, s3)
  BY <1>4, LockSets, GoodPass
<1> HIDE DEF s3
<1>6. Good(c, Three, s4)
  BY <1>5, LockSets, GoodAsk
<1> HIDE DEF s4
<1>7. Good(c, Three, s5)
  BY <1>6, LockSets, GoodAny
<1> HIDE DEF s5
<1>8. Good(c, {"dev", "chan"}, s6)
  BY <1>7, LockSets, GoodLock
<1> HIDE DEF s6
<1>9. Good(c, {"dev", "chan"}, s7)
  BY <1>8, LockSets, GoodAny
<1> HIDE DEF s7
<1>10. Good(c, {"dev"}, s8)
  BY <1>9, LockSets, GoodLock
<1> HIDE DEF s8
<1>11. Good(c, {}, s9)
  BY <1>10, LockSets, GoodLock
<1> QED BY <1>2, <1>11

\* cc_of_lib_free.
LEMMA GoodLibFree ==
  ASSUME NEW s, Good("lib_free", {}, s)
  PROVE  Good("lib_free", {}, LibFree \o s)
<1>1. /\ s \in Seq(Steps)
      /\ Lock("dev") \in Steps /\ Do("devices", None) \in Steps /\ Release({"dev"}) \in Steps
      /\ Lock("rw") \in Steps /\ Lock("chan") \in Steps /\ Do("clear", None) \in Steps
      /\ Release({"chan", "rw"}) \in Steps /\ Do("end", Listener) \in Steps /\ Lock("list") \in Steps
      /\ Do("end", Reader) \in Steps /\ Release({"list"}) \in Steps
  BY LockSets, StepTypes DEF Good, PollThreads
<1> DEFINE s1 == <<Release({"list"})>> \o s
           s2 == <<Do("end", Reader)>> \o s1
           s3 == <<Lock("list")>> \o s2
           s4 == <<Do("end", Listener)>> \o s3
           s5 == <<Release({"chan", "rw"})>> \o s4
           s6 == <<Do("clear", None)>> \o s5
           s7 == <<Lock("chan")>> \o s6
           s8 == <<Lock("rw")>> \o s7
           s9 == <<Release({"dev"})>> \o s8
           s10 == <<Do("devices", None)>> \o s9
           s11 == <<Lock("dev")>> \o s10
<1>2. LibFree \o s = s11
  BY <1>1 DEF LibFree
<1>3. Good("lib_free", {"list"}, s1)
  BY LockSets, GoodRelease DEF TearDown, PollThreads
<1> HIDE DEF s1
<1>4. Good("lib_free", {"list"}, s2)
  BY <1>3, LockSets, GoodAsk DEF TearDown, PollThreads
<1> HIDE DEF s2
<1>5. Good("lib_free", {}, s3)
  BY <1>4, LockSets, GoodLock DEF TearDown, PollThreads
<1> HIDE DEF s3
<1>6. Good("lib_free", {}, s4)
  BY <1>5, LockSets, GoodAsk DEF TearDown, PollThreads
<1> HIDE DEF s4
<1>7. Good("lib_free", {"rw", "chan"}, s5)
  BY <1>6, LockSets, GoodRelease DEF TearDown, PollThreads
<1> HIDE DEF s5
<1>8. Good("lib_free", {"rw", "chan"}, s6)
  BY <1>7, LockSets, GoodAsk DEF TearDown, PollThreads
<1> HIDE DEF s6
<1>9. Good("lib_free", {"rw"}, s7)
  BY <1>8, LockSets, GoodReversed DEF TearDown, PollThreads
<1> HIDE DEF s7
<1>10. Good("lib_free", {}, s8)
  BY <1>9, LockSets, GoodLock DEF TearDown, PollThreads
<1> HIDE DEF s8
<1>11. Good("lib_free", {"dev"}, s9)
  BY <1>10, LockSets, GoodRelease DEF TearDown, PollThreads
<1> HIDE DEF s9
<1>12. Good("lib_free", {"dev"}, s10)
  BY <1>11, LockSets, GoodDevices DEF TearDown, PollThreads
<1> HIDE DEF s10
<1>13. Good("lib_free", {}, s11)
  BY <1>12, LockSets, GoodLock DEF TearDown, PollThreads
<1> QED BY <1>2, <1>13

\* cc_of_send_pkt, from a thread of the application.
LEMMA GoodSend ==
  ASSUME NEW c, NEW fd \in Fds, NEW s, Good(c, {}, s)
  PROVE  Good(c, {}, Send(fd) \o s)
<1>1. /\ s \in Seq(Steps)
      /\ Lock("chan") \in Steps /\ Do("find", fd) \in Steps /\ Pass("rw") \in Steps
      /\ Do("put", fd) \in Steps /\ Release({"chan"}) \in Steps
  BY LockSets, StepTypes DEF Good
<1> DEFINE s1 == <<Release({"chan"})>> \o s
           s2 == <<Do("put", fd)>> \o s1
           s3 == <<Pass("rw")>> \o s2
           s4 == <<Do("find", fd)>> \o s3
           s5 == <<Lock("chan")>> \o s4
<1>2. Send(fd) \o s = s5
  BY <1>1 DEF Send
<1>3. Good(c, {"chan"}, s1)
  BY LockSets, GoodRelease
<1> HIDE DEF s1
<1>4. Good(c, {"chan"}, s2)
  BY <1>3, LockSets, GoodAny
<1> HIDE DEF s2
<1>5. Good(c, {"chan"}, s3)
  BY <1>4, LockSets, GoodPass
<1> HIDE DEF s3
<1>6. Good(c, {"chan"}, s4)
  BY <1>5, LockSets, GoodAny
<1> HIDE DEF s4
<1>7. Good(c, {}, s5)
  BY <1>6, LockSets, GoodLock
<1> QED BY <1>2, <1>7

\* cc_of_send_pkt, from accept_func, which has the device lock.
LEMMA GoodSendAccept ==
  ASSUME NEW c, NEW fd \in Fds, NEW s, Good(c, {"dev"}, s)
  PROVE  Good(c, {"dev"}, Send(fd) \o s)
<1>1. /\ s \in Seq(Steps)
      /\ Lock("chan") \in Steps /\ Do("find", fd) \in Steps /\ Pass("rw") \in Steps
      /\ Do("put", fd) \in Steps /\ Release({"chan"}) \in Steps
  BY LockSets, StepTypes DEF Good
<1> DEFINE s1 == <<Release({"chan"})>> \o s
           s2 == <<Do("put", fd)>> \o s1
           s3 == <<Pass("rw")>> \o s2
           s4 == <<Do("find", fd)>> \o s3
           s5 == <<Lock("chan")>> \o s4
<1>2. Send(fd) \o s = s5
  BY <1>1 DEF Send
<1>3. Good(c, {"dev", "chan"}, s1)
  BY LockSets, GoodRelease
<1> HIDE DEF s1
<1>4. Good(c, {"dev", "chan"}, s2)
  BY <1>3, LockSets, GoodAny
<1> HIDE DEF s2
<1>5. Good(c, {"dev", "chan"}, s3)
  BY <1>4, LockSets, GoodPass
<1> HIDE DEF s3
<1>6. Good(c, {"dev", "chan"}, s4)
  BY <1>5, LockSets, GoodAny
<1> HIDE DEF s4
<1>7. Good(c, {"dev"}, s5)
  BY <1>6, LockSets, GoodLock
<1> QED BY <1>2, <1>7

\* process_tcpfd_pollin_func.
LEMMA GoodReceive ==
  ASSUME NEW fd \in Fds, NEW s, Good("receive", {}, s)
  PROVE  Good("receive", {}, Receive(fd) \o s)
<1>1. /\ s \in Seq(Steps)
      /\ Lock("dev") \in Steps /\ Lock("chan") \in Steps /\ Lock("rw") \in Steps
      /\ Do("find", fd) \in Steps /\ Do("callback", fd) \in Steps /\ Release(Three) \in Steps
  BY LockSets, StepTypes DEF Good
<1> DEFINE s1 == <<Release(Three)>> \o s
           s2 == <<Do("callback", fd)>> \o s1
           s3 == <<Do("find", fd)>> \o s2
           s4 == <<Lock("rw")>> \o s3
           s5 == <<Lock("chan")>> \o s4
           s6 == <<Lock("dev")>> \o s5
<1>2. Receive(fd) \o s = s6
  BY <1>1 DEF Receive, LockThree
<1>3. Good("receive", Three, s1)
  BY LockSets, GoodRelease
<1> HIDE DEF s1
<1>4. Good("receive", Three, s2)
  BY <1>3, LockSets, GoodCallback
<1> HIDE DEF s2
<1>5. Good("receive", Three, s3)
  BY <1>4, LockSets, GoodAny
<1> HIDE DEF s3
<1>6. Good("receive", {"dev", "chan"}, s4)
  BY <1>5, LockSets, GoodLock
<1> HIDE DEF s4
<1>7. Good("receive", {"dev"}, s5)
  BY <1>6, LockSets, GoodLock
<1> HIDE DEF s5
<1>8. Good("receive", {}, s6)
  BY <1>7, LockSets, GoodLock
<1> QED BY <1>2, <1>8

\* process_udpfd_pollout_func.
LEMMA GoodUdpPollout ==
  ASSUME NEW c, NEW s, Good(c, {}, s)
  PROVE  Good(c, {}, <<Lock("chan"), Pass("rw"), Release({"chan"})>> \o s)
<1>1. /\ s \in Seq(Steps)
      /\ Lock("chan") \in Steps /\ Pass("rw") \in Steps /\ Release({"chan"}) \in Steps
  BY LockSets, StepTypes DEF Good
<1> DEFINE s1 == <<Release({"chan"})>> \o s
           s2 == <<Pass("rw")>> \o s1
           s3 == <<Lock("chan")>> \o s2
<1>2. <<Lock("chan"), Pass("rw"), Release({"chan"})>> \o s = s3
  BY <1>1 DEF Good
<1>3. Good(c, {"chan"}, s1)
  BY LockSets, GoodRelease
<1> HIDE DEF s1
<1>4. Good(c, {"chan"}, s2)
  BY <1>3, LockSets, GoodPass
<1> HIDE DEF s2
<1>5. Good(c, {}, s3)
  BY <1>4, LockSets, GoodLock
<1> QED BY <1>2, <1>5

\* The device is gone when a socket is to be tabled.
LEMMA GoodTableFails ==
  ASSUME NEW c, NEW s, Good(c, {}, s)
  PROVE  Good(c, Three, (<<Release(Three)>> \o LockThree \o <<Release(Three)>>) \o s)
<1>1. /\ s \in Seq(Steps)
      /\ Release(Three) \in Steps /\ Lock("dev") \in Steps /\ Lock("chan") \in Steps
      /\ Lock("rw") \in Steps
  BY LockSets, StepTypes DEF Good
<1> DEFINE s1 == <<Release(Three)>> \o s
           s2 == <<Lock("rw")>> \o s1
           s3 == <<Lock("chan")>> \o s2
           s4 == <<Lock("dev")>> \o s3
           s5 == <<Release(Three)>> \o s4
<1>2. (<<Release(Three)>> \o LockThree \o <<Release(Three)>>) \o s = s5
  BY <1>1 DEF LockThree
<1>3. Good(c, Three, s1)
  BY LockSets, GoodRelease
<1> HIDE DEF s1
<1>4. Good(c, {"dev", "chan"}, s2)
  BY <1>3, LockSets, GoodLock
<1> HIDE DEF s2
<1>5. Good(c, {"dev"}, s3)
  BY <1>4, LockSets, GoodLock
<1> HIDE DEF s3
<1>6. Good(c, {}, s4)
  BY <1>5, LockSets, GoodLock
<1> HIDE DEF s4
<1>7. Good(c, Three, s5)
  BY <1>6, LockSets, GoodRelease
<1> QED BY <1>2, <1>7

\* cc_of_dev_register without and with a socket to listen on.
LEMMA GoodRegister ==
  ASSUME NEW s, Good("register", {}, s)
  PROVE  Good("register", {}, <<Lock("dev"), Do("register", None), Release({"dev"})>> \o s)
<1>1. /\ s \in Seq(Steps)
      /\ Lock("dev") \in Steps /\ Do("register", None) \in Steps /\ Release({"dev"}) \in Steps
  BY LockSets, StepTypes DEF Good
<1> DEFINE s1 == <<Release({"dev"})>> \o s
           s2 == <<Do("register", None)>> \o s1
           s3 == <<Lock("dev")>> \o s2
<1>2. <<Lock("dev"), Do("register", None), Release({"dev"})>> \o s = s3
  BY <1>1 DEF Good
<1>3. Good("register", {"dev"}, s1)
  BY LockSets, GoodRelease
<1> HIDE DEF s1
<1>4. Good("register", {"dev"}, s2)
  BY <1>3, LockSets, GoodEnter
<1> HIDE DEF s2
<1>5. Good("register", {}, s3)
  BY <1>4, LockSets, GoodLock
<1> QED BY <1>2, <1>5

\* The two ends of process_listenfd_pollin_func.
LEMMA GoodAcceptHead ==
  ASSUME NEW c, NEW s, Good(c, {}, s)
  PROVE  Good(c, {}, <<Lock("dev"), Do("finddev", None), Release({"dev"})>> \o s)
<1>1. /\ s \in Seq(Steps)
      /\ Lock("dev") \in Steps /\ Do("finddev", None) \in Steps /\ Release({"dev"}) \in Steps
  BY LockSets, StepTypes DEF Good
<1> DEFINE s1 == <<Release({"dev"})>> \o s
           s2 == <<Do("finddev", None)>> \o s1
           s3 == <<Lock("dev")>> \o s2
<1>2. <<Lock("dev"), Do("finddev", None), Release({"dev"})>> \o s = s3
  BY <1>1 DEF Good
<1>3. Good(c, {"dev"}, s1)
  BY LockSets, GoodRelease
<1> HIDE DEF s1
<1>4. Good(c, {"dev"}, s2)
  BY <1>3, LockSets, GoodAny
<1> HIDE DEF s2
<1>5. Good(c, {}, s3)
  BY <1>4, LockSets, GoodLock
<1> QED BY <1>2, <1>5

\* The callback, with the device lock, and what follows it.
LEMMA GoodAcceptTail ==
  ASSUME NEW fd \in Fds, NEW s, Good("accept", {}, s)
  PROVE  Good("accept", {}, <<Lock("dev"), Do("finddev", None), Do("callback", fd), Release({"dev"}), Pass("rw")>> \o s)
<1>1. /\ s \in Seq(Steps)
      /\ Lock("dev") \in Steps /\ Do("finddev", None) \in Steps /\ Do("callback", fd) \in Steps
      /\ Release({"dev"}) \in Steps /\ Pass("rw") \in Steps
  BY LockSets, StepTypes DEF Good
<1> DEFINE s1 == <<Pass("rw")>> \o s
           s2 == <<Release({"dev"})>> \o s1
           s3 == <<Do("callback", fd)>> \o s2
           s4 == <<Do("finddev", None)>> \o s3
           s5 == <<Lock("dev")>> \o s4
<1>2. <<Lock("dev"), Do("finddev", None), Do("callback", fd), Release({"dev"}), Pass("rw")>> \o s = s5
  BY <1>1 DEF Good
<1>3. Good("accept", {}, s1)
  BY LockSets, GoodPass
<1> HIDE DEF s1
<1>4. Good("accept", {"dev"}, s2)
  BY <1>3, LockSets, GoodRelease
<1> HIDE DEF s2
<1>5. Good("accept", {"dev"}, s3)
  BY <1>4, LockSets, GoodCallback
<1> HIDE DEF s3
<1>6. Good("accept", {"dev"}, s4)
  BY <1>5, LockSets, GoodAny
<1> HIDE DEF s4
<1>7. Good("accept", {}, s5)
  BY <1>6, LockSets, GoodLock
<1> QED BY <1>2, <1>7

\* A path is what it is in front of nothing.
LEMMA GoodWhole ==
  ASSUME NEW c, NEW H, NEW p \in Seq(Steps), Good(c, H, p \o <<>>)
  PROVE  Good(c, H, p)
BY ConcatEmptySeq

\* The paths are sequences of steps.
LEMMA PathTypes ==
  ASSUME NEW fd \in Fds
  PROVE  /\ AddSocket(fd) \in Seq(Steps) /\ Destroy(fd) \in Seq(Steps)
         /\ Send(fd) \in Seq(Steps) /\ Receive(fd) \in Seq(Steps)
         /\ DevFree \in Seq(Steps) /\ LibFree \in Seq(Steps) /\ SetReal \in Seq(Steps)
<1>1. /\ \A l \in {"dev", "chan", "rw", "list"} : Lock(l) \in Steps /\ Pass(l) \in Steps
      /\ Release(Three) \in Steps /\ Release({"chan"}) \in Steps /\ Release({"dev"}) \in Steps
      /\ Release({"chan", "rw"}) \in Steps /\ Release({"list"}) \in Steps
  BY StepTypes DEF Locks, Three
<1>2. /\ \A w \in {"add", "delete", "table", "untable", "find", "put", "callback"} :
           Do(w, fd) \in Steps
      /\ Do("end", Listener) \in Steps /\ Do("end", Reader) \in Steps
      /\ \A w \in {"register", "unregister", "unlisten", "assert", "walk", "devices",
                   "clear"} : Do(w, None) \in Steps
  BY StepTypes DEF PollThreads
<1>3. AddSocket(fd) \in Seq(Steps)
  BY <1>1, <1>2 DEF AddSocket, LockThree
<1>4. Destroy(fd) \in Seq(Steps)
  BY <1>1, <1>2 DEF Destroy, CloseConn
<1>5. Send(fd) \in Seq(Steps) /\ SetReal \in Seq(Steps)
  BY <1>1, <1>2 DEF Send, SetReal
<1>6. Receive(fd) \in Seq(Steps)
  BY <1>1, <1>2 DEF Receive, LockThree
<1>7. DevFree \in Seq(Steps)
  BY <1>1, <1>2 DEF DevFree, LockThree
<1>8. LibFree \in Seq(Steps)
  BY <1>1, <1>2 DEF LibFree
<1> QED BY <1>3, <1>4, <1>5, <1>6, <1>7, <1>8

\* process_listenfd_pollin_func.
LEMMA GoodAccept ==
  ASSUME NEW fd \in Fds
  PROVE  Good("accept", {}, Accept(fd))
<1> DEFINE a == <<Lock("dev"), Do("finddev", None), Release({"dev"})>>
           b == AddSocket(fd)
           d == <<Lock("dev"), Do("finddev", None), Do("callback", fd), Release({"dev"}), Pass("rw")>>
<1>1. /\ Lock("dev") \in Steps /\ Do("finddev", None) \in Steps /\ Release({"dev"}) \in Steps
      /\ Do("callback", fd) \in Steps /\ Pass("rw") \in Steps
  BY StepTypes, LockSets
<1>2. a \in Seq(Steps) /\ b \in Seq(Steps) /\ d \in Seq(Steps)
  BY <1>1, PathTypes
<1>3. Good("accept", {}, d \o <<>>)
  BY GoodNil, GoodAcceptTail
<1>4. \A s : Good("accept", {}, s) => Good("accept", {}, a \o s) /\ Good("accept", {}, b \o s)
  BY GoodAcceptHead, GoodAddSocket
<1>5. Accept(fd) = (a \o b) \o d
  BY DEF Accept
<1> HIDE DEF a, b, d
<1>6. Good("accept", {}, d)
  BY <1>2, <1>3, GoodWhole
<1>7. Good("accept", {}, a \o (b \o d))
  BY <1>4, <1>6
<1>8. (a \o b) \o d = a \o (b \o d)
  BY <1>2
<1> QED BY <1>5, <1>7, <1>8

\* Every call of the application.
LEMMA GoodPaths ==
  ASSUME NEW name \in Names, NEW fd \in Fds, NEW p \in Paths(name, fd)
  PROVE  Good(name, {}, p)
<1>1. CASE name = "register"
  <2> DEFINE a == <<Lock("dev"), Do("register", None), Release({"dev"})>>
             b == <<Do("listen", None)>>
  <2>1. p = a \o b \/ p = a \o <<>>
    BY <1>1 DEF Paths, Register
  <2>2. Good("register", {}, b \o <<>>)
    BY GoodNil, GoodListen
  <2>5. b \in Seq(Steps)
    <3>1. Do("listen", None) \in Steps
      BY StepTypes
    <3> QED BY <3>1
  <2>3. \A s : Good("register", {}, s) => Good("register", {}, a \o s)
    BY GoodRegister
  <2> HIDE DEF a, b
  <2>4. Good("register", {}, b) /\ Good("register", {}, <<>>)
    BY <2>2, <2>5, GoodWhole, GoodNil
  <2> QED BY <1>1, <2>1, <2>3, <2>4
<1>2. CASE name = "dev_free"
  <2>1. p = DevFree /\ name \in TearDown
    BY <1>2 DEF Paths, TearDown
  <2> QED BY <2>1, GoodNil, GoodDevFree, PathTypes, GoodWhole
<1>3. CASE name = "lib_free"
  <2>1. p = LibFree
    BY <1>3 DEF Paths
  <2> QED BY <1>3, <2>1, GoodNil, GoodLibFree, PathTypes, GoodWhole
<1>4. CASE name = "create"
  <2>1. p = AddSocket(fd)
    BY <1>4 DEF Paths
  <2> QED BY <1>4, <2>1, GoodNil, GoodAddSocket, PathTypes, GoodWhole
<1>5. CASE name = "destroy"
  <2>1. p = Destroy(fd) /\ name \in TearDown
    BY <1>5 DEF Paths, TearDown
  <2> QED BY <2>1, GoodNil, GoodDestroy, PathTypes, GoodWhole
<1>6. CASE name = "send"
  <2>1. p = Send(fd)
    BY <1>6 DEF Paths
  <2> QED BY <1>6, <2>1, GoodNil, GoodSend, PathTypes, GoodWhole
<1>7. CASE name = "set_real"
  <2>1. p = <<Pass("chan")>> /\ p \in Seq(Steps)
    BY <1>7, PathTypes DEF Paths, SetReal
  <2>2. Good(name, {}, <<Pass("chan")>> \o <<>>)
    BY GoodNil, GoodPass, LockSets
  <2> QED BY <2>1, <2>2, GoodWhole
<1> QED BY <1>1, <1>2, <1>3, <1>4, <1>5, <1>6, <1>7 DEF Names

\* What a callback may call: from accept_func, with the device lock, and from
\* recv_func, with three, where the first lock is taken twice.
LEMMA GoodCallbackCalls ==
  ASSUME NEW c, NEW H, NEW fd \in Fds, NEW name \in CallbackCalls, NEW p \in Paths(name, fd),
         NEW s, Good(c, H, s),
         (c = "accept" /\ H = {"dev"}) \/ (c = "receive" /\ H = Three)
  PROVE  Good(c, H, p \o s)
<1>1. s \in Seq(Steps) /\ H \in SUBSET Locks /\ "dev" \in H /\ (H = Three => "chan" \in H)
  BY LockSets DEF Good, Three
<1>2. CASE name = "destroy"
  <2>1. p = Destroy(fd)
    BY <1>2 DEF Paths
  <2> DEFINE q == <<Do("delete", fd)>> \o (<<Pass("list")>> \o (<<Do("untable", fd)>>
                    \o (<<Release(Three)>> \o s)))
             r == <<Lock("chan")>> \o (<<Do("find", fd)>> \o (<<Lock("rw")>>
                    \o (<<Do("find", fd)>> \o q)))
  <2>2. /\ Lock("dev") \in Steps /\ Lock("chan") \in Steps /\ Do("find", fd) \in Steps
        /\ Lock("rw") \in Steps /\ Do("delete", fd) \in Steps /\ Pass("list") \in Steps
        /\ Do("untable", fd) \in Steps /\ Release(Three) \in Steps
    BY StepTypes, LockSets
  <2>3. r \in Seq(Steps)
    BY <1>1, <2>2
  <2>4. Destroy(fd) \o s = <<Lock("dev")>> \o r
    BY <1>1, <2>2 DEF Destroy, CloseConn
  <2> HIDE DEF r
  <2> QED BY <1>1, <2>1, <2>3, <2>4, GoodTwice
<1>3. CASE name = "send"
  <2>1. p = Send(fd)
    BY <1>3 DEF Paths
  <2>2. CASE H = {"dev"}
    BY <2>1, <2>2, GoodSendAccept
  <2>3. CASE H = Three
    <3> DEFINE r == <<Do("find", fd), Pass("rw"), Do("put", fd), Release({"chan"})>> \o s
    <3>1. /\ Lock("chan") \in Steps /\ Do("find", fd) \in Steps /\ Pass("rw") \in Steps
          /\ Do("put", fd) \in Steps /\ Release({"chan"}) \in Steps
      BY StepTypes, LockSets
    <3>2. r \in Seq(Steps)
      BY <1>1, <3>1
    <3>3. Send(fd) \o s = <<Lock("chan")>> \o r
      BY <1>1, <3>1 DEF Send
    <3> HIDE DEF r
    <3> QED BY <1>1, <2>1, <2>3, <3>2, <3>3, GoodTwice
  <2> QED BY <2>2, <2>3
<1>4. CASE name = "set_real"
  <2>1. p = <<Pass("chan")>>
    BY <1>4 DEF Paths, SetReal
  <2> QED BY <1>1, <2>1, GoodPass, GoodTwice, LockSets
<1> QED BY <1>2, <1>3, <1>4, LocksAssumption
-----------------------------------------------------------------------------
(* The discipline of the locks *)

\* KnownDeadlocksOnly is about the heads of the sequences and the locks held
\* now.  It lasts because every thread has only steps left that keep to the
\* order, beginning with the locks it holds.
Disciplined ==
  /\ todo \in [Threads -> Seq(Steps)]
  /\ call \in [Threads -> Names \cup {"idle", "accept", "receive", "pollout"}]
  /\ call[Listener] \in {"idle", "accept"} /\ call[Reader] \in {"idle", "receive", "pollout"}
  /\ \A t \in Threads : Good(call[t], Holds(t), todo[t])

\* The inductive invariant.
LockInv == TypeOK /\ Disciplined

\* The threads differ.
LEMMA ThreadFacts ==
  /\ Listener \in Threads /\ Reader \in Threads /\ Listener # Reader /\ None \notin Threads
  /\ \A a \in Apps : a \in Threads /\ a # Listener /\ a # Reader
BY LocksAssumption DEF Threads, PollThreads

\* What a step carries.
LEMMA StepArgs ==
  ASSUME NEW x \in Steps
  PROVE  /\ x.what \in {"lock", "pass"} => x.arg \in Locks
         /\ x.what = "release" => x.arg \subseteq Locks
         /\ x.what \in {"add", "delete", "table", "untable", "find", "put", "callback"}
              => x.arg \in Fds
         /\ x.what = "end" => x.arg \in PollThreads
BY DEF Steps

\* The step at the head of a sequence.
LEMMA AtHead ==
  ASSUME LockInv, NEW t \in Threads, ~Idle(t)
  PROVE  /\ Head(todo[t]) \in Steps /\ Tail(todo[t]) \in Seq(Steps)
         /\ Fits(call[t], Holds(t), Head(todo[t]))
         /\ Good(call[t], After(Holds(t), Head(todo[t])), Tail(todo[t]))
         /\ Holds(t) \in SUBSET Locks /\ Holds(t) # Never
<1>1. Good(call[t], Holds(t), todo[t]) /\ todo[t] # <<>>
  BY DEF LockInv, Disciplined, Idle
<1>2. Holds(t) \in SUBSET Locks /\ Holds(t) # Never
  BY DEF Holds, Locks, Never
<1> QED BY <1>1, <1>2, GoodTail

\* One thread goes on within its call.
LEMMA OneMoves ==
  ASSUME LockInv, NEW t \in Threads, NEW s, todo' = [todo EXCEPT ![t] = s], call' = call,
         NEW H, H = Holds(t)', \A u \in Threads : u # t => Holds(u)' = Holds(u),
         Good(call[t], H, s)
  PROVE  Disciplined'
<1>1. s \in Seq(Steps) /\ todo \in [Threads -> Seq(Steps)]
  BY DEF Good, LockInv, Disciplined
<1>2. todo' \in [Threads -> Seq(Steps)] /\ todo'[t] = s
      /\ \A u \in Threads : u # t => todo'[u] = todo[u]
  BY <1>1
<1>3. ASSUME NEW u \in Threads PROVE Good(call[u], Holds(u)', todo'[u])
  <2>1. CASE u = t
    BY <1>2, <2>1
  <2>2. CASE u # t
    BY <1>2, <2>2 DEF LockInv, Disciplined
  <2> QED BY <2>1, <2>2
<1> QED BY <1>2, <1>3 DEF LockInv, Disciplined

\* One thread begins a call or a callback.
LEMMA OneBegins ==
  ASSUME LockInv, NEW t \in Threads, Idle(t), NEW s, NEW c,
         todo' = [todo EXCEPT ![t] = s], call' = [call EXCEPT ![t] = c],
         UNCHANGED owner, Good(c, {}, s),
         \/ t \in Apps /\ c \in Names
         \/ t = Listener /\ c = "accept"
         \/ t = Reader /\ c \in {"receive", "pollout"}
  PROVE  Disciplined'
<1>1. s \in Seq(Steps) /\ todo \in [Threads -> Seq(Steps)]
      /\ call \in [Threads -> Names \cup {"idle", "accept", "receive", "pollout"}]
      /\ call[Listener] \in {"idle", "accept"} /\ call[Reader] \in {"idle", "receive", "pollout"}
  BY DEF Good, LockInv, Disciplined
<1>2. /\ todo' \in [Threads -> Seq(Steps)] /\ todo'[t] = s
      /\ \A u \in Threads : u # t => todo'[u] = todo[u] /\ call'[u] = call[u]
      /\ call'[t] = c
      /\ call' \in [Threads -> Names \cup {"idle", "accept", "receive", "pollout"}]
  BY <1>1
<1>3. call'[Listener] \in {"idle", "accept"} /\ call'[Reader] \in {"idle", "receive", "pollout"}
  BY <1>1, <1>2, ThreadFacts
<1>4. Holds(t) = {}
  <2>1. Good(call[t], Holds(t), <<>>) /\ Holds(t) \in SUBSET Locks
    BY DEF LockInv, Disciplined, Idle, Holds
  <2> QED BY <2>1, GoodEnd
<1>5. \A u \in Threads : Holds(u)' = Holds(u)
  BY DEF Holds
<1>6. ASSUME NEW u \in Threads PROVE Good(call'[u], Holds(u)', todo'[u])
  <2>1. CASE u = t
    BY <1>2, <1>4, <1>5, <2>1
  <2>2. CASE u # t
    BY <1>2, <1>5, <2>2 DEF LockInv, Disciplined
  <2> QED BY <2>1, <2>2
<1> QED BY <1>2, <1>3, <1>6 DEF Disciplined

\* A step that neither takes nor releases a lock.
LEMMA QuietMove ==
  ASSUME LockInv, NEW t \in Threads, ~Idle(t), Goes(t), UNCHANGED <<owner, call>>,
         Head(todo[t]).what \notin {"lock", "release"},
         Head(todo[t]).what = "pass" => owner[Arg(t)] = None
  PROVE  Disciplined'
<1> DEFINE x == Head(todo[t])
           s == Tail(todo[t])
           H == Holds(t)
<1>1. /\ x \in Steps /\ Good(call[t], After(H, x), s) /\ H # Never
  BY AtHead
<1>2. ~Twice(H, x)
  BY ThreadFacts DEF Twice, Holds, Arg
<1>3. After(H, x) = H
  BY <1>1, <1>2 DEF After
<1>4. todo' = [todo EXCEPT ![t] = s]
  BY DEF Goes
<1>5. \A u \in Threads : Holds(u)' = Holds(u)
  BY DEF Holds
<1> HIDE DEF x, s
<1>6. H = Holds(t)' /\ Good(call[t], H, s)
  BY <1>1, <1>3, <1>5
<1> HIDE DEF H
<1> QED BY <1>4, <1>5, <1>6, OneMoves

\* A sequence is replaced while the locks stay as they are.
LEMMA QuietReplace ==
  ASSUME LockInv, NEW t \in Threads, NEW s, todo' = [todo EXCEPT ![t] = s],
         UNCHANGED <<owner, call>>, Good(call[t], Holds(t), s)
  PROVE  Disciplined'
<1>1. \A u \in Threads : Holds(u)' = Holds(u)
  BY DEF Holds
<1> DEFINE H == Holds(t)
<1>2. H = Holds(t)' /\ Good(call[t], H, s)
  BY <1>1
<1> HIDE DEF H
<1> QED BY <1>1, <1>2, OneMoves

\* A lock is taken.
LEMMA TakeLockKept ==
  ASSUME LockInv, NEW t \in Threads, TakeLock(t)
  PROVE  LockInv'
<1> DEFINE x == Head(todo[t])
           s == Tail(todo[t])
           H == Holds(t)
           l == x.arg
<1>1. ~Idle(t) /\ x.what = "lock" /\ owner[l] = None /\ owner' = [owner EXCEPT ![l] = t]
      /\ todo' = [todo EXCEPT ![t] = s] /\ UNCHANGED <<call, rest, data, aborted>>
  BY DEF TakeLock, At, Arg, Goes, rest
<1>2. x \in Steps /\ Good(call[t], After(H, x), s) /\ H # Never
  BY <1>1, AtHead
<1>3. l \in Locks
  BY <1>1, <1>2, StepArgs
<1>4. owner \in [Locks -> Threads \cup {None}]
  BY DEF LockInv, TypeOK
<1>5. /\ owner' \in [Locks -> Threads \cup {None}] /\ owner'[l] = t
      /\ \A m \in Locks : m # l => owner'[m] = owner[m]
  BY <1>1, <1>3, <1>4
<1>6. l \notin H
  BY <1>1, ThreadFacts DEF Holds
<1>7. After(H, x) = H \cup {l}
  BY <1>1, <1>2, <1>6 DEF After, Twice
<1> HIDE DEF x, s, l
<1>8. Holds(t)' = H \cup {l}
  BY <1>3, <1>5 DEF Holds
<1>9. \A u \in Threads : u # t => Holds(u)' = Holds(u)
  BY <1>1, <1>3, <1>5, ThreadFacts DEF Holds
<1> HIDE DEF H
<1>10. Disciplined'
  <2> DEFINE G == After(H, x)
  <2>1. G = Holds(t)' /\ Good(call[t], G, s)
    BY <1>2, <1>7, <1>8
  <2> HIDE DEF G
  <2> QED BY <1>1, <1>9, <2>1, OneMoves
<1>11. TypeOK'
  BY <1>1, <1>5 DEF LockInv, TypeOK, rest, data
<1> QED BY <1>10, <1>11 DEF LockInv

\* Locks are released.
LEMMA ReleaseLocksKept ==
  ASSUME LockInv, NEW t \in Threads, ReleaseLocks(t)
  PROVE  LockInv'
<1> DEFINE x == Head(todo[t])
           s == Tail(todo[t])
           H == Holds(t)
           ls == x.arg
<1>1. /\ ~Idle(t) /\ x.what = "release"
      /\ owner' = [l \in Locks |-> IF l \in ls THEN None ELSE owner[l]]
      /\ todo' = [todo EXCEPT ![t] = s] /\ UNCHANGED <<call, rest, data, aborted>>
  BY DEF ReleaseLocks, At, Arg, Goes, rest
<1>2. x \in Steps /\ Good(call[t], After(H, x), s) /\ H # Never /\ Fits(call[t], H, x)
  BY <1>1, AtHead
<1>3. ls \subseteq H
  BY <1>1, <1>2 DEF Fits, Twice
<1>4. owner \in [Locks -> Threads \cup {None}]
  BY DEF LockInv, TypeOK
<1>5. /\ owner' \in [Locks -> Threads \cup {None}]
      /\ \A l \in Locks : owner'[l] = IF l \in ls THEN None ELSE owner[l]
  BY <1>1, <1>4
<1>6. After(H, x) = H \ ls
  BY <1>1, <1>2 DEF After, Twice
<1> HIDE DEF x, s, ls
<1>7. Holds(t)' = H \ ls
  BY <1>5, ThreadFacts DEF Holds
<1>8. \A u \in Threads : u # t => Holds(u)' = Holds(u)
  BY <1>3, <1>5, ThreadFacts DEF Holds
<1> HIDE DEF H
<1>9. Disciplined'
  <2> DEFINE G == After(H, x)
  <2>1. G = Holds(t)' /\ Good(call[t], G, s)
    BY <1>2, <1>6, <1>7
  <2> HIDE DEF G
  <2> QED BY <1>1, <1>8, <2>1, OneMoves
<1>10. TypeOK'
  BY <1>1, <1>5 DEF LockInv, TypeOK, rest, data
<1> QED BY <1>9, <1>10 DEF LockInv

\* The steps that edit what the early returns look at.
LEMMA PlainKept ==
  ASSUME LockInv, NEW t \in Threads,
         \/ PassLock(t) \/ AskReader(t) \/ AskListener(t) \/ EndThread(t) \/ Put(t)
         \/ EditTables(t) \/ AssertDevice(t)
  PROVE  LockInv'
<1> DEFINE x == Head(todo[t])
<1>1. /\ ~Idle(t) /\ Goes(t) /\ UNCHANGED <<owner, call>>
      /\ x.what \notin {"lock", "release"}
      /\ x.what = "pass" => owner[Arg(t)] = None
  BY DEF PassLock, AskReader, AskListener, EndThread, Put, EditTables, AssertDevice, At, rest
<1>2. Disciplined'
  BY <1>1, QuietMove
<1>3. x \in Steps
  BY <1>1, AtHead
<1>4. /\ x.what \in {"add", "delete", "table", "untable", "put"} => Arg(t) \in Fds
      /\ x.what = "end" => Arg(t) \in PollThreads
  BY <1>3, StepArgs DEF Arg
<1>5. TypeOK'
  <2>1. CASE PassLock(t)
    BY <2>1 DEF PassLock, LockInv, TypeOK, rest, data
  <2>2. CASE AskReader(t)
    BY <1>4, <2>2 DEF AskReader, At, LockInv, TypeOK, rest
  <2>3. CASE AskListener(t)
    <3>1. listening' \in BOOLEAN
      BY <2>3, Zenon DEF AskListener, At
    <3> QED BY <2>3, <3>1 DEF AskListener, LockInv, TypeOK, rest
  <2>4. CASE EndThread(t)
    BY <1>4, <2>4 DEF EndThread, At, LockInv, TypeOK, data
  <2>5. CASE Put(t)
    <3>1. Arg(t) \in Fds /\ pipe \in Seq(Fds) /\ Len(pipe) < PipeCap /\ pipe' = Append(pipe, Arg(t))
      BY <1>4, <2>5 DEF Put, At, LockInv, TypeOK
    <3>2. pipe' \in Seq(Fds) /\ Len(pipe') <= PipeCap
      BY <3>1, LocksAssumption
    <3> QED BY <2>5, <3>2 DEF Put, LockInv, TypeOK, rest
  <2>6. CASE EditTables(t)
    <3>1. registered' \in BOOLEAN
      <4>1. registered \in BOOLEAN
        BY DEF LockInv, TypeOK
      <4> QED BY <2>6, <4>1, Zenon DEF EditTables, At
    <3>2. tabled' \subseteq Fds
      BY <1>4, <2>6 DEF EditTables, At, LockInv, TypeOK
    <3> QED BY <2>6, <3>1, <3>2 DEF EditTables, LockInv, TypeOK, rest
  <2>7. CASE AssertDevice(t)
    BY <2>7 DEF AssertDevice, LockInv, TypeOK, rest, data
  <2> QED BY <2>1, <2>2, <2>3, <2>4, <2>5, <2>6, <2>7
<1> QED BY <1>2, <1>5 DEF LockInv

\* A table entry that cannot be made.
LEMMA TableFailsKept ==
  ASSUME LockInv, NEW t \in Threads, TableFails(t)
  PROVE  LockInv'
<1> DEFINE x == Head(todo[t])
           s == (<<Release(Three)>> \o LockThree \o <<Release(Three)>>)
<1>1. /\ ~Idle(t) /\ x.what = "table" /\ todo' = [todo EXCEPT ![t] = s]
      /\ UNCHANGED <<owner, data, rest, aborted>>
  BY DEF TableFails, At
<1>2. Fits(call[t], Holds(t), x) /\ Holds(t) # Never
  BY <1>1, AtHead
<1>3. Holds(t) = Three
  BY <1>1, <1>2 DEF Fits, Twice
<1>4. Good(call[t], Three, s)
  <2>1. Lock("dev") \in Steps /\ Lock("chan") \in Steps /\ Lock("rw") \in Steps
        /\ Release(Three) \in Steps
    BY StepTypes, LockSets
  <2>2. s \in Seq(Steps)
    BY <2>1 DEF LockThree
  <2>3. Good(call[t], Three, s \o <<>>)
    BY GoodNil, GoodTableFails
  <2> HIDE DEF s
  <2> QED BY <2>2, <2>3, GoodWhole
<1> HIDE DEF s
<1>5. Disciplined'
  BY <1>1, <1>3, <1>4, QuietReplace DEF rest
<1>6. TypeOK'
  BY <1>1 DEF LockInv, TypeOK, rest, data
<1> QED BY <1>5, <1>6 DEF LockInv

\* A lookup that may fail: all locks are released.
LEMMA LookupKept ==
  ASSUME LockInv, NEW t \in Threads, Lookup(t)
  PROVE  LockInv'
<1> DEFINE x == Head(todo[t])
           mine == Holds(t)
           s == <<Release(mine)>>
<1>1. /\ ~Idle(t) /\ x.what \in {"find", "finddev"} /\ UNCHANGED <<owner, data, rest, aborted>>
      /\ todo' = [todo EXCEPT ![t] = IF Found(t) THEN Tail(todo[t]) ELSE <<Release(mine)>>]
  BY DEF Lookup, At, Holds
<1>2. UNCHANGED <<owner, call>>
  BY <1>1 DEF rest
<1>3. ASSUME Found(t) PROVE Disciplined'
  <2>1. Goes(t)
    BY <1>1, <1>3 DEF Goes
  <2> QED BY <1>1, <1>2, <2>1, QuietMove
<1>4. ASSUME ~Found(t) PROVE Disciplined'
  <2>1. mine \in SUBSET Locks
    BY DEF Holds
  <2>2. Good(call[t], mine, s \o <<>>)
    <3>1. mine \ mine = {} /\ mine \in SUBSET mine
      OBVIOUS
    <3> HIDE DEF mine
    <3> QED BY <2>1, <3>1, GoodNil, GoodRelease
  <2>3. s \in Seq(Steps)
    <3>1. Release(mine) \in Steps
      BY <2>1, StepTypes
    <3> QED BY <3>1
  <2>4. todo' = [todo EXCEPT ![t] = s]
    BY <1>1, <1>4
  <2> HIDE DEF s
  <2>5. Good(call[t], mine, s)
    BY <2>2, <2>3, GoodWhole
  <2> QED BY <1>2, <2>4, <2>5, QuietReplace
<1>5. TypeOK'
  BY <1>1 DEF LockInv, TypeOK, rest, data
<1> QED BY <1>3, <1>4, <1>5 DEF LockInv

\* The loops over sockets and devices.
LEMMA WalkKept ==
  ASSUME LockInv, NEW t \in Threads, Walk(t)
  PROVE  LockInv'
<1> DEFINE x == Head(todo[t])
           s == Tail(todo[t])
<1>1. ~Idle(t) /\ x.what \in {"walk", "devices"} /\ UNCHANGED <<owner, data, rest, aborted>>
  BY DEF Walk, At
<1>2. UNCHANGED <<owner, call>>
  BY <1>1 DEF rest
<1>3. /\ Fits(call[t], Holds(t), x) /\ Holds(t) # Never /\ s \in Seq(Steps)
      /\ Good(call[t], After(Holds(t), x), s)
  BY <1>1, AtHead
<1>4. After(Holds(t), x) = Holds(t)
  BY <1>1, <1>3 DEF After, Twice
<1>5. \/ Goes(t)
      \/ x.what = "walk" /\ \E fd \in tabled : todo' = [todo EXCEPT ![t] = CloseConn(fd) \o todo[t]]
      \/ x.what = "devices" /\ todo' = [todo EXCEPT ![t] = DevFreeLockfree \o s]
  BY DEF Walk, At, Goes
<1>6. ASSUME Goes(t) PROVE Disciplined'
  BY <1>1, <1>2, <1>6, QuietMove
<1>7. ASSUME x.what = "walk", NEW fd \in tabled, todo' = [todo EXCEPT ![t] = CloseConn(fd) \o todo[t]]
      PROVE  Disciplined'
  <2>1. Holds(t) = Three /\ call[t] \in TearDown
    BY <1>3, <1>7 DEF Fits, Twice
  <2>2. fd \in Fds /\ Good(call[t], Three, todo[t])
    BY <2>1 DEF LockInv, TypeOK, Disciplined
  <2>3. Good(call[t], Holds(t), CloseConn(fd) \o todo[t])
    BY <2>1, <2>2, GoodCloseConn
  <2> QED BY <1>2, <1>7, <2>3, QuietReplace
<1>8. ASSUME x.what = "devices", todo' = [todo EXCEPT ![t] = DevFreeLockfree \o s]
      PROVE  Disciplined'
  <2>1. Holds(t) = {"dev"} /\ call[t] = "lib_free"
    BY <1>3, <1>8 DEF Fits, Twice
  <2>2. Good(call[t], Holds(t), s)
    BY <1>3, <1>4
  <2> HIDE DEF s, x
  <2>3. Good(call[t], Holds(t), DevFreeLockfree \o s)
    BY <2>1, <2>2, GoodDevFreeLockfree DEF TearDown
  <2> QED BY <1>2, <1>8, <2>3, QuietReplace
<1>9. TypeOK'
  BY <1>1 DEF LockInv, TypeOK, rest, data
<1> QED BY <1>5, <1>6, <1>7, <1>8, <1>9 DEF LockInv

\* accept_func and recv_func.
LEMMA CallBackKept ==
  ASSUME LockInv, NEW t \in Threads, CallBack(t)
  PROVE  LockInv'
<1> DEFINE x == Head(todo[t])
           s == Tail(todo[t])
           fd == x.arg
<1>1. ~Idle(t) /\ x.what = "callback" /\ UNCHANGED <<owner, data, rest, aborted>>
  BY DEF CallBack, At
<1>2. UNCHANGED <<owner, call>>
  BY <1>1 DEF rest
<1>3. /\ Fits(call[t], Holds(t), x) /\ Holds(t) # Never /\ s \in Seq(Steps) /\ x \in Steps
      /\ Good(call[t], After(Holds(t), x), s)
  BY <1>1, AtHead
<1>4. After(Holds(t), x) = Holds(t) /\ fd \in Fds
  BY <1>1, <1>3, StepArgs DEF After, Twice
<1>5. \/ Goes(t)
      \/ \E name \in CallbackCalls : \E p \in Paths(name, fd) : todo' = [todo EXCEPT ![t] = p \o s]
  BY DEF CallBack, Arg
<1>6. ASSUME Goes(t) PROVE Disciplined'
  BY <1>1, <1>2, <1>6, QuietMove
<1>7. ASSUME NEW name \in CallbackCalls, NEW p \in Paths(name, fd),
             todo' = [todo EXCEPT ![t] = p \o s]
      PROVE  Disciplined'
  <2>1. (call[t] = "accept" /\ Holds(t) = {"dev"}) \/ (call[t] = "receive" /\ Holds(t) = Three)
    BY <1>1, <1>3 DEF Fits, Twice
  <2>2. Good(call[t], Holds(t), s)
    BY <1>3, <1>4
  <2> HIDE DEF s, x, fd
  <2>3. Good(call[t], Holds(t), p \o s)
    BY <1>4, <2>1, <2>2, GoodCallbackCalls
  <2> QED BY <1>2, <1>7, <2>3, QuietReplace
<1>8. TypeOK'
  BY <1>1 DEF LockInv, TypeOK, rest, data
<1> QED BY <1>5, <1>6, <1>7, <1>8 DEF LockInv

\* A thread of the application enters the library.
LEMMA BeginKept ==
  ASSUME LockInv, NEW a \in Apps, NEW name \in Names, NEW fd \in Fds, Begin(a, name, fd)
  PROVE  LockInv'
<1>1. PICK p \in Paths(name, fd) : todo' = [todo EXCEPT ![a] = p]
  BY DEF Begin
<1>2. Good(name, {}, p) /\ a \in Threads
  BY GoodPaths, ThreadFacts
<1>3. Idle(a) /\ call' = [call EXCEPT ![a] = name] /\ UNCHANGED owner
  BY DEF Begin
<1>4. Disciplined'
  BY <1>1, <1>2, <1>3, OneBegins
<1>5. freeing' \in BOOLEAN /\ overlapped' \in BOOLEAN
  BY Zenon DEF Begin, LockInv, TypeOK
<1>6. calls' \in 0 .. MaxCalls
  BY LocksAssumption DEF Begin, LockInv, TypeOK
<1>7. \A t \in Threads : call'[t] \in Names \cup {"idle", "accept", "receive", "pollout"}
  BY <1>4 DEF Disciplined
<1>8. TypeOK'
  BY <1>5, <1>6, <1>7 DEF Begin, LockInv, TypeOK
<1> QED BY <1>4, <1>8 DEF LockInv

\* A poll thread enters a callback.
LEMMA EventKept ==
  ASSUME LockInv, NEW fd \in Fds, ListenPollin(fd) \/ RwPollin(fd) \/ RwPollout(fd)
  PROVE  LockInv'
<1>1. CASE ListenPollin(fd)
  <2>1. /\ Idle(Listener) /\ todo' = [todo EXCEPT ![Listener] = Accept(fd)]
        /\ call' = [call EXCEPT ![Listener] = "accept"] /\ UNCHANGED owner
    BY <1>1 DEF ListenPollin, Event, Serves
  <2>2. Disciplined'
    BY <2>1, GoodAccept, ThreadFacts, OneBegins
  <2>3. events' \in 0 .. MaxEvents
    BY <1>1, LocksAssumption DEF ListenPollin, Event, LockInv, TypeOK
  <2>4. TypeOK'
    BY <1>1, <2>2, <2>3 DEF ListenPollin, Event, LockInv, TypeOK, Disciplined
  <2> QED BY <2>2, <2>4 DEF LockInv
<1>2. CASE RwPollin(fd)
  <2>1. /\ Idle(Reader) /\ todo' = [todo EXCEPT ![Reader] = Receive(fd)]
        /\ call' = [call EXCEPT ![Reader] = "receive"] /\ UNCHANGED owner
    BY <1>2 DEF RwPollin, Event, Serves
  <2>2. Good("receive", {}, Receive(fd))
    BY GoodNil, GoodReceive, PathTypes, GoodWhole
  <2>3. Disciplined'
    BY <2>1, <2>2, ThreadFacts, OneBegins
  <2>4. events' \in 0 .. MaxEvents
    BY <1>2, LocksAssumption DEF RwPollin, Event, LockInv, TypeOK
  <2>5. TypeOK'
    BY <1>2, <2>3, <2>4 DEF RwPollin, Event, LockInv, TypeOK, Disciplined
  <2> QED BY <2>3, <2>5 DEF LockInv
<1>3. CASE RwPollout(fd)
  <2>1. PICK p \in Pollout : todo' = [todo EXCEPT ![Reader] = p]
    BY <1>3 DEF RwPollout
  <2>2. Idle(Reader) /\ call' = [call EXCEPT ![Reader] = "pollout"] /\ UNCHANGED owner
    BY <1>3 DEF RwPollout, Serves
  <2>3. Good("pollout", {}, p)
    <3> DEFINE q == <<Lock("chan"), Pass("rw"), Release({"chan"})>>
    <3>1. Lock("chan") \in Steps /\ Pass("rw") \in Steps /\ Release({"chan"}) \in Steps
      BY StepTypes, LockSets
    <3>2. q \in Seq(Steps)
      BY <3>1
    <3>3. Good("pollout", {}, q \o <<>>)
      BY GoodNil, GoodUdpPollout
    <3>4. p = <<>> \/ p = q
      BY DEF Pollout
    <3> HIDE DEF q
    <3> QED BY <3>2, <3>3, <3>4, GoodNil, GoodWhole
  <2>4. Disciplined'
    BY <2>1, <2>2, <2>3, ThreadFacts, OneBegins
  <2>5. TypeOK'
    BY <1>3, <2>4 DEF RwPollout, LockInv, TypeOK, Disciplined
  <2> QED BY <2>4, <2>5 DEF LockInv
<1> QED BY <1>1, <1>2, <1>3

\* Every step keeps the discipline.
LEMMA NextLockInv ==
  ASSUME LockInv, [Next]_vars
  PROVE  LockInv'
<1>1. CASE TakeMessage
  <2>1. pipe \in Seq(Fds) /\ pipe # <<>> /\ pipe' = Tail(pipe) /\ Len(pipe) <= PipeCap
    BY <1>1 DEF TakeMessage, LockInv, TypeOK
  <2>2. Head(pipe) \in Fds /\ pipe' \in Seq(Fds) /\ Len(pipe') <= PipeCap
    BY <2>1, LocksAssumption
  <2>3. TypeOK'
    BY <1>1, <2>2 DEF TakeMessage, LockInv, TypeOK
  <2>4. Disciplined'
    BY <1>1 DEF TakeMessage, LockInv, Disciplined, Holds
  <2> QED BY <2>3, <2>4 DEF LockInv
<1>2. ASSUME NEW t \in Threads, Step(t) PROVE LockInv'
  BY <1>2, TakeLockKept, ReleaseLocksKept, PlainKept, TableFailsKept, LookupKept, WalkKept,
     CallBackKept DEF Step
<1>3. CASE UNCHANGED vars
  BY <1>3 DEF vars, LockInv, TypeOK, Disciplined, Holds
<1> QED BY <1>1, <1>2, <1>3, BeginKept, EventKept DEF Next, Inside
-----------------------------------------------------------------------------
(* The deadlocks *)

\* A thread that waits, for none of the five reasons, waits for a lock above
\* those it holds, or for a poll thread and holds nothing.  The read-write
\* thread waits for locks only, the listen thread also for the read-write one.
LEMMA WaitFacts ==
  ASSUME LockInv, NEW t \in Threads, WaitsFor(t) # None, WaitsFor(t) # t,
         ~AsksLocked(t), ~Reversed(t), ~PipeFull(t)
  PROVE  \/ /\ Arg(t) \in Locks /\ WaitsFor(t) = owner[Arg(t)]
            /\ Holds(t) \subseteq Before(Arg(t))
         \/ /\ Holds(t) = {} /\ WaitsFor(t) \in PollThreads /\ t # Reader
            /\ t = Listener => WaitsFor(t) = Reader
<1> DEFINE x == Head(todo[t])
           H == Holds(t)
<1>1. ~Idle(t)
  BY DEF WaitsFor, At
<1>2. x \in Steps /\ Fits(call[t], H, x) /\ H # Never
  BY <1>1, AtHead
<1>3. /\ call[Listener] \in {"idle", "accept"} /\ call[Reader] \in {"idle", "receive", "pollout"}
  BY DEF LockInv, Disciplined
<1>4. CASE At(t, "lock") \/ At(t, "pass")
  <2>1. x.what \in {"lock", "pass"} /\ WaitsFor(t) = owner[Arg(t)] /\ Arg(t) = x.arg
    BY <1>4 DEF WaitsFor, At, Arg
  <2>2. Arg(t) \in Locks
    BY <1>2, <2>1, StepArgs
  <2>3. ~Twice(H, x)
    BY <2>1 DEF Twice, Holds
  <2>4. ~(x.what = "lock" /\ x.arg = "chan" /\ H = {"rw"} /\ call[t] = "lib_free")
    BY <1>4, <2>1 DEF Reversed, At
  <2>5. H \subseteq Before(x.arg)
    BY <1>2, <2>1, <2>3, <2>4 DEF Fits
  <2> QED BY <2>1, <2>2, <2>5
<1>5. CASE ~(At(t, "lock") \/ At(t, "pass"))
  <2>1. x.what \in {"add", "delete", "listen", "unlisten", "end"}
    BY <1>5 DEF WaitsFor, At, PipeFull
  <2>2. /\ x.what \in {"add", "delete"} => WaitsFor(t) = Reader
        /\ x.what \in {"listen", "unlisten"} => WaitsFor(t) = Listener
        /\ x.what = "end" => WaitsFor(t) = Arg(t)
    BY <1>5, <2>1 DEF WaitsFor, At
  <2>3. WaitsFor(t) \in PollThreads
    BY <1>2, <2>1, <2>2, StepArgs DEF Arg, PollThreads
  <2>4. \/ x.what = "add" /\ H = {} /\ call[t] \in {"create", "accept"}
        \/ x.what = "listen" /\ H = {} /\ call[t] = "register"
        \/ call[t] \in TearDown
    BY <1>2, <2>1 DEF Fits, Twice
  <2>5. H = {}
    BY <2>3, <2>4 DEF AsksLocked
  <2>6. t # Reader /\ (t = Listener => x.what = "add")
    BY <1>3, <2>4 DEF TearDown
  <2> QED BY <2>2, <2>3, <2>5, <2>6
<1> QED BY <1>4, <1>5

\* Threads that wait for one another without one of the five reasons would
\* climb the order of the locks for ever.
LEMMA NoOtherDeadlock ==
  ASSUME LockInv PROVE KnownDeadlocksOnly
<1> SUFFICES ASSUME NEW S \in Deadlocks,
                    \A t \in S : ~(\/ AsksLocked(t) \/ Reversed(t) \/ PipeFull(t)
                                   \/ WaitsFor(t) = t \/ WaitsFor(t) \in ended)
             PROVE  FALSE
  BY DEF KnownDeadlocksOnly
<1>1. S # {} /\ \A t \in S : t \in Threads /\ WaitsFor(t) # None /\ WaitsFor(t) \in S
  BY DEF Deadlocks, Waiting
<1> DEFINE Climbs(t) == /\ Arg(t) \in Locks /\ owner[Arg(t)] \in S
                        /\ Holds(t) \subseteq Before(Arg(t))
           Asks(t) == /\ Holds(t) = {} /\ WaitsFor(t) \in PollThreads /\ t # Reader
                      /\ t = Listener => WaitsFor(t) = Reader
<1>2. ASSUME NEW t \in S PROVE Climbs(t) \/ Asks(t)
  BY <1>1, WaitFacts
<1>3. ASSUME NEW t \in S, Climbs(t)
      PROVE  \E u \in S : Climbs(u) /\ Arg(t) \in Before(Arg(u))
  <2> DEFINE u == owner[Arg(t)]
  <2>1. u \in S /\ Arg(t) \in Holds(u)
    BY <1>3 DEF Holds
  <2>2. ~Asks(u)
    BY <2>1
  <2>3. Climbs(u)
    BY <1>2, <2>1, <2>2
  <2> QED BY <2>1, <2>3
<1>4. ASSUME NEW t \in S PROVE ~Climbs(t)
  <2> HIDE DEF Climbs
  <2>1. \A u \in S : Climbs(u) => Arg(u) \in Locks
    BY DEF Climbs
  <2>2. \A u \in S : Climbs(u) => Arg(u) # "list"
    BY <1>3, <2>1 DEF Locks, Before
  <2>3. \A u \in S : Climbs(u) => Arg(u) # "rw"
    BY <1>3, <2>1, <2>2 DEF Locks, Before
  <2>4. \A u \in S : Climbs(u) => Arg(u) # "chan"
    BY <1>3, <2>1, <2>2, <2>3 DEF Locks, Before
  <2>5. \A u \in S : Climbs(u) => Arg(u) # "dev"
    BY <1>3, <2>1, <2>2, <2>3, <2>4 DEF Locks, Before
  <2> QED BY <2>1, <2>2, <2>3, <2>4, <2>5 DEF Locks
<1>5. PICK t \in S : TRUE
  BY <1>1
<1>6. \A u \in S : Asks(u)
  BY <1>2, <1>4
<1>7. Reader \notin S
  BY <1>6
<1>8. WaitsFor(t) \in S /\ WaitsFor(t) \in PollThreads
  BY <1>1, <1>5, <1>6
<1>9. WaitsFor(t) = Listener
  BY <1>7, <1>8 DEF PollThreads
<1>10. Listener \in S
  BY <1>8, <1>9
<1>11. WaitsFor(Listener) = Reader
  BY <1>6, <1>10
<1> QED BY <1>1, <1>7, <1>10, <1>11

\* The locks are taken in order, from the first call to the last: the
\* invariant behind the theorem that follows.
THEOREM LockInvariance == Spec => []LockInv
<1>1. Init => LockInv
  <2> SUFFICES ASSUME Init PROVE LockInv
    OBVIOUS
  <2>1. \A t \in Threads : Holds(t) = {}
    BY ThreadFacts DEF Init, Holds
  <2>2. Disciplined
    <3>1. /\ todo \in [Threads -> Seq(Steps)] /\ \A t \in Threads : todo[t] = <<>>
          /\ call \in [Threads -> {"idle"}]
      BY DEF Init
    <3>2. \A t \in Threads : Good(call[t], Holds(t), todo[t])
      BY <2>1, <3>1, GoodNil
    <3> QED BY <3>1, <3>2, ThreadFacts DEF Disciplined
  <2>3. TypeOK
    <3>1. /\ owner \in [Locks -> Threads \cup {None}]
          /\ \A t \in Threads : call[t] = "idle"
      BY DEF Init
    <3>2. pipe \in Seq(Fds) /\ Len(pipe) <= PipeCap
      BY LocksAssumption DEF Init
    <3>3. /\ registered \in BOOLEAN /\ listening \in BOOLEAN
          /\ tabled \subseteq Fds /\ polled \subseteq Fds /\ held \subseteq Fds
          /\ ended \subseteq PollThreads
          /\ freeing \in BOOLEAN /\ overlapped \in BOOLEAN /\ aborted \in BOOLEAN
      BY DEF Init
    <3>4. calls \in 0 .. MaxCalls /\ events \in 0 .. MaxEvents
      BY LocksAssumption DEF Init
    <3> QED BY <3>1, <3>2, <3>3, <3>4 DEF TypeOK
  <2> QED BY <2>2, <2>3 DEF LockInv
<1>2. LockInv /\ [Next]_vars => LockInv'
  BY NextLockInv
<1> QED BY <1>1, <1>2, PTL DEF Spec

\* Every deadlock of the library, with any number of application threads,
\* sockets and calls, has one of the five known causes.
THEOREM KnownDeadlocksOnlyHolds == Spec => []KnownDeadlocksOnly
<1>1. LockInv => KnownDeadlocksOnly
  BY NoOtherDeadlock
<1> QED BY <1>1, LockInvariance, PTL
-----------------------------------------------------------------------------
(* An application that makes its calls one at a time: where its threads can be *)

\* The steps of r are left in s, after some steps of X.
Upto(X, s, r) ==
  \E k \in 0 .. Len(s) : SubSeq(s, k + 1, Len(s)) = r /\ \A i \in 1 .. k : s[i] \in X

\* Steps that change neither the tables nor what is polled.
Plain == {x \in Steps : x.what \in {"lock", "pass", "release", "find", "finddev", "put", "assert"}}

\* The last steps of cc_of_lib_free: from the clearing of the tables on, and
\* from the end of the devices on.
Finish == {x \in Steps : x.what \in {"clear", "release", "end"} \/ x = Lock("list")}
Cleanup == <<Do("clear", None), Release({"chan", "rw"}), Do("end", Listener), Lock("list"),
             Do("end", Reader), Release({"list"})>>
LastPart == <<Release({"dev"}), Lock("rw"), Lock("chan")>> \o Cleanup

\* The last steps of freeing a device, in cc_of_lib_free and in cc_of_dev_free.
Ending(c) == IF c = "lib_free"
             THEN <<Release({"chan", "rw"}), Do("unregister", None)>> \o LastPart
             ELSE <<Do("unregister", None), Release(Three)>>
Loop(c) == <<Do("walk", None), Do("unlisten", None)>> \o Ending(c)

\* The listen thread, after the ADD of the socket it accepted.
Tell(fd) == <<Lock("dev"), Do("finddev", None), Do("callback", fd), Release({"dev"}), Pass("rw")>>

\* Nothing done yet.
LEMMA UptoNil ==
  ASSUME NEW X, NEW s \in Seq(Steps)
  PROVE  Upto(X, s, s)
<1>1. SubSeq(s, 0 + 1, Len(s)) = s /\ 0 \in 0 .. Len(s) /\ 1 .. 0 = {}
  OBVIOUS
<1> QED BY <1>1 DEF Upto

\* One more step in front.
LEMMA UptoCons ==
  ASSUME NEW X, NEW x \in X, x \in Steps, NEW s \in Seq(Steps), NEW r, Upto(X, s, r)
  PROVE  Upto(X, <<x>> \o s, r)
<1> DEFINE t == <<x>> \o s
<1>1. PICK k \in 0 .. Len(s) : SubSeq(s, k + 1, Len(s)) = r /\ \A i \in 1 .. k : s[i] \in X
  BY DEF Upto
<1>2. /\ t \in Seq(Steps) /\ Len(t) = Len(s) + 1 /\ Len(s) \in Nat
      /\ t[1] = x /\ \A i \in 1 .. Len(s) : t[i + 1] = s[i]
  OBVIOUS
<1> HIDE DEF t
<1>3. SubSeq(t, (k + 1) + 1, Len(t)) = SubSeq(s, k + 1, Len(s))
  <2> DEFINE u == SubSeq(t, (k + 1) + 1, Len(t))
             v == SubSeq(s, k + 1, Len(s))
  <2>1. /\ u \in Seq(Steps) /\ Len(u) = Len(s) - k
        /\ \A i \in 1 .. Len(s) - k : u[i] = t[(k + 1) + i]
    BY <1>2, SubSeqProperties
  <2>2. /\ v \in Seq(Steps) /\ Len(v) = Len(s) - k
        /\ \A i \in 1 .. Len(s) - k : v[i] = s[k + i]
    BY <1>2, SubSeqProperties
  <2>3. \A i \in 1 .. Len(s) - k : t[(k + 1) + i] = s[k + i]
    <3> TAKE i \in 1 .. Len(s) - k
    <3>1. k + i \in 1 .. Len(s) /\ (k + i) + 1 = (k + 1) + i
      BY <1>2
    <3> QED BY <1>2, <3>1
  <2> HIDE DEF u, v
  <2> QED BY <2>1, <2>2, <2>3, SeqEqual DEF u, v
<1>4. \A i \in 1 .. k + 1 : t[i] \in X
  <2> TAKE i \in 1 .. k + 1
  <2>1. CASE i = 1
    BY <1>2, <2>1
  <2>2. CASE i # 1
    <3>1. i - 1 \in 1 .. k /\ i - 1 \in 1 .. Len(s) /\ (i - 1) + 1 = i
      BY <1>2, <2>2
    <3> QED BY <1>1, <1>2, <3>1
  <2> QED BY <2>1, <2>2
<1>5. k + 1 \in 0 .. Len(t)
  BY <1>2
<1> QED BY <1>1, <1>3, <1>4, <1>5 DEF Upto, t

\* Doing the first step.
LEMMA UptoStep ==
  ASSUME NEW X, NEW s \in Seq(Steps), s # <<>>, NEW r, Upto(X, s, r)
  PROVE  s = r \/ (Head(s) \in X /\ Upto(X, Tail(s), r))
<1> DEFINE t == Tail(s)
<1>1. PICK k \in 0 .. Len(s) : SubSeq(s, k + 1, Len(s)) = r /\ \A i \in 1 .. k : s[i] \in X
  BY DEF Upto
<1>2. /\ t \in Seq(Steps) /\ Len(t) = Len(s) - 1 /\ Len(s) \in Nat /\ Len(s) >= 1
      /\ Head(s) = s[1] /\ \A i \in 1 .. Len(t) : t[i] = s[i + 1]
  OBVIOUS
<1> HIDE DEF t
<1>3. CASE k = 0
  BY <1>1, <1>3
<1>4. CASE k # 0
  <2>1. k - 1 \in 0 .. Len(t) /\ k >= 1 /\ k <= Len(s) /\ (k - 1) + 1 = k
    BY <1>2, <1>4
  <2>2. SubSeq(t, (k - 1) + 1, Len(t)) = SubSeq(s, k + 1, Len(s))
    <3> DEFINE u == SubSeq(t, (k - 1) + 1, Len(t))
               v == SubSeq(s, k + 1, Len(s))
    <3>1. /\ u \in Seq(Steps) /\ Len(u) = Len(s) - k
          /\ \A i \in 1 .. Len(s) - k : u[i] = t[(k - 1) + i]
      BY <1>2, <2>1, SubSeqProperties
    <3>2. /\ v \in Seq(Steps) /\ Len(v) = Len(s) - k
          /\ \A i \in 1 .. Len(s) - k : v[i] = s[k + i]
      BY <1>2, <2>1, SubSeqProperties
    <3>3. \A i \in 1 .. Len(s) - k : t[(k - 1) + i] = s[k + i]
      <4> TAKE i \in 1 .. Len(s) - k
      <4>1. (k - 1) + i \in 1 .. Len(t) /\ ((k - 1) + i) + 1 = k + i
        BY <1>2, <2>1
      <4> QED BY <1>2, <4>1
    <3> HIDE DEF u, v
    <3> QED BY <3>1, <3>2, <3>3, SeqEqual DEF u, v
  <2>3. \A i \in 1 .. k - 1 : t[i] \in X
    <3> TAKE i \in 1 .. k - 1
    <3>1. i + 1 \in 1 .. k /\ i \in 1 .. Len(t)
      BY <1>2, <2>1
    <3> QED BY <1>1, <1>2, <3>1
  <2>4. s[1] \in X
    BY <1>1, <2>1
  <2> QED BY <1>1, <1>2, <2>1, <2>2, <2>3, <2>4 DEF Upto, t
<1> QED BY <1>3, <1>4

\* A step that is left to do is in the sequence.
LEMMA UptoHas ==
  ASSUME NEW X, NEW s \in Seq(Steps), NEW r, Upto(X, s, r), NEW j \in 1 .. Len(r)
  PROVE  \E i \in 1 .. Len(s) : s[i] = r[j]
<1>1. PICK k \in 0 .. Len(s) : SubSeq(s, k + 1, Len(s)) = r
  BY DEF Upto
<1>2. Len(s) \in Nat /\ k \in Nat /\ k <= Len(s)
  OBVIOUS
<1> DEFINE v == SubSeq(s, k + 1, Len(s))
<1>3. /\ Len(v) = Len(s) - k
      /\ \A i \in 1 .. Len(s) - k : v[i] = s[k + i]
  BY <1>2, SubSeqProperties
<1> HIDE DEF v
<1>4. v = r
  BY <1>1 DEF v
<1>5. k + j \in 1 .. Len(s) /\ j \in 1 .. Len(s) - k
  BY <1>2, <1>3, <1>4
<1> QED BY <1>3, <1>4, <1>5

\* A step of the sequence is left to do, or it is one of X.
LEMMA UptoFrom ==
  ASSUME NEW X, NEW s \in Seq(Steps), NEW r, Upto(X, s, r), NEW i \in 1 .. Len(s), s[i] \notin X
  PROVE  \E j \in 1 .. Len(r) : s[i] = r[j]
<1>1. PICK k \in 0 .. Len(s) : SubSeq(s, k + 1, Len(s)) = r /\ \A m \in 1 .. k : s[m] \in X
  BY DEF Upto
<1>2. Len(s) \in Nat /\ k \in Nat /\ k <= Len(s)
  OBVIOUS
<1> DEFINE v == SubSeq(s, k + 1, Len(s))
<1>3. /\ Len(v) = Len(s) - k
      /\ \A m \in 1 .. Len(s) - k : v[m] = s[k + m]
  BY <1>2, SubSeqProperties
<1> HIDE DEF v
<1>4. v = r
  BY <1>1 DEF v
<1>5. i > k
  BY <1>1, <1>2
<1>6. i - k \in 1 .. Len(s) - k /\ i - k \in 1 .. Len(r) /\ k + (i - k) = i
  BY <1>2, <1>3, <1>4, <1>5
<1> QED BY <1>3, <1>4, <1>6

\* A step in front of a sequence.
LEMMA ConsParts ==
  ASSUME NEW x \in Steps, NEW s \in Seq(Steps)
  PROVE  /\ <<x>> \o s \in Seq(Steps) /\ <<x>> \o s # <<>>
         /\ Head(<<x>> \o s) = x /\ Tail(<<x>> \o s) = s
<1> DEFINE t == <<x>> \o s
<1>1. /\ t \in Seq(Steps) /\ Len(t) = Len(s) + 1 /\ t[1] = x /\ Len(s) \in Nat
      /\ \A i \in 1 .. Len(s) : t[i + 1] = s[i]
  OBVIOUS
<1> HIDE DEF t
<1>2. t # <<>> /\ Head(t) = x
  BY <1>1
<1>3. Tail(t) = s
  <2>1. Tail(t) \in Seq(Steps) /\ Len(Tail(t)) = Len(s) /\ \A i \in 1 .. Len(s) : Tail(t)[i] = t[i + 1]
    BY <1>1, <1>2
  <2> QED BY <1>1, <2>1, SeqEqual
<1> QED BY <1>1, <1>2, <1>3 DEF t
-----------------------------------------------------------------------------
(* What a step does, by the step at the head of the sequence *)

\* What the early returns look at stays as it is.
Same == UNCHANGED <<registered, listening, tabled, polled>>

\* The other threads and what a call never changes.
LEMMA StepOthers ==
  ASSUME LockInv, NEW t \in Threads, Step(t)
  PROVE  /\ ~Idle(t) /\ ~aborted /\ UNCHANGED <<ofdev_type, call, overlapped, freeing>>
         /\ \A u \in Threads : u # t => todo'[u] = todo[u]
<1>1. todo \in [Threads -> Seq(Steps)]
  BY DEF LockInv, Disciplined
<1>2. /\ ~Idle(t) /\ ~aborted /\ UNCHANGED <<ofdev_type, call, overlapped, freeing>>
  BY DEF Step, TakeLock, PassLock, ReleaseLocks, AskReader, AskListener, EndThread, Put, EditTables,
         TableFails, Lookup, AssertDevice, Walk, CallBack, At, rest
<1>3. \E s : todo' = [todo EXCEPT ![t] = s]
  <2>1. CASE Goes(t)
    BY <2>1 DEF Goes
  <2>2. CASE TableFails(t) \/ Lookup(t) \/ Walk(t) \/ CallBack(t)
    <3>1. CASE TableFails(t)
      BY <3>1 DEF TableFails
    <3>2. CASE Lookup(t)
      BY <3>2 DEF Lookup
    <3>3. CASE Walk(t)
      BY <3>3 DEF Walk, Goes
    <3>4. CASE CallBack(t)
      BY <3>4 DEF CallBack, Goes
    <3> QED BY <2>2, <3>1, <3>2, <3>3, <3>4
  <2> QED BY <2>1, <2>2 DEF Step, TakeLock, PassLock, ReleaseLocks, AskReader, AskListener, EndThread,
                            Put, EditTables, AssertDevice
<1> QED BY <1>1, <1>2, <1>3

\* The owners of the locks.
LEMMA StepOwner ==
  ASSUME LockInv, NEW t \in Threads, Step(t)
  PROVE  LET x == Head(todo[t]) IN
         /\ x.what \notin {"lock", "release"} => owner' = owner
         /\ x.what = "lock" => /\ x.arg \in Locks /\ owner[x.arg] = None /\ owner'[x.arg] = t
                               /\ \A l \in Locks : l # x.arg => owner'[l] = owner[l]
         /\ x.what = "release" =>
              /\ x.arg \subseteq Holds(t)
              /\ \A l \in Locks : owner'[l] = IF l \in x.arg THEN None ELSE owner[l]
         /\ x.what = "pass" => owner[x.arg] = None
<1> DEFINE x == Head(todo[t])
<1>1. owner \in [Locks -> Threads \cup {None}] /\ ~Idle(t)
  BY StepOthers DEF LockInv, TypeOK
<1>2. x \in Steps /\ Fits(call[t], Holds(t), x) /\ Holds(t) # Never
  BY <1>1, AtHead
<1>3. x.what = "lock" => x.arg \in Locks
  BY <1>2, StepArgs
<1>4. x.what = "release" => x.arg \subseteq Holds(t)
  BY <1>2 DEF Fits, Twice
<1>5. CASE TakeLock(t)
  BY <1>1, <1>3, <1>5 DEF TakeLock, At, Arg
<1>6. CASE ReleaseLocks(t)
  BY <1>1, <1>4, <1>6 DEF ReleaseLocks, At, Arg
<1>7. CASE ~TakeLock(t) /\ ~ReleaseLocks(t)
  <2>1. x.what \notin {"lock", "release"} /\ owner' = owner /\ (x.what = "pass" => owner[x.arg] = None)
    BY <1>7 DEF Step, PassLock, AskReader, AskListener, EndThread, Put, EditTables,
           TableFails, Lookup, AssertDevice, Walk, CallBack, At, Arg
  <2> QED BY <2>1
<1> QED BY <1>5, <1>6, <1>7

\* Steps that only wait, look or write a message.
LEMMA StepPlain ==
  ASSUME LockInv, NEW t \in Threads, Step(t),
         Head(todo[t]).what \in {"lock", "pass", "release", "put", "assert", "end"}
  PROVE  Same /\ todo'[t] = Tail(todo[t])
<1>1. todo \in [Threads -> Seq(Steps)]
  BY DEF LockInv, Disciplined
<1>2. Same /\ Goes(t)
  BY DEF Step, TakeLock, PassLock, ReleaseLocks, AskReader, AskListener, EndThread, Put, EditTables,
         TableFails, Lookup, AssertDevice, Walk, CallBack, At, Same, data
<1> QED BY <1>1, <1>2 DEF Goes

\* A lookup goes on or returns.
LEMMA StepLookup ==
  ASSUME LockInv, NEW t \in Threads, Step(t), Head(todo[t]).what \in {"find", "finddev"}
  PROVE  Same /\ \/ todo'[t] = Tail(todo[t])
                 \/ todo'[t] = <<Release(Holds(t))>>
<1>1. todo \in [Threads -> Seq(Steps)]
  BY DEF LockInv, Disciplined
<1>2. Lookup(t)
  BY DEF Step, TakeLock, PassLock, ReleaseLocks, AskReader, AskListener, EndThread, Put, EditTables,
         TableFails, AssertDevice, Walk, CallBack, At
<1> QED BY <1>1, <1>2 DEF Lookup, Same, data, Holds

\* Requests to the read-write thread.
LEMMA StepReader ==
  ASSUME LockInv, NEW t \in Threads, Step(t), Head(todo[t]).what \in {"add", "delete"}
  PROVE  /\ Idle(Reader) /\ UNCHANGED <<registered, listening, tabled>>
         /\ todo'[t] = Tail(todo[t]) /\ Head(todo[t]).arg \in Fds
         /\ Head(todo[t]).what = "add" => polled' = polled \cup {Head(todo[t]).arg}
         /\ Head(todo[t]).what = "delete" => polled' = polled \ {Head(todo[t]).arg}
<1>1. todo \in [Threads -> Seq(Steps)] /\ ~Idle(t)
  BY StepOthers DEF LockInv, Disciplined
<1>2. AskReader(t)
  BY DEF Step, TakeLock, PassLock, ReleaseLocks, AskListener, EndThread, Put, EditTables,
         TableFails, Lookup, AssertDevice, Walk, CallBack, At
<1>3. Head(todo[t]).arg \in Fds
  BY <1>1, AtHead, StepArgs
<1> QED BY <1>1, <1>2, <1>3 DEF AskReader, Goes, Serves, At, Arg

\* Requests to the listen thread.
LEMMA StepListener ==
  ASSUME LockInv, NEW t \in Threads, Step(t), Head(todo[t]).what \in {"listen", "unlisten"}
  PROVE  /\ Idle(Listener) /\ UNCHANGED <<registered, tabled, polled>>
         /\ todo'[t] = Tail(todo[t])
         /\ Head(todo[t]).what = "unlisten" => ~listening'
<1>1. todo \in [Threads -> Seq(Steps)] /\ ~Idle(t)
  BY StepOthers DEF LockInv, Disciplined
<1>2. AskListener(t)
  BY DEF Step, TakeLock, PassLock, ReleaseLocks, AskReader, EndThread, Put, EditTables,
         TableFails, Lookup, AssertDevice, Walk, CallBack, At
<1>3. Head(todo[t]).what = "unlisten" => ~listening'
  BY <1>2, Zenon DEF AskListener, At
<1> QED BY <1>1, <1>2, <1>3 DEF AskListener, Goes, Serves

\* The device comes and goes.
LEMMA StepDevice ==
  ASSUME LockInv, NEW t \in Threads, Step(t), Head(todo[t]).what \in {"register", "unregister"}
  PROVE  /\ UNCHANGED <<listening, tabled, polled>> /\ todo'[t] = Tail(todo[t])
         /\ Head(todo[t]).what = "register" => registered'
<1>1. todo \in [Threads -> Seq(Steps)] /\ ~Idle(t) /\ ~aborted
  BY StepOthers DEF LockInv, Disciplined
<1>2. EditTables(t)
  BY DEF Step, TakeLock, PassLock, ReleaseLocks, AskReader, AskListener, EndThread, Put,
         TableFails, Lookup, AssertDevice, Walk, CallBack, At
<1>3. Head(todo[t]).what = "register" => registered'
  BY <1>1, <1>2, Zenon DEF EditTables, At
<1> QED BY <1>1, <1>2, <1>3 DEF EditTables, Goes, At

\* Sockets come and go.
LEMMA StepTables ==
  ASSUME LockInv, NEW t \in Threads, Step(t), Head(todo[t]).what \in {"table", "untable", "clear"}
  PROVE  /\ UNCHANGED <<registered, listening, polled>>
         /\ Head(todo[t]).what = "table" =>
              \/ /\ registered /\ tabled' = tabled \cup {Head(todo[t]).arg}
                 /\ todo'[t] = Tail(todo[t])
              \/ /\ ~registered /\ tabled' = tabled
                 /\ todo'[t] = <<Release(Three)>> \o LockThree \o <<Release(Three)>>
         /\ Head(todo[t]).what = "untable" =>
              tabled' = tabled \ {Head(todo[t]).arg} /\ todo'[t] = Tail(todo[t])
         /\ Head(todo[t]).what = "clear" => tabled' = {} /\ todo'[t] = Tail(todo[t])
<1>1. todo \in [Threads -> Seq(Steps)]
  BY DEF LockInv, Disciplined
<1>2. EditTables(t) \/ TableFails(t)
  BY DEF Step, TakeLock, PassLock, ReleaseLocks, AskReader, AskListener, EndThread, Put,
         Lookup, AssertDevice, Walk, CallBack, At
<1>3. CASE EditTables(t)
  BY <1>1, <1>3 DEF EditTables, Goes, At, Arg
<1>4. CASE TableFails(t)
  BY <1>1, <1>4 DEF TableFails, At, data
<1> QED BY <1>2, <1>3, <1>4

\* The loops.
LEMMA StepWalk ==
  ASSUME LockInv, NEW t \in Threads, Step(t), Head(todo[t]).what \in {"walk", "devices"}
  PROVE  /\ Same
         /\ Head(todo[t]).what = "walk" =>
              \/ tabled = {} /\ todo'[t] = Tail(todo[t])
              \/ \E fd \in tabled : todo'[t] = CloseConn(fd) \o todo[t]
         /\ Head(todo[t]).what = "devices" =>
              \/ registered /\ todo'[t] = DevFreeLockfree \o Tail(todo[t])
              \/ ~registered /\ todo'[t] = Tail(todo[t])
<1>1. todo \in [Threads -> Seq(Steps)]
  BY DEF LockInv, Disciplined
<1>2. Walk(t)
  BY DEF Step, TakeLock, PassLock, ReleaseLocks, AskReader, AskListener, EndThread, Put, EditTables,
         TableFails, Lookup, AssertDevice, CallBack, At
<1> QED BY <1>1, <1>2 DEF Walk, Goes, At, Same, data

\* Callbacks.
LEMMA StepCallback ==
  ASSUME LockInv, NEW t \in Threads, Step(t), Head(todo[t]).what = "callback"
  PROVE  /\ Same
         /\ \/ todo'[t] = Tail(todo[t])
            \/ \E name \in CallbackCalls : \E p \in Paths(name, Head(todo[t]).arg) :
                 todo'[t] = p \o Tail(todo[t])
<1>1. todo \in [Threads -> Seq(Steps)]
  BY DEF LockInv, Disciplined
<1>2. CallBack(t)
  BY DEF Step, TakeLock, PassLock, ReleaseLocks, AskReader, AskListener, EndThread, Put, EditTables,
         TableFails, Lookup, AssertDevice, Walk, At
<1> QED BY <1>1, <1>2 DEF CallBack, Goes, Same, data, Arg

\* The device is gone afterwards.
LEMMA StepUnregister ==
  ASSUME LockInv, NEW t \in Threads, Step(t), Head(todo[t]).what = "unregister"
  PROVE  ~registered'
<1>1. EditTables(t)
  BY DEF Step, TakeLock, PassLock, ReleaseLocks, AskReader, AskListener, EndThread, Put,
         TableFails, Lookup, AssertDevice, Walk, CallBack, At
<1> QED BY <1>1, Zenon DEF EditTables, At
-----------------------------------------------------------------------------
(* Where the threads can be *)

\* Steps that add nothing to the tables and nothing to what is polled.
Calm == {x \in Steps : x.what \notin {"add", "table"}}

\* The library serves nobody.
Clear == tabled = {} /\ polled = {} /\ ~listening /\ Idle(Listener)

\* The listen thread wants the device lock.
AtDev == ~Idle(Listener) /\ Head(todo[Listener]) = Lock("dev")
\* It will have fd polled.
Pending(fd) == \E i \in 1 .. Len(todo[Listener]) : todo[Listener][i] = Do("add", fd)

\* An application thread that is freeing a device and has not yet come to the
\* listening socket: before the loop over the sockets, at the beginning and in
\* the middle of one of them, and after the loop.
Approach(c) == {x \in Plain : x.what \in {"lock", "assert"} /\ (c = "lib_free" => x # Lock("chan"))}
Starts(a) ==
  /\ call[a] = "lib_free" => owner["dev"] = a
  /\ \/ Upto(Approach(call[a]), todo[a], Loop(call[a]))
     \/ /\ call[a] = "lib_free" /\ owner["chan"] # a
        /\ todo[a] = <<Lock("chan")>> \o (<<Lock("rw"), Do("assert", None)>> \o Loop("lib_free"))
Begins(a, fd) == owner["dev"] = a /\ todo[a] = CloseConn(fd) \o Loop(call[a])
Midway(a, fd) == /\ owner["dev"] = a
                 /\ \/ todo[a] = <<Pass("list"), Do("untable", fd)>> \o Loop(call[a])
                    \/ todo[a] = <<Do("untable", fd)>> \o Loop(call[a])
                 /\ fd \notin polled \/ AtDev
Emptied(a) == /\ owner["dev"] = a /\ tabled = {}
              /\ todo[a] = <<Do("unlisten", None)>> \o Ending(call[a])
Frees(a) == /\ call[a] \in {"dev_free", "lib_free"}
            /\ \/ Starts(a) \/ Emptied(a)
               \/ \E fd \in Fds : Begins(a, fd) \/ Midway(a, fd)

\* A listen thread that wants the device lock will not get it before the end of
\* the loop, and the loop will wait for it after that.
Trapped == \E a \in Apps : owner["dev"] = a /\ Frees(a)

\* Nothing of interest is left.
Returns(a) == call[a] # "lib_free" /\ todo[a] \in Seq(Plain)

\* cc_of_dev_register.
Registers(a) ==
  /\ call[a] = "register"
  /\ \/ Upto(Plain, todo[a], <<Do("register", None), Release({"dev"})>>)
     \/ /\ ofdev_type = "CONTROLLER"
        /\ Upto(Plain, todo[a], <<Do("register", None), Release({"dev"}), Do("listen", None)>>)
     \/ /\ ofdev_type = "CONTROLLER" /\ registered
        /\ Upto(Plain, todo[a], <<Do("listen", None)>>)

\* A socket on its way to the tables and to the poll thread.
Entry(fd) == <<Do("table", fd), Release(Three), Do("add", fd)>>

\* cc_of_create_channel.
Creates(a, fd) ==
  /\ call[a] = "create" /\ ofdev_type = "SWITCH"
  /\ \/ Upto(Plain, todo[a], Entry(fd))
     \/ /\ registered /\ fd \in tabled
        /\ Upto(Plain, todo[a], <<Do("add", fd)>>)

\* cc_of_destroy_channel.
Destroys(a, fd) ==
  /\ call[a] = "destroy" /\ ~Pending(fd)
  /\ \/ Upto(Plain, todo[a], CloseConn(fd) \o <<Release(Three)>>)
     \/ /\ Upto(Plain, todo[a], <<Do("untable", fd), Release(Three)>>)
        /\ fd \notin polled

\* cc_of_dev_free and cc_of_lib_free, the device's end.
Ends(a) == /\ Clear
           /\ \/ call[a] \in {"dev_free", "lib_free"} /\ todo[a] = Ending(call[a])
              \/ /\ call[a] = "lib_free" /\ owner["chan"] # a
                 /\ todo[a] = <<Do("unregister", None)>> \o LastPart

\* cc_of_lib_free before and after the devices.
BeforeDevices(a) ==
  /\ call[a] = "lib_free"
  /\ \/ todo[a] = <<Lock("dev"), Do("devices", None)>> \o LastPart
     \/ todo[a] = <<Do("devices", None)>> \o LastPart
AfterDevices(a) ==
  /\ call[a] = "lib_free" /\ ~registered
  /\ \/ /\ owner["chan"] # a
        /\ \/ todo[a] = LastPart
           \/ todo[a] = <<Lock("rw"), Lock("chan")>> \o Cleanup
           \/ todo[a] = <<Lock("chan")>> \o Cleanup
     \/ todo[a] \in Seq(Finish)

Elsewhere(a) == \/ Returns(a) \/ Registers(a) \/ Ends(a) \/ BeforeDevices(a) \/ AfterDevices(a)
                \/ \E fd \in Fds : Creates(a, fd) \/ Destroys(a, fd)

\* One thread of the application at a time.
Solo == \A a, b \in Apps : ~Idle(a) /\ ~Idle(b) => a = b

\* Where the listen thread can be: it has accepted fd and is on its way to the
\* tables, or to the poll thread; it has added fd; it adds nothing any more.
ToTables(fd) ==
  /\ fd \notin polled
  /\ Upto(Plain, todo[Listener], Entry(fd) \o Tell(fd))
ToPoll(fd) ==
  /\ fd \notin polled /\ (fd \in tabled \/ Trapped)
  /\ Upto(Plain, todo[Listener], <<Do("add", fd)>> \o Tell(fd))
Accepts ==
  \/ todo[Listener] \in Seq(Calm)
  \/ \E fd \in Fds : ToTables(fd) \/ ToPoll(fd) \/ todo[Listener] = Tell(fd)

\* Without a device nothing is served; a switch accepts nothing; what is polled
\* is in the tables, unless a loop that frees the device has overtaken the
\* listen thread, which then waits for the loop.
World ==
  /\ ~registered => Clear
  /\ ofdev_type = "SWITCH" => Idle(Listener) /\ ~listening
  /\ polled \subseteq tabled \/ (Trapped /\ AtDev)

AloneInv ==
  /\ ~Idle(Reader) => polled # {}
  /\ ~overlapped /\ ~aborted =>
       /\ Solo /\ Accepts /\ World
       /\ \A a \in Apps : ~Idle(a) => Frees(a) \/ Elsewhere(a)
-----------------------------------------------------------------------------
(* The sequences of the calls, step by step *)

\* The steps used below.
LEMMA StepSet ==
  /\ \A l \in Locks : Lock(l) \in Steps /\ Pass(l) \in Steps
  /\ \A ls \in SUBSET Locks : Release(ls) \in Steps
  /\ \A fd \in Fds : /\ Do("add", fd) \in Steps /\ Do("delete", fd) \in Steps /\ Do("table", fd) \in Steps
                     /\ Do("untable", fd) \in Steps /\ Do("find", fd) \in Steps /\ Do("put", fd) \in Steps
                     /\ Do("callback", fd) \in Steps
  /\ Do("end", Listener) \in Steps /\ Do("end", Reader) \in Steps
  /\ \A w \in {"register", "unregister", "listen", "unlisten", "assert", "walk", "devices", "clear", "finddev"} :
       Do(w, None) \in Steps
  /\ "dev" \in Locks /\ "chan" \in Locks /\ "rw" \in Locks /\ "list" \in Locks
  /\ Three \in SUBSET Locks /\ {"dev"} \in SUBSET Locks /\ {"chan", "rw"} \in SUBSET Locks
  /\ {"chan"} \in SUBSET Locks /\ {"list"} \in SUBSET Locks
BY StepTypes, LockSets DEF Steps, Do, Lock, Pass, Release, Locks, Three, PollThreads

\* A path in front of another sequence.
LEMMA Cons2 ==
  ASSUME NEW x \in Steps, NEW y \in Steps, NEW s \in Seq(Steps)
  PROVE  <<x, y>> \o s = <<x>> \o (<<y>> \o s)
<1> DEFINE u == <<x, y>> \o s
           w == <<y>> \o s
           v == <<x>> \o w
<1>1. /\ u \in Seq(Steps) /\ Len(u) = Len(s) + 2 /\ Len(s) \in Nat
      /\ u[1] = x /\ u[2] = y /\ \A i \in 1 .. Len(s) : u[i + 2] = s[i]
  OBVIOUS
<1>2. /\ w \in Seq(Steps) /\ Len(w) = Len(s) + 1
      /\ w[1] = y /\ \A i \in 1 .. Len(s) : w[i + 1] = s[i]
  OBVIOUS
<1> HIDE DEF u, w
<1>3. /\ v \in Seq(Steps) /\ Len(v) = Len(w) + 1
      /\ v[1] = x /\ \A i \in 1 .. Len(w) : v[i + 1] = w[i]
  BY <1>1, <1>2
<1> HIDE DEF v
<1>4. ASSUME NEW i \in 1 .. Len(s) + 2 PROVE u[i] = v[i]
  <2>1. CASE i = 1
    BY <1>1, <1>3, <2>1
  <2>2. CASE i = 2
    <3>1. 1 \in 1 .. Len(w) /\ 1 + 1 = 2
      BY <1>1, <1>2
    <3> QED BY <1>1, <1>2, <1>3, <2>2, <3>1
  <2>3. CASE i > 2
    <3>1. /\ i - 2 \in 1 .. Len(s) /\ (i - 2) + 2 = i
          /\ (i - 2) + 1 \in 1 .. Len(w) /\ ((i - 2) + 1) + 1 = i
      BY <1>1, <1>2, <2>3
    <3> QED BY <1>1, <1>2, <1>3, <3>1
  <2> QED BY <1>1, <2>1, <2>2, <2>3
<1>5. Len(u) = Len(v)
  BY <1>1, <1>2, <1>3
<1>6. u = v
  BY <1>1, <1>3, <1>4, <1>5, SeqEqual
<1> QED BY <1>6 DEF u, v, w

\* The same with a path of three.
LEMMA Cons3 ==
  ASSUME NEW x \in Steps, NEW y \in Steps, NEW z \in Steps, NEW s \in Seq(Steps)
  PROVE  <<x, y, z>> \o s = <<x>> \o (<<y>> \o (<<z>> \o s))
<1> DEFINE e == <<z>> \o s
<1>1. e \in Seq(Steps) /\ <<x, y>> \in Seq(Steps) /\ <<z>> \in Seq(Steps)
  BY ConsParts
<1>2. <<x, y, z>> = <<x, y>> \o <<z>>
  OBVIOUS
<1>3. <<x, y, z>> \o s = <<x, y>> \o e
  BY <1>1, <1>2, ConcatAssociative
<1> HIDE DEF e
<1>4. <<x, y>> \o e = <<x>> \o (<<y>> \o e)
  BY <1>1, Cons2
<1> QED BY <1>3, <1>4 DEF e

\* The last steps of cc_of_lib_free.
LEMMA CleanupShape ==
  /\ Cleanup \in Seq(Finish) /\ Cleanup \in Seq(Steps) /\ LastPart \in Seq(Steps)
  /\ LastPart = <<Release({"dev"})>> \o (<<Lock("rw"), Lock("chan")>> \o Cleanup)
  /\ <<Lock("rw"), Lock("chan")>> \o Cleanup = <<Lock("rw")>> \o (<<Lock("chan")>> \o Cleanup)
  /\ <<Lock("chan")>> \o Cleanup \in Seq(Steps)
<1>1. /\ Do("clear", None) \in Finish /\ Release({"chan", "rw"}) \in Finish /\ Do("end", Listener) \in Finish
      /\ Lock("list") \in Finish /\ Do("end", Reader) \in Finish /\ Release({"list"}) \in Finish
  BY StepSet DEF Finish, Do, Release
<1>2. Cleanup \in Seq(Finish)
  BY <1>1 DEF Cleanup
<1>3. Finish \subseteq Steps
  BY DEF Finish
<1>4. Cleanup \in Seq(Steps)
  BY <1>2, <1>3
<1>5. /\ LastPart = <<Release({"dev"})>> \o (<<Lock("rw")>> \o (<<Lock("chan")>> \o Cleanup))
      /\ <<Lock("rw"), Lock("chan")>> \o Cleanup = <<Lock("rw")>> \o (<<Lock("chan")>> \o Cleanup)
  <2>1. Release({"dev"}) \in Steps /\ Lock("rw") \in Steps /\ Lock("chan") \in Steps
    BY StepSet
  <2> QED BY <1>4, <2>1, Cons2, Cons3, ZenonT(60) DEF LastPart
<1>6. LastPart \in Seq(Steps) /\ <<Lock("chan")>> \o Cleanup \in Seq(Steps)
  BY <1>4, <1>5, StepSet, ConsParts
<1> QED BY <1>2, <1>4, <1>5, <1>6

\* The end of a device and the loop before it.
LEMMA EndingShape ==
  ASSUME NEW c
  PROVE  /\ Ending(c) \in Seq(Steps) /\ Loop(c) \in Seq(Steps)
         /\ Loop(c) = <<Do("walk", None)>> \o (<<Do("unlisten", None)>> \o Ending(c))
         /\ c = "dev_free" => Ending(c) = <<Do("unregister", None)>> \o <<Release(Three)>>
         /\ c = "lib_free" => Ending(c) = <<Release({"chan", "rw"})>>
                                            \o (<<Do("unregister", None)>> \o LastPart)
         /\ <<Do("unregister", None)>> \o LastPart \in Seq(Steps)
<1>1. /\ Do("unregister", None) \in Steps /\ Release(Three) \in Steps /\ Release({"chan", "rw"}) \in Steps
      /\ LastPart \in Seq(Steps) /\ Do("walk", None) \in Steps /\ Do("unlisten", None) \in Steps
  BY StepSet, CleanupShape
<1>2. <<Do("unregister", None)>> \o LastPart \in Seq(Steps)
  BY <1>1, ConsParts
<1>3. c = "dev_free" => Ending(c) = <<Do("unregister", None)>> \o <<Release(Three)>>
  BY <1>1 DEF Ending
<1>4. c = "lib_free" => Ending(c) = <<Release({"chan", "rw"})>> \o (<<Do("unregister", None)>> \o LastPart)
  BY <1>1, Cons2 DEF Ending
<1>5. Ending(c) \in Seq(Steps)
  <2>1. CASE c = "lib_free"
    BY <1>1, <1>2, <1>4, <2>1, ConsParts
  <2>2. CASE c # "lib_free"
    BY <1>1, <2>2 DEF Ending
  <2> QED BY <2>1, <2>2
<1>6. Loop(c) = <<Do("walk", None)>> \o (<<Do("unlisten", None)>> \o Ending(c))
  BY <1>1, <1>5, Cons2 DEF Loop
<1>7. Loop(c) \in Seq(Steps)
  BY <1>1, <1>5, <1>6, ConsParts
<1> QED BY <1>2, <1>3, <1>4, <1>5, <1>6, <1>7

\* Closing one connection.
LEMMA CloseShape ==
  ASSUME NEW fd \in Fds, NEW s \in Seq(Steps)
  PROVE  /\ CloseConn(fd) \o s = <<Do("delete", fd)>> \o (<<Pass("list"), Do("untable", fd)>> \o s)
         /\ <<Pass("list"), Do("untable", fd)>> \o s = <<Pass("list")>> \o (<<Do("untable", fd)>> \o s)
         /\ <<Do("untable", fd)>> \o s \in Seq(Steps)
         /\ <<Pass("list"), Do("untable", fd)>> \o s \in Seq(Steps)
         /\ CloseConn(fd) \o s \in Seq(Steps)
<1>1. Do("delete", fd) \in Steps /\ Pass("list") \in Steps /\ Do("untable", fd) \in Steps
  BY StepSet
<1>2. /\ <<Pass("list"), Do("untable", fd)>> \o s = <<Pass("list")>> \o (<<Do("untable", fd)>> \o s)
      /\ CloseConn(fd) \o s = <<Do("delete", fd)>> \o (<<Pass("list")>> \o (<<Do("untable", fd)>> \o s))
  BY <1>1, Cons2, Cons3, ZenonT(60) DEF CloseConn
<1>3. <<Do("untable", fd)>> \o s \in Seq(Steps)
  BY <1>1, ConsParts
<1>4. <<Pass("list"), Do("untable", fd)>> \o s \in Seq(Steps)
  BY <1>1, <1>2, <1>3, ConsParts
<1>5. CloseConn(fd) \o s \in Seq(Steps)
  BY <1>1, <1>2, <1>3, <1>4, ConsParts
<1> QED BY <1>2, <1>3, <1>4, <1>5

\* A path of steps of X in front.
LEMMA UptoPath ==
  ASSUME NEW X, X \subseteq Steps, NEW p \in Seq(X), NEW r \in Seq(Steps)
  PROVE  Upto(X, p \o r, r)
<1> DEFINE s == p \o r
           k == Len(p)
<1>1. /\ s \in Seq(Steps) /\ k \in Nat /\ Len(r) \in Nat /\ Len(s) = k + Len(r)
      /\ \A i \in 1 .. k : s[i] = p[i] /\ p[i] \in X
      /\ \A i \in 1 .. Len(r) : s[k + i] = r[i]
  <2>1. p \in Seq(Steps)
    OBVIOUS
  <2> QED BY <2>1
<1> HIDE DEF s, k
<1> DEFINE v == SubSeq(s, k + 1, Len(s))
<1>2. \A i \in k + 1 .. Len(s) : s[i] \in Steps
  BY <1>1
<1>3. /\ v \in Seq(Steps) /\ Len(v) = Len(r)
      /\ \A i \in 1 .. Len(r) : v[i] = s[k + i]
  BY <1>1, <1>2, SubSeqProperties
<1> HIDE DEF v
<1>4. v = r
  BY <1>1, <1>3, SeqEqual
<1>5. SubSeq(s, k + 1, Len(s)) = r /\ k \in 0 .. Len(s) /\ \A i \in 1 .. k : s[i] \in X
  <2>1. SubSeq(s, k + 1, Len(s)) = r
    BY <1>4 DEF v
  <2>2. k \in 0 .. Len(s)
    BY <1>1
  <2>3. \A i \in 1 .. k : s[i] \in X
    BY <1>1
  <2> QED BY <2>1, <2>2, <2>3
<1>6. Upto(X, s, r)
  BY <1>5 DEF Upto
<1> QED BY <1>6 DEF s

\* Plain steps.
LEMMA PlainSet ==
  /\ Plain \subseteq Steps /\ Plain \subseteq Calm /\ Calm \subseteq Steps
  /\ \A l \in Locks : Lock(l) \in Plain /\ Pass(l) \in Plain
  /\ \A ls \in SUBSET Locks : Release(ls) \in Plain
  /\ \A fd \in Fds : Do("find", fd) \in Plain /\ Do("put", fd) \in Plain
  /\ Do("finddev", None) \in Plain /\ Do("assert", None) \in Plain
BY StepSet DEF Plain, Calm, Do, Lock, Pass, Release

\* Adding a socket.
LEMMA AddSocketShape ==
  ASSUME NEW fd \in Fds
  PROVE  /\ Entry(fd) \in Seq(Steps) /\ AddSocket(fd) = (<<Pass("list")>> \o LockThree) \o Entry(fd)
         /\ <<Pass("list")>> \o LockThree \in Seq(Plain)
         /\ Upto(Plain, AddSocket(fd), Entry(fd))
<1>1. /\ Pass("list") \in Plain /\ Lock("dev") \in Plain /\ Lock("chan") \in Plain /\ Lock("rw") \in Plain
      /\ Do("table", fd) \in Steps /\ Release(Three) \in Steps /\ Do("add", fd) \in Steps
  BY PlainSet, StepSet
<1>2. Entry(fd) \in Seq(Steps)
  BY <1>1 DEF Entry
<1>3. <<Pass("list")>> \o LockThree \in Seq(Plain)
  BY <1>1 DEF LockThree
<1>4. AddSocket(fd) = (<<Pass("list")>> \o LockThree) \o Entry(fd)
  BY DEF AddSocket, Entry
<1> QED BY <1>2, <1>3, <1>4, UptoPath, PlainSet

\* The listen thread's callback.
LEMMA AcceptShape ==
  ASSUME NEW fd \in Fds
  PROVE  /\ Tell(fd) \in Seq(Calm) /\ Tell(fd) \in Seq(Steps)
         /\ Upto(Plain, Accept(fd), Entry(fd) \o Tell(fd))
<1> DEFINE p == <<Lock("dev"), Do("finddev", None), Release({"dev"})>>
           q == <<Pass("list")>> \o LockThree
           e == Entry(fd)
           u == Tell(fd)
<1>1. /\ Lock("dev") \in Plain /\ Do("finddev", None) \in Plain /\ Release({"dev"}) \in Plain
      /\ Pass("rw") \in Plain /\ Do("callback", fd) \in Calm
  BY PlainSet, StepSet DEF Calm, Do
<1>2. p \in Seq(Plain) /\ q \in Seq(Plain) /\ e \in Seq(Steps)
  BY <1>1, AddSocketShape
<1>3. u \in Seq(Calm)
  BY <1>1, PlainSet DEF Tell
<1>4. u \in Seq(Steps) /\ p \in Seq(Steps) /\ q \in Seq(Steps)
  BY <1>2, <1>3, PlainSet
<1>5. Accept(fd) = (p \o AddSocket(fd)) \o u
  BY DEF Accept, Tell
<1>6. AddSocket(fd) = q \o e
  BY AddSocketShape
<1> HIDE DEF p, q, e, u
<1>7. (p \o (q \o e)) \o u = (p \o q) \o (e \o u)
  <2>1. (p \o q) \o e = p \o (q \o e)
    <3>1. p \in Seq(Steps) /\ q \in Seq(Steps) /\ e \in Seq(Steps)
      BY <1>2, <1>4
    <3> QED BY <3>1, ConcatAssociative
  <2>2. p \o q \in Seq(Steps)
    BY <1>4
  <2>3. ((p \o q) \o e) \o u = (p \o q) \o (e \o u)
    <3> DEFINE v == p \o q
    <3>1. v \in Seq(Steps) /\ e \in Seq(Steps) /\ u \in Seq(Steps)
      BY <1>2, <1>4, <2>2
    <3> HIDE DEF v
    <3>2. (v \o e) \o u = v \o (e \o u)
      BY <3>1, ConcatAssociative
    <3> QED BY <3>2 DEF v
  <2> QED BY <2>1, <2>3
<1>8. p \o q \in Seq(Plain) /\ e \o u \in Seq(Steps)
  BY <1>2, <1>4
<1>9. Upto(Plain, (p \o q) \o (e \o u), e \o u)
  BY <1>8, UptoPath, PlainSet
<1>10. Upto(Plain, Accept(fd), e \o u)
  BY <1>5, <1>6, <1>7, <1>9
<1> QED BY <1>3, <1>4, <1>10 DEF e, u

\* What follows the table entry and the ADD in it.
LEMMA EntryShape ==
  ASSUME NEW fd \in Fds, NEW s \in Seq(Steps)
  PROVE  /\ Entry(fd) \o s = <<Do("table", fd)>> \o (<<Release(Three)>> \o (<<Do("add", fd)>> \o s))
         /\ <<Do("add", fd)>> \o s \in Seq(Steps)
         /\ <<Release(Three)>> \o (<<Do("add", fd)>> \o s) \in Seq(Steps)
         /\ Upto(Plain, <<Release(Three)>> \o (<<Do("add", fd)>> \o s), <<Do("add", fd)>> \o s)
<1>1. Do("table", fd) \in Steps /\ Release(Three) \in Steps /\ Do("add", fd) \in Steps
  BY StepSet
<1>2. Entry(fd) \o s = <<Do("table", fd)>> \o (<<Release(Three)>> \o (<<Do("add", fd)>> \o s))
  BY <1>1, Cons3 DEF Entry
<1>3. <<Do("add", fd)>> \o s \in Seq(Steps)
  BY <1>1, ConsParts
<1>4. <<Release(Three)>> \o (<<Do("add", fd)>> \o s) \in Seq(Steps)
  BY <1>1, <1>3, ConsParts
<1>5. Release(Three) \in Plain
  BY PlainSet, StepSet
<1>6. Upto(Plain, <<Release(Three)>> \o (<<Do("add", fd)>> \o s), <<Do("add", fd)>> \o s)
  BY <1>1, <1>3, <1>5, UptoNil, UptoCons
<1> QED BY <1>2, <1>3, <1>4, <1>6

\* Tell, step by step.
LEMMA TellShape ==
  ASSUME NEW fd \in Fds
  PROVE  /\ Tell(fd) # <<>> /\ Head(Tell(fd)) = Lock("dev") /\ Tail(Tell(fd)) \in Seq(Calm)
<1>1. Tell(fd) # <<>> /\ Head(Tell(fd)) = Lock("dev")
  BY DEF Tell
<1>2. Tell(fd) \in Seq(Calm)
  BY AcceptShape
<1> QED BY <1>1, <1>2, HeadTailProperties

\* The calls that wait for no poll thread, and a channel's end.
LEMMA CallShapes ==
  ASSUME NEW fd \in Fds
  PROVE  /\ Send(fd) \in Seq(Plain) /\ SetReal \in Seq(Plain)
         /\ Upto(Plain, Destroy(fd), CloseConn(fd) \o <<Release(Three)>>)
         /\ Destroy(fd) \in Seq(Calm)
<1> DEFINE p == <<Lock("dev"), Lock("chan"), Do("find", fd), Lock("rw"), Do("find", fd)>>
           q == CloseConn(fd)
           r == <<Release(Three)>>
<1>1. /\ Lock("dev") \in Plain /\ Lock("chan") \in Plain /\ Lock("rw") \in Plain /\ Do("find", fd) \in Plain
      /\ Pass("rw") \in Plain /\ Do("put", fd) \in Plain /\ Release({"chan"}) \in Plain
      /\ Pass("chan") \in Plain /\ Release(Three) \in Plain
      /\ Do("delete", fd) \in Calm /\ Pass("list") \in Calm /\ Do("untable", fd) \in Calm
  BY PlainSet, StepSet DEF Calm, Do
<1>2. Send(fd) \in Seq(Plain) /\ SetReal \in Seq(Plain)
  BY <1>1 DEF Send, SetReal
<1>3. p \in Seq(Plain) /\ q \in Seq(Calm) /\ r \in Seq(Plain)
  BY <1>1 DEF CloseConn
<1>4. Destroy(fd) = (p \o q) \o r
  BY DEF Destroy
<1> HIDE DEF p, q, r
<1>5. p \in Seq(Steps) /\ q \in Seq(Steps) /\ r \in Seq(Steps) /\ p \in Seq(Calm) /\ r \in Seq(Calm)
  BY <1>3, PlainSet
<1>6. Destroy(fd) = p \o (q \o r) /\ q \o r \in Seq(Steps)
  BY <1>4, <1>5, ConcatAssociative
<1>7. Upto(Plain, Destroy(fd), q \o r)
  BY <1>3, <1>6, UptoPath, PlainSet
<1>8. Destroy(fd) \in Seq(Calm)
  BY <1>3, <1>4, <1>5
<1> QED BY <1>2, <1>7, <1>8 DEF q, r
-----------------------------------------------------------------------------
(* Steps of the listen thread *)

\* What its callback is made of.
LEMMA ListenerHeads ==
  ASSUME LockInv, Step(Listener)
  PROVE  /\ Head(todo[Listener]) \in Steps
         /\ Head(todo[Listener]).what \in {"lock", "pass", "release", "put", "assert", "find", "finddev",
                                           "add", "table", "callback"}
         /\ Head(todo[Listener]).what = "table" => Holds(Listener) = Three
<1> DEFINE x == Head(todo[Listener])
<1>1. Listener \in Threads /\ ~Idle(Listener)
  BY StepOthers, ThreadFacts
<1>2. call[Listener] \in {"idle", "accept"}
  BY DEF LockInv, Disciplined
<1>3. x \in Steps /\ Fits(call[Listener], Holds(Listener), x) /\ Holds(Listener) # Never
  BY <1>1, AtHead
<1> HIDE DEF x
<1>4. x.what \in {"lock", "pass", "release", "put", "assert", "find", "finddev", "add", "table", "callback"}
  BY <1>2, <1>3 DEF Fits, Twice, TearDown
<1>5. x.what = "table" => Holds(Listener) = Three
  BY <1>3 DEF Fits, Twice
<1> QED BY <1>3, <1>4, <1>5 DEF x

\* What becomes of its sequence: it goes on, or all that is left or put in front
\* is calm.
LEMMA ListenerTodo ==
  ASSUME LockInv, Step(Listener)
  PROVE  \/ todo'[Listener] = Tail(todo[Listener])
         \/ todo'[Listener] \in Seq(Calm)
         \/ \E p \in Seq(Calm) : todo'[Listener] = p \o Tail(todo[Listener])
<1> DEFINE x == Head(todo[Listener])
<1>1. Listener \in Threads
  BY ThreadFacts
<1>2. /\ x \in Steps
      /\ x.what \in {"lock", "pass", "release", "put", "assert", "find", "finddev", "add", "table", "callback"}
  BY ListenerHeads
<1>3. Holds(Listener) \in SUBSET Locks
  BY DEF Holds
<1>4. CASE x.what \in {"lock", "pass", "release", "put", "assert"}
  BY <1>1, <1>4, StepPlain
<1>5. CASE x.what \in {"find", "finddev"}
  <2>1. Release(Holds(Listener)) \in Calm
    BY <1>3, PlainSet
  <2>2. <<Release(Holds(Listener))>> \in Seq(Calm)
    BY <2>1
  <2> QED BY <1>1, <1>5, <2>2, StepLookup
<1>6. CASE x.what = "add"
  BY <1>1, <1>6, StepReader
<1>7. CASE x.what = "table"
  <2>1. Release(Three) \in Calm /\ Lock("dev") \in Calm /\ Lock("chan") \in Calm /\ Lock("rw") \in Calm
    BY PlainSet, StepSet
  <2>2. <<Release(Three)>> \o LockThree \o <<Release(Three)>> \in Seq(Calm)
    BY <2>1 DEF LockThree
  <2> QED BY <1>1, <1>7, <2>2, StepTables
<1>8. CASE x.what = "callback"
  <2>1. x.arg \in Fds
    BY <1>2, <1>8, StepArgs
  <2>2. ASSUME NEW name \in CallbackCalls, NEW p \in Paths(name, x.arg) PROVE p \in Seq(Calm)
    <3>1. name \in {"send", "set_real", "destroy"}
      BY LocksAssumption
    <3>2. p \in {Send(x.arg), SetReal, Destroy(x.arg)}
      BY <3>1 DEF Paths
    <3>3. /\ Send(x.arg) \in Seq(Plain) /\ SetReal \in Seq(Plain) /\ Destroy(x.arg) \in Seq(Calm)
      BY <2>1, CallShapes
    <3> QED BY <3>2, <3>3, PlainSet
  <2>3. \/ todo'[Listener] = Tail(todo[Listener])
        \/ \E name \in CallbackCalls : \E p \in Paths(name, x.arg) :
             todo'[Listener] = p \o Tail(todo[Listener])
    BY <1>1, <1>8, StepCallback
  <2> QED BY <2>2, <2>3
<1> QED BY <1>2, <1>4, <1>5, <1>6, <1>7, <1>8

\* It adds nothing that it would not have added.
LEMMA ListenerCalm ==
  ASSUME LockInv, Step(Listener)
  PROVE  /\ todo[Listener] \in Seq(Calm) => todo'[Listener] \in Seq(Calm)
         /\ \A fd \in Fds : Pending(fd)' => Pending(fd)
<1> DEFINE s == todo[Listener]
           z == todo'[Listener]
<1>1. s \in Seq(Steps) /\ s # <<>>
  BY ThreadFacts, StepOthers DEF LockInv, Disciplined, Idle
<1>2. /\ Tail(s) \in Seq(Steps) /\ Len(Tail(s)) = Len(s) - 1 /\ Len(s) \in Nat
      /\ \A i \in 1 .. Len(s) - 1 : Tail(s)[i] = s[i + 1]
  BY <1>1
<1>3. \/ z = Tail(s) \/ z \in Seq(Calm)
      \/ \E p \in Seq(Calm) : z = p \o Tail(s)
  BY ListenerTodo
<1> HIDE DEF s, z
<1>4. ASSUME s \in Seq(Calm) PROVE z \in Seq(Calm)
  <2>1. Tail(s) \in Seq(Calm)
    BY <1>1, <1>4
  <2>2. \A p \in Seq(Calm) : p \o Tail(s) \in Seq(Calm)
    BY <2>1, ConcatProperties
  <2> QED BY <1>3, <2>1, <2>2
<1>5. ASSUME NEW fd \in Fds, NEW i \in 1 .. Len(z), z[i] = Do("add", fd)
      PROVE  \E j \in 1 .. Len(s) : s[j] = Do("add", fd)
  <2>1. Do("add", fd) \notin Calm
    BY DEF Calm, Do
  <2>2. ASSUME NEW k \in 1 .. Len(Tail(s)), Tail(s)[k] = Do("add", fd)
        PROVE  \E j \in 1 .. Len(s) : s[j] = Do("add", fd)
    <3>1. k + 1 \in 1 .. Len(s) /\ k \in 1 .. Len(s) - 1
      BY <1>2
    <3> QED BY <1>2, <2>2, <3>1
  <2>3. CASE z = Tail(s)
    BY <1>5, <2>2, <2>3
  <2>4. CASE z \in Seq(Calm)
    BY <1>5, <2>1, <2>4
  <2>5. ASSUME NEW p \in Seq(Calm), z = p \o Tail(s)
        PROVE  \E j \in 1 .. Len(s) : s[j] = Do("add", fd)
    <3>1. p \in Seq(Steps)
      BY PlainSet
    <3>2. /\ Len(p) \in Nat /\ Len(z) = Len(p) + Len(Tail(s))
          /\ \A k \in 1 .. Len(p) : z[k] = p[k] /\ p[k] \in Calm
          /\ \A k \in 1 .. Len(Tail(s)) : z[Len(p) + k] = Tail(s)[k]
      BY <1>2, <2>5, <3>1
    <3>3. i > Len(p)
      BY <1>5, <2>1, <3>2
    <3>4. i - Len(p) \in 1 .. Len(Tail(s)) /\ Len(p) + (i - Len(p)) = i
      BY <1>2, <3>2, <3>3
    <3> QED BY <1>5, <2>2, <3>2, <3>4
  <2> QED BY <1>3, <2>3, <2>4, <2>5
<1>6. \A fd \in Fds : Pending(fd)' => Pending(fd)
  BY <1>5 DEF Pending, s, z
<1> QED BY <1>4, <1>6 DEF s, z

\* It changes the tables by an entry, under the three locks, and what is polled
\* by an ADD.  The locks of others stay theirs.
LEMMA ListenerData ==
  ASSUME LockInv, Step(Listener)
  PROVE  /\ UNCHANGED <<registered, listening>>
         /\ \/ tabled' = tabled
            \/ /\ Head(todo[Listener]).what = "table" /\ owner["dev"] = Listener
               /\ tabled' = tabled \cup {Head(todo[Listener]).arg}
               /\ todo'[Listener] = Tail(todo[Listener])
         /\ \/ polled' = polled
            \/ /\ Head(todo[Listener]).what = "add" /\ Idle(Reader)
               /\ polled' = polled \cup {Head(todo[Listener]).arg}
               /\ todo'[Listener] = Tail(todo[Listener])
         /\ AtDev => owner["dev"] = None
         /\ \A a \in Apps : /\ owner["dev"] = a => owner'["dev"] = a
                            /\ owner["chan"] # a => owner'["chan"] # a
<1> DEFINE x == Head(todo[Listener])
<1>1. Listener \in Threads /\ \A a \in Apps : a # Listener /\ a # None
  BY ThreadFacts
<1>2. /\ x.what \in {"lock", "pass", "release", "put", "assert", "find", "finddev", "add", "table", "callback"}
      /\ x.what = "table" => Holds(Listener) = Three
  BY ListenerHeads
<1>3. "dev" \in Locks /\ "chan" \in Locks /\ (Holds(Listener) = Three => owner["dev"] = Listener)
  BY DEF Holds, Three, Locks
<1>4. AtDev => owner["dev"] = None
  BY <1>1, StepOwner DEF AtDev, Lock, Do
<1>5. \A a \in Apps : /\ owner["dev"] = a => owner'["dev"] = a
                      /\ owner["chan"] # a => owner'["chan"] # a
  <2>1. CASE x.what = "lock"
    BY <1>1, <1>3, <2>1, StepOwner
  <2>2. CASE x.what = "release"
    BY <1>1, <1>3, <2>2, StepOwner DEF Holds
  <2>3. CASE x.what \notin {"lock", "release"}
    BY <1>1, <2>3, StepOwner
  <2> QED BY <2>1, <2>2, <2>3
<1>6. CASE x.what \in {"lock", "pass", "release", "put", "assert"}
  BY <1>1, <1>4, <1>5, <1>6, StepPlain DEF Same
<1>7. CASE x.what \in {"find", "finddev"}
  BY <1>1, <1>4, <1>5, <1>7, StepLookup DEF Same
<1>8. CASE x.what = "add"
  BY <1>1, <1>4, <1>5, <1>8, StepReader
<1>9. CASE x.what = "table"
  BY <1>1, <1>2, <1>3, <1>4, <1>5, <1>9, StepTables
<1>10. CASE x.what = "callback"
  BY <1>1, <1>4, <1>5, <1>10, StepCallback DEF Same
<1> QED BY <1>2, <1>6, <1>7, <1>8, <1>9, <1>10

\* When it asks for a socket to be polled, it wants the device lock next.
LEMMA ListenerAdds ==
  ASSUME LockInv, Step(Listener), Accepts, Head(todo[Listener]).what = "add"
  PROVE  \E fd \in Fds : /\ ToPoll(fd) /\ Head(todo[Listener]) = Do("add", fd)
                         /\ Tail(todo[Listener]) = Tell(fd)
<1> DEFINE s == todo[Listener]
<1>1. s \in Seq(Steps) /\ s # <<>>
  BY ThreadFacts, StepOthers DEF LockInv, Disciplined, Idle
<1>2. Head(s) \notin Plain /\ Head(s) \notin Calm
  BY DEF Plain, Calm
<1>3. s \notin Seq(Calm)
  BY <1>1, <1>2
<1>4. ASSUME NEW fd \in Fds, ToTables(fd) PROVE FALSE
  <2>1. Tell(fd) \in Seq(Steps)
    BY AcceptShape
  <2>2. s = Entry(fd) \o Tell(fd)
    BY <1>1, <1>2, <1>4, UptoStep DEF ToTables
  <2>3. Head(s) = Do("table", fd)
    <3>1. Do("table", fd) \in Steps /\ <<Release(Three)>> \o (<<Do("add", fd)>> \o Tell(fd)) \in Seq(Steps)
      BY <2>1, StepSet, EntryShape
    <3>2. s = <<Do("table", fd)>> \o (<<Release(Three)>> \o (<<Do("add", fd)>> \o Tell(fd)))
      BY <2>1, <2>2, EntryShape
    <3> QED BY <3>1, <3>2, ConsParts
  <2> QED BY <2>3 DEF Do
<1>5. ASSUME NEW fd \in Fds, s = Tell(fd) PROVE FALSE
  BY <1>5, TellShape DEF Lock, Do
<1>6. ASSUME NEW fd \in Fds, ToPoll(fd) PROVE Head(s) = Do("add", fd) /\ Tail(s) = Tell(fd)
  <2>1. Tell(fd) \in Seq(Steps) /\ Do("add", fd) \in Steps
    BY AcceptShape, StepSet
  <2>2. s = <<Do("add", fd)>> \o Tell(fd)
    BY <1>1, <1>2, <1>6, UptoStep DEF ToPoll
  <2> QED BY <2>1, <2>2, ConsParts
<1>7. PICK fd \in Fds : ToTables(fd) \/ ToPoll(fd) \/ s = Tell(fd)
  BY <1>3 DEF Accepts
<1> QED BY <1>4, <1>5, <1>6, <1>7

\* A device that is being freed goes on being freed.
LEMMA ListenerFrees ==
  ASSUME LockInv, Step(Listener), Accepts, NEW a \in Apps, Frees(a)
  PROVE  Frees(a)' /\ (owner["dev"] = a => owner'["dev"] = a)
<1>1. /\ call' = call /\ todo'[a] = todo[a] /\ (owner["dev"] = a => owner'["dev"] = a)
      /\ owner["chan"] # a => owner'["chan"] # a
  BY ThreadFacts, StepOthers, ListenerData
<1>2. CASE Starts(a)
  <2>1. Starts(a)'
    BY <1>1, <1>2 DEF Starts
  <2> QED BY <1>1, <2>1 DEF Frees
<1>3. CASE Emptied(a)
  <2>1. tabled' = tabled
    BY <1>3, ThreadFacts, ListenerData DEF Emptied
  <2>2. Emptied(a)'
    BY <1>1, <1>3, <2>1 DEF Emptied
  <2> QED BY <1>1, <2>2 DEF Frees
<1>4. ASSUME NEW fd \in Fds, Begins(a, fd) PROVE Frees(a)'
  <2>1. Begins(a, fd)'
    BY <1>1, <1>4 DEF Begins
  <2> QED BY <1>1, <2>1 DEF Frees
<1>5. ASSUME NEW fd \in Fds, Midway(a, fd) PROVE Frees(a)'
  <2>1. fd \notin polled
    BY <1>5, ListenerData, ThreadFacts DEF Midway
  <2>2. fd \notin polled' \/ AtDev'
    <3>1. CASE polled' = polled
      BY <2>1, <3>1
    <3>2. CASE polled' # polled
      <4>1. /\ Head(todo[Listener]).what = "add" /\ todo'[Listener] = Tail(todo[Listener])
        BY <3>2, ListenerData
      <4>2. PICK e \in Fds : todo'[Listener] = Tell(e)
        BY <4>1, ListenerAdds
      <4> QED BY <4>2, TellShape DEF AtDev, Idle
    <3> QED BY <3>1, <3>2
  <2>3. Midway(a, fd)'
    BY <1>1, <1>5, <2>2 DEF Midway
  <2> QED BY <1>1, <2>3 DEF Frees
<1> QED BY <1>1, <1>2, <1>3, <1>4, <1>5 DEF Frees

\* A call goes on as it would have.
LEMMA ListenerElsewhere ==
  ASSUME LockInv, Step(Listener), Accepts, World, NEW a \in Apps, Elsewhere(a)
  PROVE  Elsewhere(a)'
<1>1. /\ call' = call /\ todo'[a] = todo[a] /\ (owner["chan"] # a => owner'["chan"] # a)
      /\ ofdev_type' = ofdev_type /\ registered' = registered /\ ~Idle(Listener)
      /\ \A fd \in Fds : Pending(fd)' => Pending(fd)
  BY ThreadFacts, StepOthers, ListenerData, ListenerCalm
<1>2. registered /\ ofdev_type # "SWITCH" /\ ~Clear
  BY <1>1 DEF World, Clear
<1>3. CASE Returns(a)
  BY <1>1, <1>3 DEF Elsewhere, Returns
<1>4. CASE Registers(a)
  <2>1. Registers(a)'
    BY <1>1, <1>4 DEF Registers
  <2> QED BY <2>1 DEF Elsewhere
<1>5. CASE BeforeDevices(a)
  <2>1. BeforeDevices(a)'
    BY <1>1, <1>5 DEF BeforeDevices
  <2> QED BY <2>1 DEF Elsewhere
<1>6. ASSUME NEW fd \in Fds, Destroys(a, fd) PROVE Elsewhere(a)'
  <2>1. ~Pending(fd)
    BY <1>6 DEF Destroys
  <2>2. fd \notin polled => fd \notin polled'
    <3>1. CASE polled' = polled
      BY <3>1
    <3>2. CASE polled' # polled
      <4>1. /\ Head(todo[Listener]).what = "add" /\ polled' = polled \cup {Head(todo[Listener]).arg}
        BY <3>2, ListenerData
      <4>2. PICK e \in Fds : Head(todo[Listener]) = Do("add", e)
        BY <4>1, ListenerAdds
      <4>3. Pending(e)
        <5>1. 1 \in 1 .. Len(todo[Listener]) /\ todo[Listener][1] = Head(todo[Listener])
          BY <1>1, ThreadFacts DEF Idle, LockInv, Disciplined
        <5> QED BY <4>2, <5>1 DEF Pending
      <4> QED BY <2>1, <4>1, <4>2, <4>3 DEF Do
    <3> QED BY <3>1, <3>2
  <2>3. Destroys(a, fd)'
    BY <1>1, <1>6, <2>2 DEF Destroys
  <2> QED BY <2>3 DEF Elsewhere
<1>7. ~Ends(a) /\ ~AfterDevices(a) /\ \A fd \in Fds : ~Creates(a, fd)
  BY <1>2 DEF Ends, AfterDevices, Creates
<1> QED BY <1>3, <1>4, <1>5, <1>6, <1>7 DEF Elsewhere

\* A plain step.
LEMMA PlainStep ==
  ASSUME LockInv, NEW t \in Threads, Step(t), Head(todo[t]) \in Plain
  PROVE  Same /\ (todo'[t] = Tail(todo[t]) \/ todo'[t] \in Seq(Plain))
<1>1. Head(todo[t]).what \in {"lock", "pass", "release", "put", "assert", "find", "finddev"}
  BY DEF Plain
<1>2. CASE Head(todo[t]).what \in {"find", "finddev"}
  <2>1. Release(Holds(t)) \in Plain
    BY PlainSet DEF Holds
  <2>2. <<Release(Holds(t))>> \in Seq(Plain)
    BY <2>1
  <2> QED BY <1>2, <2>2, StepLookup
<1>3. CASE Head(todo[t]).what \notin {"find", "finddev"}
  BY <1>1, <1>3, StepPlain
<1> QED BY <1>2, <1>3

\* The way of an accepted connection.
LEMMA ListenerAccepts ==
  ASSUME LockInv, Step(Listener), Accepts, World
  PROVE  Accepts' /\ World'
<1> DEFINE s == todo[Listener]
<1>1. s \in Seq(Steps) /\ s # <<>> /\ ~Idle(Listener) /\ ofdev_type' = ofdev_type /\ Listener \in Threads
  BY ThreadFacts, StepOthers DEF LockInv, Disciplined, Idle
<1>2. /\ registered /\ ofdev_type # "SWITCH" /\ registered' = registered
  BY <1>1, ListenerData DEF World, Clear
<1>3. Trapped => Trapped' /\ ~AtDev
  <2> SUFFICES ASSUME NEW a \in Apps, owner["dev"] = a, Frees(a) PROVE Trapped' /\ ~AtDev
    BY DEF Trapped
  <2>1. Frees(a)' /\ owner'["dev"] = a
    BY ListenerFrees
  <2> QED BY <2>1, ListenerData, ThreadFacts DEF Trapped
<1>4. polled \subseteq tabled
  BY <1>3 DEF World
<1>5. CASE Head(s).what = "add"
  <2>1. PICK fd \in Fds : ToPoll(fd) /\ Head(s) = Do("add", fd) /\ Tail(s) = Tell(fd)
    BY <1>5, ListenerAdds
  <2>2. /\ UNCHANGED <<registered, listening, tabled>> /\ todo'[Listener] = Tell(fd)
        /\ polled' = polled \cup {fd}
    <3>1. Head(s).arg = fd
      BY <2>1 DEF Do
    <3> QED BY <1>1, <1>5, <2>1, <3>1, StepReader
  <2>3. Accepts'
    BY <2>2 DEF Accepts
  <2>4. AtDev'
    BY <2>2, TellShape DEF AtDev, Idle
  <2>5. polled' \subseteq tabled' \/ (Trapped' /\ AtDev')
    BY <1>3, <1>4, <2>1, <2>2, <2>4 DEF ToPoll
  <2> QED BY <1>1, <1>2, <2>3, <2>5 DEF World
<1>6. CASE Head(s).what # "add"
  <2>1. polled' = polled /\ tabled \subseteq tabled'
    BY <1>6, ListenerData
  <2>2. World'
    BY <1>1, <1>2, <1>4, <2>1 DEF World
  <2>3. CASE s \in Seq(Calm)
    BY <2>2, <2>3, ListenerCalm DEF Accepts
  <2>4. ASSUME Head(s) \in Plain PROVE todo'[Listener] = Tail(s) \/ todo'[Listener] \in Seq(Calm)
    <3>1. Seq(Plain) \subseteq Seq(Calm)
      BY PlainSet
    <3> QED BY <1>1, <2>4, <3>1, PlainStep
  <2>5. ASSUME NEW fd \in Fds, ToTables(fd) PROVE Accepts'
    <3>1. CASE Head(s) \in Plain /\ Upto(Plain, Tail(s), Entry(fd) \o Tell(fd))
      BY <2>1, <2>4, <2>5, <3>1 DEF Accepts, ToTables
    <3>2. CASE s = Entry(fd) \o Tell(fd)
      <4> DEFINE r == <<Do("add", fd)>> \o Tell(fd)
      <4>1. /\ Tell(fd) \in Seq(Steps) /\ Do("table", fd) \in Steps
        BY AcceptShape, StepSet
      <4>2. /\ s = <<Do("table", fd)>> \o (<<Release(Three)>> \o r)
            /\ <<Release(Three)>> \o r \in Seq(Steps)
            /\ Upto(Plain, <<Release(Three)>> \o r, r)
        BY <3>2, <4>1, EntryShape
      <4> HIDE DEF r
      <4>3. Head(s) = Do("table", fd) /\ Upto(Plain, Tail(s), r)
        BY <4>1, <4>2, ConsParts
      <4>4. tabled' = tabled \cup {fd} /\ todo'[Listener] = Tail(s)
        BY <1>1, <1>2, <4>3, StepTables DEF Do
      <4> QED BY <2>1, <2>5, <4>3, <4>4 DEF Accepts, ToTables, ToPoll, r
    <3> QED BY <1>1, <2>5, <3>1, <3>2, UptoStep DEF ToTables
  <2>6. ASSUME NEW fd \in Fds, ToPoll(fd) PROVE Accepts'
    <3> DEFINE r == <<Do("add", fd)>> \o Tell(fd)
    <3>1. s # r
      <4>1. Head(r) = Do("add", fd)
        BY AcceptShape, StepSet, ConsParts
      <4> QED BY <1>6, <4>1 DEF Do
    <3>2. Upto(Plain, s, r) /\ fd \notin polled /\ (fd \in tabled \/ Trapped)
      BY <2>6 DEF ToPoll
    <3> HIDE DEF r
    <3>3. Head(s) \in Plain /\ Upto(Plain, Tail(s), r)
      BY <1>1, <3>1, <3>2, UptoStep
    <3>4. fd \notin polled' /\ (fd \in tabled' \/ Trapped')
      BY <1>3, <2>1, <3>2
    <3> QED BY <2>4, <3>3, <3>4 DEF Accepts, ToPoll, r
  <2>7. ASSUME NEW fd \in Fds, s = Tell(fd) PROVE Accepts'
    <3>1. todo'[Listener] = Tail(s)
      <4>1. Head(s).what = "lock"
        BY <2>7, TellShape DEF Lock, Do
      <4> QED BY <1>1, <4>1, StepPlain
    <3> QED BY <2>7, <3>1, TellShape DEF Accepts
  <2> QED BY <2>2, <2>3, <2>5, <2>6, <2>7 DEF Accepts
<1> QED BY <1>5, <1>6

\* Together.
LEMMA ListenerAlone ==
  ASSUME LockInv, AloneInv, Step(Listener)
  PROVE  AloneInv'
<1>1. /\ ~aborted /\ overlapped' = overlapped /\ ~Idle(Listener)
      /\ \A t \in Threads : t # Listener => todo'[t] = todo[t]
  BY ThreadFacts, StepOthers
<1>2. ~Idle(Reader)' => polled' # {}
  BY <1>1, ListenerData, ThreadFacts DEF AloneInv, Idle
<1>3. SUFFICES ASSUME ~overlapped, ~aborted
               PROVE  /\ Solo' /\ Accepts' /\ World'
                      /\ \A a \in Apps : ~Idle(a)' => Frees(a)' \/ Elsewhere(a)'
  BY <1>1, <1>2 DEF AloneInv
<1>4. Accepts' /\ World'
  BY <1>3, ListenerAccepts DEF AloneInv
<1>5. \A a \in Apps : Idle(a)' <=> Idle(a)
  BY <1>1, ThreadFacts DEF Idle
<1>6. Solo'
  BY <1>3, <1>5 DEF AloneInv, Solo
<1>7. ASSUME NEW a \in Apps, ~Idle(a) PROVE Frees(a)' \/ Elsewhere(a)'
  BY <1>3, <1>7, ListenerFrees, ListenerElsewhere DEF AloneInv
<1> QED BY <1>4, <1>5, <1>6, <1>7
-----------------------------------------------------------------------------
(* Steps that are neither the application's nor the listen thread's *)

\* Such a step leaves the application and the listen thread where they are.
LEMMA QuietKept ==
  ASSUME LockInv, AloneInv, Same, UNCHANGED <<ofdev_type, overlapped>>, ~aborted' => ~aborted,
         \A t \in Threads : t # Reader => todo'[t] = todo[t] /\ call'[t] = call[t],
         \A a \in Apps : /\ owner["dev"] = a => owner'["dev"] = a
                         /\ owner["chan"] # a => owner'["chan"] # a,
         ~Idle(Reader)' => polled' # {}
  PROVE  AloneInv'
<1>1. SUFFICES ASSUME ~overlapped, ~aborted
               PROVE  /\ Solo' /\ Accepts' /\ World'
                      /\ \A a \in Apps : ~Idle(a)' => Frees(a)' \/ Elsewhere(a)'
  BY DEF AloneInv
<1>2. Solo /\ Accepts /\ World /\ \A a \in Apps : ~Idle(a) => Frees(a) \/ Elsewhere(a)
  BY <1>1 DEF AloneInv
<1>3. \A a \in Apps : todo'[a] = todo[a] /\ call'[a] = call[a]
  BY ThreadFacts
<1>4. todo'[Listener] = todo[Listener]
  BY ThreadFacts
<1>5. UNCHANGED <<registered, listening, tabled, polled>>
  BY DEF Same
<1>6. /\ \A a \in Apps : Idle(a)' <=> Idle(a)
      /\ Idle(Listener)' <=> Idle(Listener)
      /\ AtDev' <=> AtDev
      /\ Clear' <=> Clear
      /\ \A fd \in Fds : Pending(fd)' <=> Pending(fd)
  BY <1>3, <1>4, <1>5 DEF Idle, AtDev, Clear, Pending
<1>7. ASSUME NEW a \in Apps, Frees(a) PROVE Frees(a)'
  <2>1. Starts(a) => Starts(a)'
    BY <1>3 DEF Starts
  <2>2. Emptied(a) => Emptied(a)'
    BY <1>3, <1>5 DEF Emptied
  <2>3. \A fd \in Fds : Begins(a, fd) => Begins(a, fd)'
    BY <1>3 DEF Begins
  <2>4. \A fd \in Fds : Midway(a, fd) => Midway(a, fd)'
    BY <1>3, <1>5, <1>6 DEF Midway
  <2> QED BY <1>3, <1>7, <2>1, <2>2, <2>3, <2>4 DEF Frees
<1>8. Trapped => Trapped'
  BY <1>7 DEF Trapped
<1>9. ASSUME NEW a \in Apps, Elsewhere(a) PROVE Elsewhere(a)'
  <2>1. Returns(a) => Returns(a)'
    BY <1>3 DEF Returns
  <2>2. Registers(a) => Registers(a)'
    BY <1>3, <1>5 DEF Registers
  <2>3. Ends(a) => Ends(a)'
    BY <1>3, <1>6 DEF Ends
  <2>4. BeforeDevices(a) => BeforeDevices(a)'
    BY <1>3 DEF BeforeDevices
  <2>5. AfterDevices(a) => AfterDevices(a)'
    BY <1>3, <1>5 DEF AfterDevices
  <2>6. \A fd \in Fds : Creates(a, fd) => Creates(a, fd)'
    BY <1>3, <1>5 DEF Creates
  <2>7. \A fd \in Fds : Destroys(a, fd) => Destroys(a, fd)'
    BY <1>3, <1>5, <1>6 DEF Destroys
  <2> QED BY <1>9, <2>1, <2>2, <2>3, <2>4, <2>5, <2>6, <2>7 DEF Elsewhere
<1>10. Accepts'
  <2>1. \A fd \in Fds : ToTables(fd) => ToTables(fd)'
    BY <1>4, <1>5 DEF ToTables
  <2>2. \A fd \in Fds : ToPoll(fd) => ToPoll(fd)'
    BY <1>4, <1>5, <1>8 DEF ToPoll
  <2> QED BY <1>2, <1>4, <2>1, <2>2 DEF Accepts
<1>11. World'
  BY <1>2, <1>5, <1>6, <1>8 DEF World
<1>12. Solo'
  BY <1>2, <1>6 DEF Solo
<1> QED BY <1>2, <1>6, <1>7, <1>9, <1>10, <1>11, <1>12

\* The read-write thread.
LEMMA ReaderAlone ==
  ASSUME LockInv, AloneInv, Step(Reader)
  PROVE  AloneInv'
<1> DEFINE x == Head(todo[Reader])
<1>1. /\ Reader \in Threads /\ ~Idle(Reader) /\ ~aborted /\ \A a \in Apps : a # Reader /\ a # None
      /\ UNCHANGED <<ofdev_type, overlapped, call>>
      /\ \A t \in Threads : t # Reader => todo'[t] = todo[t]
  BY StepOthers, ThreadFacts
<1>2. call[Reader] \in {"idle", "receive", "pollout"}
  BY DEF LockInv, Disciplined
<1>3. x \in Steps /\ Fits(call[Reader], Holds(Reader), x) /\ Holds(Reader) # Never
  BY <1>1, AtHead
<1> HIDE DEF x
<1>4. x.what \in {"lock", "pass", "release", "put", "assert", "find", "finddev", "callback"}
  BY <1>2, <1>3 DEF Fits, Twice, TearDown
<1> USE DEF x
<1>5. Same
  <2>1. CASE x.what \in {"lock", "pass", "release", "put", "assert"}
    BY <1>1, <2>1, StepPlain
  <2>2. CASE x.what \in {"find", "finddev"}
    BY <1>1, <2>2, StepLookup
  <2>3. CASE x.what = "callback"
    BY <1>1, <2>3, StepCallback
  <2> QED BY <1>4, <2>1, <2>2, <2>3
<1>6. \A a \in Apps : /\ owner["dev"] = a => owner'["dev"] = a
                      /\ owner["chan"] # a => owner'["chan"] # a
  <2>1. "dev" \in Locks /\ "chan" \in Locks
    BY StepSet
  <2>2. CASE x.what = "lock"
    BY <1>1, <2>1, <2>2, StepOwner
  <2>3. CASE x.what = "release"
    BY <1>1, <2>1, <2>3, StepOwner DEF Holds
  <2>4. CASE x.what \notin {"lock", "release"}
    BY <1>1, <2>4, StepOwner
  <2> QED BY <2>2, <2>3, <2>4
<1>7. polled' # {}
  BY <1>1, <1>5 DEF AloneInv, Same
<1> QED BY <1>1, <1>5, <1>6, <1>7, QuietKept

\* Events of the read-write thread.
LEMMA ReaderEvents ==
  ASSUME LockInv, AloneInv,
         TakeMessage \/ \E fd \in Fds : RwPollin(fd) \/ RwPollout(fd)
  PROVE  AloneInv'
<1>1. todo \in [Threads -> Seq(Steps)] /\ DOMAIN call = Threads
  BY DEF LockInv, Disciplined
<1>2. CASE TakeMessage
  <2>1. /\ Same /\ UNCHANGED <<ofdev_type, overlapped, todo, call, owner>> /\ ~aborted
    BY <1>2 DEF TakeMessage, Same
  <2>2. ~Idle(Reader)' => polled' # {}
    BY <2>1 DEF AloneInv, Idle, Same
  <2> QED BY <2>1, <2>2, QuietKept
<1>3. ASSUME NEW fd \in Fds, RwPollin(fd) \/ RwPollout(fd) PROVE AloneInv'
  <2>1. /\ Same /\ UNCHANGED <<ofdev_type, overlapped, owner, aborted>> /\ fd \in polled
    BY <1>3 DEF RwPollin, RwPollout, Event, Same
  <2>2. \A t \in Threads : t # Reader => todo'[t] = todo[t] /\ call'[t] = call[t]
    BY <1>1, <1>3 DEF RwPollin, RwPollout, Event
  <2>3. polled' # {}
    BY <2>1 DEF Same
  <2> QED BY <2>1, <2>2, <2>3, QuietKept
<1> QED BY <1>2, <1>3
-----------------------------------------------------------------------------
(* What the listen thread has yet to add *)

\* The ADD in an accepted connection's way.
LEMMA EntryAdds ==
  ASSUME NEW fd \in Fds, NEW e \in Fds
  PROVE  /\ \A s \in Seq(Steps) : Upto(Plain, s, Entry(fd) \o Tell(fd)) =>
              \A i \in 1 .. Len(s) : s[i] = Do("add", e) => e = fd
         /\ \A s \in Seq(Steps) : Upto(Plain, s, <<Do("add", fd)>> \o Tell(fd)) =>
              /\ \A i \in 1 .. Len(s) : s[i] = Do("add", e) => e = fd
              /\ \E i \in 1 .. Len(s) : s[i] = Do("add", fd)
<1>1. /\ Tell(fd) \in Seq(Calm) /\ Tell(fd) \in Seq(Steps) /\ Entry(fd) \in Seq(Steps)
      /\ <<Do("add", fd)>> \in Seq(Steps)
  BY AcceptShape, AddSocketShape, StepSet
<1>2. \A x \in Plain \cup Calm : x # Do("add", e)
  BY DEF Plain, Calm, Do
<1>3. ASSUME NEW p \in Seq(Steps), \A i \in 1 .. Len(p) : p[i] = Do("add", e) => e = fd,
             NEW s \in Seq(Steps), Upto(Plain, s, p \o Tell(fd)), NEW i \in 1 .. Len(s), s[i] = Do("add", e)
      PROVE  e = fd
  <2> DEFINE r == p \o Tell(fd)
  <2>1. /\ r \in Seq(Steps) /\ Len(p) \in Nat /\ Len(Tell(fd)) \in Nat /\ Len(r) = Len(p) + Len(Tell(fd))
        /\ \A j \in 1 .. Len(p) : r[j] = p[j]
        /\ \A j \in 1 .. Len(Tell(fd)) : r[Len(p) + j] = Tell(fd)[j]
    BY <1>1
  <2> HIDE DEF r
  <2>2. Upto(Plain, s, r) /\ s[i] \notin Plain
    BY <1>2, <1>3 DEF r
  <2>3. PICK j \in 1 .. Len(r) : r[j] = Do("add", e)
    BY <1>3, <2>2, UptoFrom
  <2>4. CASE j <= Len(p)
    BY <1>3, <2>1, <2>3, <2>4
  <2>5. CASE j > Len(p)
    <3>1. j - Len(p) \in 1 .. Len(Tell(fd)) /\ Len(p) + (j - Len(p)) = j
      BY <2>1, <2>5
    <3>2. Tell(fd)[j - Len(p)] = Do("add", e) /\ Tell(fd)[j - Len(p)] \in Calm
      BY <1>1, <2>1, <2>3, <3>1
    <3> QED BY <1>2, <3>2
  <2> QED BY <2>1, <2>4, <2>5
<1>4. \A i \in 1 .. Len(Entry(fd)) : Entry(fd)[i] = Do("add", e) => e = fd
  <2>1. /\ Len(Entry(fd)) = 3 /\ Entry(fd)[1] = Do("table", fd) /\ Entry(fd)[2] = Release(Three)
        /\ Entry(fd)[3] = Do("add", fd)
    BY DEF Entry
  <2> QED BY <2>1 DEF Do, Release
<1>5. \A i \in 1 .. Len(<<Do("add", fd)>>) : <<Do("add", fd)>>[i] = Do("add", e) => e = fd
  <2>1. Len(<<Do("add", fd)>>) = 1 /\ <<Do("add", fd)>>[1] = Do("add", fd)
    OBVIOUS
  <2> QED BY <2>1 DEF Do
<1>6. ASSUME NEW s \in Seq(Steps), Upto(Plain, s, <<Do("add", fd)>> \o Tell(fd))
      PROVE  \E i \in 1 .. Len(s) : s[i] = Do("add", fd)
  <2> DEFINE r == <<Do("add", fd)>> \o Tell(fd)
  <2>1. 1 \in 1 .. Len(r) /\ r[1] = Do("add", fd) /\ Upto(Plain, s, r)
    BY <1>1, <1>6
  <2> HIDE DEF r
  <2> QED BY <2>1, UptoHas
<1>7. ASSUME NEW s \in Seq(Steps), Upto(Plain, s, Entry(fd) \o Tell(fd)),
             NEW i \in 1 .. Len(s), s[i] = Do("add", e)
      PROVE  e = fd
  BY <1>1, <1>3, <1>4, <1>7
<1>8. ASSUME NEW s \in Seq(Steps), Upto(Plain, s, <<Do("add", fd)>> \o Tell(fd)),
             NEW i \in 1 .. Len(s), s[i] = Do("add", e)
      PROVE  e = fd
  <2> DEFINE p == <<Do("add", fd)>>
  <2>1. p \in Seq(Steps) /\ (\A k \in 1 .. Len(p) : p[k] = Do("add", e) => e = fd) /\ Upto(Plain, s, p \o Tell(fd))
    BY <1>1, <1>5, <1>8
  <2> HIDE DEF p
  <2> QED BY <1>3, <1>8, <2>1
<1> QED BY <1>6, <1>7, <1>8

\* What is pending is not yet polled, and what is on its way to the thread is
\* pending.
LEMMA PendingFacts ==
  ASSUME LockInv, Accepts, NEW fd \in Fds
  PROVE  (Pending(fd) => fd \notin polled) /\ (ToPoll(fd) => Pending(fd))
<1> DEFINE s == todo[Listener]
<1>1. s \in Seq(Steps)
  BY ThreadFacts DEF LockInv, Disciplined
<1>2. ToPoll(fd) => Pending(fd)
  BY <1>1, EntryAdds DEF ToPoll, Pending
<1>3. ASSUME NEW i \in 1 .. Len(s), s[i] = Do("add", fd) PROVE fd \notin polled
  <2>1. ASSUME NEW e \in Fds, ToTables(e) PROVE fd \notin polled
    <3>1. Upto(Plain, s, Entry(e) \o Tell(e)) /\ e \notin polled
      BY <2>1 DEF ToTables
    <3>2. \A k \in 1 .. Len(s) : s[k] = Do("add", fd) => fd = e
      BY <1>1, <3>1, EntryAdds
    <3>3. fd = e
      BY <1>3, <3>2
    <3> QED BY <3>1, <3>3
  <2>2. ASSUME NEW e \in Fds, ToPoll(e) PROVE fd \notin polled
    <3>1. Upto(Plain, s, <<Do("add", e)>> \o Tell(e)) /\ e \notin polled
      BY <2>2 DEF ToPoll
    <3>2. fd = e
      BY <1>1, <1>3, <3>1, EntryAdds
    <3> QED BY <3>1, <3>2
  <2>3. s \notin Seq(Calm)
    BY <1>3 DEF Calm, Do
  <2>4. \A e \in Fds : s # Tell(e)
    BY <2>3, AcceptShape
  <2> QED BY <2>1, <2>2, <2>3, <2>4 DEF Accepts
<1> QED BY <1>2, <1>3 DEF Pending

\* A connection is accepted.
LEMMA ListenAlone ==
  ASSUME LockInv, AloneInv, NEW fd \in Fds, ListenPollin(fd)
  PROVE  AloneInv'
<1>1. todo \in [Threads -> Seq(Steps)] /\ DOMAIN call = Threads /\ Listener \in Threads
      /\ Reader # Listener /\ Reader \in Threads
  BY ThreadFacts DEF LockInv, Disciplined
<1>2. /\ Idle(Listener) /\ listening /\ Fresh(fd) /\ ~aborted
      /\ UNCHANGED <<ofdev_type, owner, registered, listening, tabled, polled, overlapped, aborted>>
      /\ todo'[Listener] = Accept(fd)
      /\ \A t \in Threads : t # Listener => todo'[t] = todo[t] /\ call'[t] = call[t]
  BY <1>1 DEF ListenPollin, Event, Serves
<1>3. ~Idle(Reader)' => polled' # {}
  BY <1>1, <1>2 DEF AloneInv, Idle
<1>4. SUFFICES ASSUME ~overlapped
               PROVE  /\ Solo' /\ Accepts' /\ World'
                      /\ \A a \in Apps : ~Idle(a)' => Frees(a)' \/ Elsewhere(a)'
  BY <1>2, <1>3 DEF AloneInv
<1>5. Solo /\ Accepts /\ World /\ \A a \in Apps : ~Idle(a) => Frees(a) \/ Elsewhere(a)
  BY <1>2, <1>4 DEF AloneInv
<1>6. registered /\ ofdev_type # "SWITCH" /\ ~Clear /\ polled \subseteq tabled /\ ~AtDev
  BY <1>2, <1>5 DEF World, Clear, AtDev
<1>7. World'
  BY <1>2, <1>6 DEF World
<1>8. fd \notin polled /\ fd \notin InUse
  BY <1>2 DEF Fresh, InUse
<1>9. Accepts'
  <2>1. ToTables(fd)'
    BY <1>2, <1>8, AcceptShape DEF ToTables
  <2> QED BY <2>1 DEF Accepts
<1>10. \A a \in Apps : todo'[a] = todo[a] /\ call'[a] = call[a] /\ (Idle(a)' <=> Idle(a))
  BY <1>2, ThreadFacts DEF Idle
<1>11. ASSUME NEW a \in Apps, Frees(a) PROVE Frees(a)'
  <2>1. Starts(a) => Starts(a)'
    BY <1>2, <1>10 DEF Starts
  <2>2. Emptied(a) => Emptied(a)'
    BY <1>2, <1>10 DEF Emptied
  <2>3. \A e \in Fds : Begins(a, e) => Begins(a, e)'
    BY <1>2, <1>10 DEF Begins
  <2>4. \A e \in Fds : Midway(a, e) => Midway(a, e)'
    BY <1>2, <1>6, <1>10 DEF Midway
  <2> QED BY <1>10, <1>11, <2>1, <2>2, <2>3, <2>4 DEF Frees
<1>12. ASSUME NEW a \in Apps, Elsewhere(a) PROVE Elsewhere(a)'
  <2>1. Returns(a) => Returns(a)'
    BY <1>10 DEF Returns
  <2>2. Registers(a) => Registers(a)'
    BY <1>2, <1>10 DEF Registers
  <2>3. BeforeDevices(a) => BeforeDevices(a)'
    BY <1>10 DEF BeforeDevices
  <2>4. ~Ends(a) /\ ~AfterDevices(a) /\ \A e \in Fds : ~Creates(a, e)
    BY <1>6 DEF Ends, AfterDevices, Creates
  <2>5. ASSUME NEW e \in Fds, Destroys(a, e) PROVE Destroys(a, e)'
    <3>1. e # fd
      <4> DEFINE r == CloseConn(e) \o <<Release(Three)>>
                 q == <<Do("untable", e), Release(Three)>>
      <4>1. todo[a] \in Seq(Steps) /\ a \in Threads
        BY <1>1, ThreadFacts
      <4>2. 3 \in 1 .. Len(r) /\ r[3] = Do("untable", e)
        BY DEF CloseConn
      <4>3. 1 \in 1 .. Len(q) /\ q[1] = Do("untable", e)
        OBVIOUS
      <4>4. Upto(Plain, todo[a], r) \/ Upto(Plain, todo[a], q)
        BY <2>5 DEF Destroys
      <4> HIDE DEF r, q
      <4>5. \E i \in 1 .. Len(todo[a]) : todo[a][i] = Do("untable", e)
        <5>1. CASE Upto(Plain, todo[a], r)
          BY <4>1, <4>2, <5>1, UptoHas
        <5>2. CASE Upto(Plain, todo[a], q)
          BY <4>1, <4>3, <5>2, UptoHas
        <5> QED BY <4>4, <5>1, <5>2
      <4>6. PICK i \in DOMAIN todo[a] : todo[a][i] = Do("untable", e)
        BY <4>1, <4>5
      <4>7. Concerns(todo[a][i], e)
        BY <4>6 DEF Concerns, Do
      <4> QED BY <1>8, <4>1, <4>6, <4>7 DEF InUse
    <3>2. ~Pending(e)'
      <4>1. Accept(fd) \in Seq(Steps)
        BY GoodAccept DEF Good
      <4>2. \A i \in 1 .. Len(Accept(fd)) : Accept(fd)[i] # Do("add", e)
        BY <3>1, <4>1, AcceptShape, EntryAdds, ZenonT(60)
      <4> QED BY <1>2, <4>2 DEF Pending
    <3> QED BY <1>2, <1>10, <2>5, <3>2 DEF Destroys
  <2> QED BY <1>12, <2>1, <2>2, <2>3, <2>4, <2>5 DEF Elsewhere
<1>13. Solo'
  BY <1>5, <1>10 DEF Solo
<1> QED BY <1>5, <1>7, <1>9, <1>10, <1>11, <1>12, <1>13
-----------------------------------------------------------------------------
(* Steps of the application *)

\* What a step of the application's thread leaves behind.
Keeps(a) ==
  /\ registered' \/ Clear'
  /\ listening' => listening \/ ofdev_type = "CONTROLLER"
  /\ polled' \subseteq tabled' \/ (Trapped' /\ AtDev)
  /\ Idle(Listener) \/ /\ polled' \subseteq polled /\ (Trapped => Trapped')
                       /\ \A fd \in tabled \ tabled' : Trapped' \/ ~Pending(fd)
  /\ Idle(a)' \/ Frees(a)' \/ Elsewhere(a)'

\* It is enough.
LEMMA AppKept ==
  ASSUME LockInv, AloneInv, NEW a \in Apps, Step(a), ~overlapped /\ ~aborted' => Keeps(a)
  PROVE  AloneInv'
<1>1. /\ a \in Threads /\ Listener \in Threads /\ Reader \in Threads /\ a # Listener /\ a # Reader
      /\ \A b \in Apps : b \in Threads
  BY ThreadFacts
<1>2. /\ ~Idle(a) /\ ~aborted /\ UNCHANGED <<ofdev_type, call, overlapped>>
      /\ \A u \in Threads : u # a => todo'[u] = todo[u]
  BY <1>1, StepOthers
<1>3. polled' = polled \/ Idle(Reader)
  BY <1>1 DEF Step, TakeLock, PassLock, ReleaseLocks, AskReader, AskListener, EndThread, Put, EditTables,
     TableFails, Lookup, AssertDevice, Walk, CallBack, Serves, data
<1>4. ~Idle(Reader)' => polled' # {}
  BY <1>1, <1>2, <1>3 DEF AloneInv, Idle
<1>5. SUFFICES ASSUME ~overlapped, ~aborted'
               PROVE  /\ Solo' /\ Accepts' /\ World'
                      /\ \A b \in Apps : ~Idle(b)' => Frees(b)' \/ Elsewhere(b)'
  BY <1>2, <1>4 DEF AloneInv
<1>6. Solo /\ Accepts /\ World /\ Keeps(a)
  BY <1>2, <1>5 DEF AloneInv
<1>7. todo'[Listener] = todo[Listener] /\ (Idle(Listener)' <=> Idle(Listener)) /\ (AtDev' <=> AtDev)
  BY <1>1, <1>2 DEF Idle, AtDev
<1>8. \A b \in Apps : b # a => Idle(b) /\ Idle(b)'
  BY <1>1, <1>2, <1>6 DEF Solo, Idle
<1>9. Solo' /\ \A b \in Apps : ~Idle(b)' => Frees(b)' \/ Elsewhere(b)'
  BY <1>6, <1>8 DEF Solo, Keeps
<1>10. World'
  BY <1>2, <1>6, <1>7 DEF World, Keeps
<1>11. Accepts'
  <2>1. CASE Idle(Listener)
    <3>1. todo'[Listener] = <<>> /\ <<>> \in Seq(Calm)
      BY <1>7, <2>1 DEF Idle
    <3> QED BY <3>1 DEF Accepts
  <2>2. CASE ~Idle(Listener)
    <3>1. /\ polled' \subseteq polled /\ (Trapped => Trapped')
          /\ \A fd \in tabled \ tabled' : Trapped' \/ ~Pending(fd)
      BY <1>6, <2>2 DEF Keeps
    <3>2. \A fd \in Fds : ToTables(fd) => ToTables(fd)'
      BY <1>7, <3>1 DEF ToTables
    <3>3. ASSUME NEW fd \in Fds, ToPoll(fd) PROVE ToPoll(fd)'
      <4>1. Pending(fd)
        BY <1>6, <3>3, PendingFacts
      <4>2. fd \in tabled' \/ Trapped'
        BY <3>1, <3>3, <4>1 DEF ToPoll
      <4> QED BY <1>7, <3>1, <3>3, <4>2 DEF ToPoll
    <3> QED BY <1>6, <1>7, <3>2, <3>3 DEF Accepts
  <2> QED BY <2>1, <2>2
<1> QED BY <1>9, <1>10, <1>11

\* Nothing is owned by a thread that is in no call.
LEMMA IdleHoldsNothing ==
  ASSUME LockInv, NEW t \in Threads, Idle(t), NEW l \in Locks
  PROVE  owner[l] # t
<1>1. Good(call[t], Holds(t), <<>>) /\ Holds(t) \in SUBSET Locks
  BY DEF LockInv, Disciplined, Idle, Holds
<1>2. Holds(t) = {}
  BY <1>1, GoodEnd
<1> QED BY <1>2 DEF Holds

\* Only the thread that is inside can be the one that frees the device.
LEMMA TrappedBy ==
  ASSUME LockInv, Solo, Trapped, NEW a \in Apps, ~Idle(a)
  PROVE  owner["dev"] = a /\ Frees(a)
<1>1. PICK b \in Apps : owner["dev"] = b /\ Frees(b)
  BY DEF Trapped
<1>2. "dev" \in Locks /\ b \in Threads
  BY StepSet, ThreadFacts
<1>3. ~Idle(b)
  BY <1>1, <1>2, IdleHoldsNothing
<1> QED BY <1>1, <1>3 DEF Solo

\* A step that changes nothing but the place of a thread that frees no device.
LEMMA QuietStep ==
  ASSUME World, ~Trapped, Same, Clear' <=> Clear, NEW a \in Apps,
         Idle(a)' \/ Frees(a)' \/ Elsewhere(a)'
  PROVE  Keeps(a)
BY DEF World, Same, Keeps

\* The locks and the listen thread in a step of the application.
LEMMA AppFacts ==
  ASSUME LockInv, NEW a \in Apps, Step(a)
  PROVE  /\ a \in Threads /\ todo[a] \in Seq(Steps) /\ todo[a] # <<>> /\ ~Idle(a)
         /\ Head(todo[a]) \in Steps /\ Fits(call[a], Holds(a), Head(todo[a])) /\ Holds(a) # Never
         /\ call' = call /\ ofdev_type' = ofdev_type
         /\ todo'[Listener] = todo[Listener] /\ (Idle(Listener)' <=> Idle(Listener)) /\ (AtDev' <=> AtDev)
         /\ \A fd \in Fds : Pending(fd)' <=> Pending(fd)
<1>1. a \in Threads /\ Listener \in Threads /\ a # Listener
  BY ThreadFacts
<1>2. /\ ~Idle(a) /\ call' = call /\ ofdev_type' = ofdev_type /\ todo'[Listener] = todo[Listener]
  BY <1>1, StepOthers
<1>3. todo[a] \in Seq(Steps) /\ todo[a] # <<>>
  BY <1>1, <1>2 DEF LockInv, Disciplined, Idle
<1>4. /\ Head(todo[a]) \in Steps /\ Fits(call[a], Holds(a), Head(todo[a])) /\ Holds(a) # Never
  BY <1>1, <1>2, AtHead
<1> QED BY <1>1, <1>2, <1>3, <1>4 DEF Idle, AtDev, Pending
-----------------------------------------------------------------------------
(* Freeing a device *)

\* The thread that frees the device keeps the device lock.
LEMMA FreesKeep ==
  ASSUME World, NEW a \in Apps, Frees(a)',
         owner["dev"] = a => owner'["dev"] = a, Trapped => owner["dev"] = a,
         UNCHANGED <<registered, listening>>, polled' \subseteq polled,
         registered \/ (tabled' \subseteq tabled /\ Clear /\ todo'[Listener] = todo[Listener]),
         polled' \subseteq tabled' \/ (owner["dev"] = a /\ AtDev),
         tabled \subseteq tabled' \/ owner["dev"] = a
  PROVE  Keeps(a)
<1>1. owner["dev"] = a => Trapped'
  BY DEF Trapped
<1>2. registered' \/ Clear'
  BY DEF Clear, Idle
<1> QED BY <1>1, <1>2 DEF Keeps

\* Before the loop and at its head.
LEMMA StartsStep ==
  ASSUME LockInv, Solo, World, NEW a \in Apps, Step(a), call[a] \in {"dev_free", "lib_free"}, Starts(a)
  PROVE  Keeps(a)
<1> DEFINE s == todo[a]
           c == call[a]
           x == Head(s)
           X == Approach(c)
<1>1. /\ a \in Threads /\ s \in Seq(Steps) /\ s # <<>> /\ ~Idle(a) /\ call' = call
      /\ x \in Steps /\ Fits(c, Holds(a), x) /\ Holds(a) # Never /\ todo'[Listener] = todo[Listener]
  BY AppFacts
<1>2. "dev" \in Locks /\ (Trapped => owner["dev"] = a) /\ a # None
  BY <1>1, StepSet, TrappedBy, ThreadFacts
<1>3. c = "lib_free" => owner["dev"] = a
  BY DEF Starts
<1>4. ASSUME Same, Frees(a)', owner["dev"] = a => owner'["dev"] = a
      PROVE  Keeps(a)
  <2>1. UNCHANGED <<registered, listening, tabled, polled>> /\ (registered \/ Clear)
    BY <1>4 DEF Same, World
  <2>2. polled' \subseteq tabled' \/ (owner["dev"] = a /\ AtDev)
    BY <1>2, <2>1 DEF World
  <2> QED BY <1>1, <1>2, <1>4, <2>1, <2>2, FreesKeep
<1>5. CASE x \in X /\ Upto(X, Tail(s), Loop(c))
  <2>1. x.what \in {"lock", "assert"}
    BY <1>5 DEF Approach
  <2>2. Same /\ todo'[a] = Tail(s)
    BY <1>1, <2>1, StepPlain
  <2>3. owner["dev"] = a => owner'["dev"] = a
    <3>1. CASE x.what = "lock"
      BY <1>1, <1>2, <3>1, StepOwner
    <3>2. CASE x.what = "assert"
      BY <1>1, <3>2, StepOwner
    <3> QED BY <2>1, <3>1, <3>2
  <2>4. Starts(a)'
    BY <1>1, <1>3, <1>5, <2>2, <2>3 DEF Starts
  <2>5. Frees(a)'
    BY <1>1, <2>4 DEF Frees
  <2> QED BY <1>4, <2>2, <2>3, <2>5
<1>6. CASE s = Loop(c)
  <2> DEFINE e == <<Do("unlisten", None)>> \o Ending(c)
  <2>1. Loop(c) \in Seq(Steps) /\ Loop(c) = <<Do("walk", None)>> \o e /\ Ending(c) \in Seq(Steps)
    BY EndingShape
  <2>2. e \in Seq(Steps) /\ Do("walk", None) \in Steps
    BY <2>1, StepSet, ConsParts
  <2>3. x = Do("walk", None) /\ Tail(s) = e
    BY <1>6, <2>1, <2>2, ConsParts
  <2>4. x.what = "walk"
    BY <2>3 DEF Do
  <2>5. owner["dev"] = a
    <3>1. Holds(a) = Three
      BY <1>1, <2>4 DEF Fits, Twice
    <3> QED BY <3>1 DEF Holds, Three
  <2>6. owner' = owner
    BY <1>1, <2>4, StepOwner
  <2>7. /\ Same
        /\ \/ tabled = {} /\ todo'[a] = e
           \/ \E fd \in tabled : todo'[a] = CloseConn(fd) \o s
    BY <1>1, <2>3, <2>4, StepWalk
  <2>8. CASE tabled = {} /\ todo'[a] = e
    <3>1. Emptied(a)'
      BY <1>1, <2>5, <2>6, <2>7, <2>8 DEF Emptied, Same
    <3>2. Frees(a)'
      BY <1>1, <3>1 DEF Frees
    <3> QED BY <1>4, <2>6, <2>7, <3>2
  <2>9. ASSUME NEW fd \in tabled, todo'[a] = CloseConn(fd) \o s PROVE Keeps(a)
    <3>1. fd \in Fds
      BY DEF LockInv, TypeOK
    <3>2. Begins(a, fd)'
      BY <1>1, <1>6, <2>5, <2>6, <2>9 DEF Begins
    <3>3. Frees(a)'
      BY <1>1, <3>1, <3>2 DEF Frees
    <3> QED BY <1>4, <2>6, <2>7, <3>3
  <2> QED BY <2>7, <2>8, <2>9
<1>7. CASE Upto(X, s, Loop(c))
  <2>1. s = Loop(c) \/ (x \in X /\ Upto(X, Tail(s), Loop(c)))
    BY <1>1, <1>7, UptoStep
  <2> QED BY <1>5, <1>6, <2>1
<1>8. CASE /\ c = "lib_free" /\ owner["chan"] # a
           /\ s = <<Lock("chan")>> \o (<<Lock("rw"), Do("assert", None)>> \o Loop("lib_free"))
  <2> DEFINE p == <<Lock("rw"), Do("assert", None)>>
             e == p \o Loop("lib_free")
  <2>1. /\ Lock("rw") \in X /\ Do("assert", None) \in X /\ X \subseteq Steps
    BY PlainSet, StepSet DEF Approach, Lock, Do
  <2>2. p \in Seq(X) /\ p \in Seq(Steps) /\ Loop("lib_free") \in Seq(Steps) /\ Lock("chan") \in Steps
    BY <2>1, EndingShape, StepSet
  <2> HIDE DEF p, X
  <2>3. Upto(X, e, Loop("lib_free")) /\ e \in Seq(Steps)
    BY <2>1, <2>2, UptoPath
  <2>4. x = Lock("chan") /\ Tail(s) = e
    <3>1. s = <<Lock("chan")>> \o e
      BY <1>8 DEF p
    <3> HIDE DEF e
    <3> QED BY <2>2, <2>3, <3>1, ConsParts
  <2>5. x.what = "lock"
    BY <2>4 DEF Lock, Do
  <2> HIDE DEF e
  <2>6. Same /\ todo'[a] = e
    BY <1>1, <2>4, <2>5, StepPlain
  <2>7. owner["dev"] = a => owner'["dev"] = a
    BY <1>1, <1>2, <2>5, StepOwner
  <2>8. Starts(a)'
    BY <1>1, <1>3, <1>8, <2>3, <2>6, <2>7 DEF Starts, X
  <2>9. Frees(a)'
    BY <1>1, <2>8 DEF Frees
  <2> QED BY <1>4, <2>6, <2>7, <2>9
<1> QED BY <1>7, <1>8 DEF Starts

\* One socket of the loop.
LEMMA SocketStep ==
  ASSUME LockInv, Solo, World, NEW a \in Apps, Step(a), call[a] \in {"dev_free", "lib_free"},
         NEW fd \in Fds, Begins(a, fd) \/ Midway(a, fd)
  PROVE  Keeps(a)
<1> DEFINE s == todo[a]
           c == call[a]
           x == Head(s)
           u == <<Do("untable", fd)>> \o Loop(c)
           v == <<Pass("list"), Do("untable", fd)>> \o Loop(c)
<1>1. /\ a \in Threads /\ s \in Seq(Steps) /\ s # <<>> /\ ~Idle(a) /\ call' = call
      /\ todo'[Listener] = todo[Listener] /\ (AtDev' <=> AtDev)
  BY AppFacts
<1>2. "dev" \in Locks /\ owner["dev"] = a
  BY StepSet DEF Begins, Midway
<1>3. /\ Loop(c) \in Seq(Steps) /\ u \in Seq(Steps) /\ v \in Seq(Steps)
      /\ CloseConn(fd) \o Loop(c) = <<Do("delete", fd)>> \o v
      /\ v = <<Pass("list")>> \o u
      /\ Do("delete", fd) \in Steps /\ Pass("list") \in Steps /\ Do("untable", fd) \in Steps
  BY EndingShape, CloseShape, StepSet
<1>4. registered \/ (Clear /\ tabled = {} /\ polled = {})
  BY DEF World, Clear
<1>5. CASE Begins(a, fd)
  <2>1. s = <<Do("delete", fd)>> \o v
    BY <1>3, <1>5 DEF Begins
  <2> HIDE DEF v
  <2>2. x = Do("delete", fd) /\ Tail(s) = v
    BY <1>3, <2>1, ConsParts
  <2>3. x.what = "delete" /\ x.arg = fd
    BY <2>2 DEF Do
  <2>4. UNCHANGED <<registered, listening, tabled>> /\ todo'[a] = v /\ polled' = polled \ {fd}
    BY <1>1, <2>2, <2>3, StepReader
  <2>5. owner' = owner
    BY <1>1, <2>3, StepOwner
  <2>6. Midway(a, fd)'
    BY <1>1, <1>2, <2>4, <2>5 DEF Midway, v
  <2>7. Frees(a)'
    BY <1>1, <2>6 DEF Frees
  <2>8. polled' \subseteq tabled' \/ AtDev
    BY <2>4 DEF World
  <2> QED BY <1>1, <1>2, <1>4, <2>4, <2>5, <2>7, <2>8, FreesKeep
<1>6. CASE Midway(a, fd) /\ s = v
  <2> HIDE DEF u
  <2>1. x = Pass("list") /\ Tail(s) = u
    BY <1>3, <1>6, ConsParts
  <2>2. x.what = "pass"
    BY <2>1 DEF Pass, Do
  <2>3. Same /\ todo'[a] = u
    BY <1>1, <2>1, <2>2, StepPlain
  <2>4. owner' = owner
    BY <1>1, <2>2, StepOwner
  <2>5. Midway(a, fd)'
    BY <1>1, <1>2, <1>6, <2>3, <2>4 DEF Midway, u, Same
  <2>6. Frees(a)'
    BY <1>1, <2>5 DEF Frees
  <2>7. UNCHANGED <<registered, listening, tabled, polled>> /\ (polled' \subseteq tabled' \/ AtDev)
    BY <2>3 DEF World, Same
  <2> QED BY <1>1, <1>2, <1>4, <2>4, <2>6, <2>7, FreesKeep
<1>7. CASE Midway(a, fd) /\ s = u
  <2>1. x = Do("untable", fd) /\ Tail(s) = Loop(c)
    BY <1>3, <1>7, ConsParts
  <2>2. x.what = "untable" /\ x.arg = fd
    BY <2>1 DEF Do
  <2>3. UNCHANGED <<registered, listening, polled>> /\ tabled' = tabled \ {fd} /\ todo'[a] = Loop(c)
    BY <1>1, <2>1, <2>2, StepTables
  <2>4. owner' = owner
    BY <1>1, <2>2, StepOwner
  <2>5. Starts(a)'
    BY <1>1, <1>2, <1>3, <2>3, <2>4, UptoNil DEF Starts
  <2>6. Frees(a)'
    BY <1>1, <2>5 DEF Frees
  <2>7. polled' \subseteq tabled' \/ AtDev
    BY <1>7, <2>3 DEF World, Midway
  <2> QED BY <1>1, <1>2, <1>4, <2>3, <2>4, <2>6, <2>7, FreesKeep
<1> QED BY <1>5, <1>6, <1>7 DEF Midway

\* The end of the loop: the listen thread is asked.
LEMMA EmptiedStep ==
  ASSUME LockInv, World, NEW a \in Apps, Step(a), call[a] \in {"dev_free", "lib_free"}, Emptied(a)
  PROVE  Keeps(a)
<1> DEFINE s == todo[a]
           c == call[a]
           x == Head(s)
<1>1. /\ a \in Threads /\ call' = call /\ (Idle(Listener)' <=> Idle(Listener))
  BY AppFacts
<1>2. /\ s = <<Do("unlisten", None)>> \o Ending(c) /\ Ending(c) \in Seq(Steps) /\ Do("unlisten", None) \in Steps
      /\ tabled = {}
  BY EndingShape, StepSet DEF Emptied
<1>3. x = Do("unlisten", None) /\ Tail(s) = Ending(c)
  BY <1>2, ConsParts
<1>4. x.what = "unlisten"
  BY <1>3 DEF Do
<1>5. Idle(Listener) /\ UNCHANGED <<registered, tabled, polled>> /\ todo'[a] = Ending(c) /\ ~listening'
  BY <1>1, <1>3, <1>4, StepListener
<1>6. polled = {}
  BY <1>2, <1>5 DEF World, AtDev
<1>7. Clear'
  BY <1>1, <1>2, <1>5, <1>6 DEF Clear
<1>8. Ends(a)'
  BY <1>1, <1>5, <1>7 DEF Ends
<1> QED BY <1>2, <1>5, <1>6, <1>7, <1>8 DEF Keeps, Elsewhere
-----------------------------------------------------------------------------
(* The device's end, and cc_of_lib_free around it *)

\* Nothing is served any more, and no step of the last part changes that.
LEMMA ClearKeep ==
  ASSUME NEW a \in Apps, Clear, Clear', Elsewhere(a)' \/ Idle(a)'
  PROVE  Keeps(a)
BY DEF Keeps, Clear

\* The device's end: it is unregistered when nothing is served any more.
LEMMA EndsStep ==
  ASSUME LockInv, NEW a \in Apps, Step(a), Ends(a)
  PROVE  Keeps(a)
<1> DEFINE s == todo[a]
           c == call[a]
           x == Head(s)
           w == <<Do("unregister", None)>> \o LastPart
<1>1. a \in Threads /\ call' = call /\ (Idle(Listener)' <=> Idle(Listener)) /\ Clear
  BY AppFacts DEF Ends
<1>2. /\ Do("unregister", None) \in Steps /\ Release(Three) \in Steps /\ Release({"chan", "rw"}) \in Steps
      /\ LastPart \in Seq(Steps) /\ w \in Seq(Steps) /\ "chan" \in Locks /\ Release(Three) \in Plain
      /\ <<Release(Three)>> \in Seq(Steps) /\ a # None
  <2>1. w \in Seq(Steps) /\ LastPart \in Seq(Steps)
    BY EndingShape, CleanupShape
  <2> HIDE DEF w
  <2>2. Release(Three) \in Steps /\ Release(Three) \in Plain
    BY StepSet, PlainSet
  <2> QED BY <2>1, <2>2, StepSet, ThreadFacts
<1>3. CASE c = "dev_free" /\ s = Ending(c)
  <2>1. s = <<Do("unregister", None)>> \o <<Release(Three)>>
    BY <1>3, EndingShape
  <2>2. x = Do("unregister", None) /\ Tail(s) = <<Release(Three)>>
    BY <1>2, <2>1, ConsParts, ZenonT(60)
  <2>3. x.what = "unregister"
    BY <2>2 DEF Do
  <2>4. UNCHANGED <<listening, tabled, polled>> /\ todo'[a] = <<Release(Three)>>
    BY <1>1, <2>2, <2>3, StepDevice
  <2>5. Clear'
    BY <1>1, <2>4 DEF Clear
  <2>6. Returns(a)'
    BY <1>1, <1>2, <1>3, <2>4 DEF Returns
  <2> QED BY <1>1, <2>5, <2>6, ClearKeep DEF Elsewhere
<1>4. CASE c = "lib_free" /\ s = Ending(c)
  <2>1. s = <<Release({"chan", "rw"})>> \o w
    BY <1>4, EndingShape
  <2> HIDE DEF w
  <2>2. x = Release({"chan", "rw"}) /\ Tail(s) = w
    BY <1>2, <2>1, ConsParts
  <2>3. x.what = "release" /\ x.arg = {"chan", "rw"}
    BY <2>2 DEF Release, Do
  <2>4. Same /\ todo'[a] = w
    BY <1>1, <2>2, <2>3, StepPlain
  <2>5. owner'["chan"] # a
    BY <1>1, <1>2, <2>3, StepOwner
  <2>6. Clear'
    BY <1>1, <2>4 DEF Clear, Same
  <2>7. Ends(a)'
    BY <1>1, <1>4, <2>4, <2>5, <2>6 DEF Ends, w
  <2> QED BY <1>1, <2>6, <2>7, ClearKeep DEF Elsewhere
<1>5. CASE c = "lib_free" /\ owner["chan"] # a /\ s = w
  <2>2. x = Do("unregister", None) /\ Tail(s) = LastPart
    BY <1>2, <1>5, ConsParts
  <2>3. x.what = "unregister"
    BY <2>2 DEF Do
  <2>4. UNCHANGED <<listening, tabled, polled>> /\ todo'[a] = LastPart /\ ~registered'
    BY <1>1, <2>2, <2>3, StepDevice, StepUnregister
  <2>5. owner' = owner
    BY <1>1, <2>3, StepOwner
  <2>6. Clear'
    BY <1>1, <2>4 DEF Clear
  <2>7. AfterDevices(a)'
    BY <1>1, <1>5, <2>4, <2>5 DEF AfterDevices
  <2> QED BY <1>1, <2>6, <2>7, ClearKeep DEF Elsewhere
<1> QED BY <1>3, <1>4, <1>5 DEF Ends

\* cc_of_lib_free, and cc_of_dev_free_lockfree inside it.
LEMMA LibFreeShape ==
  /\ LibFree = <<Lock("dev"), Do("devices", None)>> \o LastPart
  /\ <<Lock("dev"), Do("devices", None)>> \o LastPart = <<Lock("dev")>> \o (<<Do("devices", None)>> \o LastPart)
  /\ <<Do("devices", None)>> \o LastPart \in Seq(Steps)
  /\ DevFreeLockfree \o LastPart
       = <<Lock("chan")>> \o (<<Lock("rw"), Do("assert", None)>> \o Loop("lib_free"))
<1>1. /\ Lock("dev") \in Steps /\ Do("devices", None) \in Steps /\ LastPart \in Seq(Steps)
      /\ Lock("chan") \in Steps /\ Lock("rw") \in Steps /\ Do("assert", None) \in Steps
      /\ Do("walk", None) \in Steps /\ Do("unlisten", None) \in Steps /\ Release({"chan", "rw"}) \in Steps
      /\ Do("unregister", None) \in Steps
  BY StepSet, CleanupShape
<1>2. LibFree = <<Lock("dev"), Do("devices", None)>> \o LastPart
  BY DEF LibFree, LastPart, Cleanup
<1>3. <<Do("devices", None)>> \o LastPart \in Seq(Steps)
  BY <1>1, ConsParts
<1>4. <<Lock("dev"), Do("devices", None)>> \o LastPart = <<Lock("dev")>> \o (<<Do("devices", None)>> \o LastPart)
  BY <1>1, Cons2
<1>5. DevFreeLockfree \o LastPart
        = <<Lock("chan")>> \o (<<Lock("rw"), Do("assert", None)>> \o Loop("lib_free"))
  <2> DEFINE p == <<Lock("chan"), Lock("rw"), Do("assert", None)>>
             q == <<Do("walk", None), Do("unlisten", None)>>
             u == <<Release({"chan", "rw"}), Do("unregister", None)>>
  <2>1. p \in Seq(Steps) /\ q \in Seq(Steps) /\ u \in Seq(Steps)
    BY <1>1
  <2>2. DevFreeLockfree = p \o (q \o u)
    BY DEF DevFreeLockfree
  <2>3. Loop("lib_free") = q \o (u \o LastPart)
    BY DEF Loop, Ending
  <2> HIDE DEF p, q, u
  <2>4. q \o u \in Seq(Steps)
    BY <2>1
  <2>5. (p \o (q \o u)) \o LastPart = p \o ((q \o u) \o LastPart)
    <3> DEFINE v == q \o u
    <3>1. p \in Seq(Steps) /\ v \in Seq(Steps) /\ LastPart \in Seq(Steps)
      BY <1>1, <2>1, <2>4
    <3> HIDE DEF v
    <3>2. (p \o v) \o LastPart = p \o (v \o LastPart)
      BY <3>1, ConcatAssociative
    <3> QED BY <3>2 DEF v
  <2>6. (q \o u) \o LastPart = q \o (u \o LastPart)
    <3>1. q \in Seq(Steps) /\ u \in Seq(Steps) /\ LastPart \in Seq(Steps)
      BY <1>1, <2>1
    <3> QED BY <3>1, ConcatAssociative
  <2>7. DevFreeLockfree \o LastPart = p \o Loop("lib_free")
    BY <2>2, <2>3, <2>5, <2>6
  <2>8. Loop("lib_free") \in Seq(Steps)
    BY EndingShape
  <2> USE DEF p
  <2>9. /\ p \o Loop("lib_free") = <<Lock("chan")>> \o (<<Lock("rw")>> \o (<<Do("assert", None)>> \o Loop("lib_free")))
        /\ <<Lock("rw"), Do("assert", None)>> \o Loop("lib_free")
             = <<Lock("rw")>> \o (<<Do("assert", None)>> \o Loop("lib_free"))
    <3> DEFINE e == Loop("lib_free")
    <3>1. e \in Seq(Steps) /\ Lock("chan") \in Steps /\ Lock("rw") \in Steps /\ Do("assert", None) \in Steps
      BY <1>1, <2>8
    <3> HIDE DEF e
    <3>2. <<Lock("chan"), Lock("rw"), Do("assert", None)>> \o e
            = <<Lock("chan")>> \o (<<Lock("rw")>> \o (<<Do("assert", None)>> \o e))
      BY <3>1, Cons3
    <3>3. <<Lock("rw"), Do("assert", None)>> \o e = <<Lock("rw")>> \o (<<Do("assert", None)>> \o e)
      BY <3>1, Cons2
    <3> QED BY <3>2, <3>3 DEF e
  <2> QED BY <2>7, <2>9
<1> QED BY <1>2, <1>3, <1>4, <1>5

\* cc_of_lib_free takes the device lock and looks for a device.
LEMMA BeforeStep ==
  ASSUME LockInv, World, ~Trapped, NEW a \in Apps, Step(a), BeforeDevices(a)
  PROVE  Keeps(a)
<1> DEFINE s == todo[a]
           c == call[a]
           x == Head(s)
           w == <<Do("devices", None)>> \o LastPart
<1>1. /\ a \in Threads /\ call' = call /\ (Idle(Listener)' <=> Idle(Listener)) /\ c = "lib_free"
      /\ x \in Steps /\ Fits(c, Holds(a), x) /\ Holds(a) # Never
  BY AppFacts DEF BeforeDevices
<1>2. /\ w \in Seq(Steps) /\ LastPart \in Seq(Steps) /\ Lock("dev") \in Steps /\ Do("devices", None) \in Steps
      /\ <<Lock("dev"), Do("devices", None)>> \o LastPart = <<Lock("dev")>> \o w
  BY StepSet, CleanupShape, LibFreeShape
<1>3. CASE s = <<Lock("dev")>> \o w
  <2> HIDE DEF w
  <2>1. x = Lock("dev") /\ Tail(s) = w
    BY <1>2, <1>3, ConsParts
  <2>2. x.what = "lock"
    BY <2>1 DEF Lock, Do
  <2>3. Same /\ todo'[a] = w
    BY <1>1, <2>1, <2>2, StepPlain
  <2>4. Elsewhere(a)'
    BY <1>1, <2>3 DEF Elsewhere, BeforeDevices, w
  <2>5. Clear' <=> Clear
    BY <1>1, <2>3 DEF Clear, Same
  <2> QED BY <2>3, <2>4, <2>5, QuietStep
<1>4. CASE s = w
  <2>1. x = Do("devices", None) /\ Tail(s) = LastPart
    BY <1>2, <1>4, ConsParts
  <2>2. x.what = "devices"
    BY <2>1 DEF Do
  <2>3. owner' = owner
    BY <1>1, <2>2, StepOwner
  <2>4. /\ Same
        /\ \/ registered /\ todo'[a] = DevFreeLockfree \o LastPart
           \/ ~registered /\ todo'[a] = LastPart
    BY <1>1, <2>1, <2>2, StepWalk
  <2>5. Clear' <=> Clear
    BY <1>1, <2>4 DEF Clear, Same
  <2>6. Holds(a) = {"dev"}
    BY <1>1, <2>2 DEF Fits, Twice
  <2>7. owner["dev"] = a /\ owner["chan"] # a
    BY <2>6 DEF Holds, Locks
  <2>8. CASE registered /\ todo'[a] = DevFreeLockfree \o LastPart
    <3> DEFINE e == <<Lock("rw"), Do("assert", None)>> \o Loop("lib_free")
    <3>1. todo'[a] = <<Lock("chan")>> \o e
      BY <2>8, LibFreeShape
    <3>5. Starts(a)'
      BY <1>1, <2>3, <2>7, <3>1 DEF Starts
    <3>6. Frees(a)'
      BY <1>1, <3>5 DEF Frees
    <3> QED BY <2>4, <2>5, <3>6, QuietStep
  <2>9. CASE ~registered /\ todo'[a] = LastPart
    <3>1. AfterDevices(a)'
      BY <1>1, <2>3, <2>4, <2>7, <2>9 DEF AfterDevices, Same
    <3> QED BY <2>4, <2>5, <3>1, QuietStep DEF Elsewhere
  <2> QED BY <2>4, <2>8, <2>9
<1> QED BY <1>2, <1>3, <1>4 DEF BeforeDevices

\* cc_of_lib_free after the devices.
LEMMA AfterStep ==
  ASSUME LockInv, World, NEW a \in Apps, Step(a), AfterDevices(a)
  PROVE  Keeps(a)
<1> DEFINE s == todo[a]
           c == call[a]
           x == Head(s)
           q == <<Lock("chan")>> \o Cleanup
           p == <<Lock("rw"), Lock("chan")>> \o Cleanup
<1>1. /\ a \in Threads /\ call' = call /\ (Idle(Listener)' <=> Idle(Listener)) /\ c = "lib_free" /\ ~registered
      /\ s # <<>>
  BY AppFacts DEF AfterDevices
<1>2. Clear
  BY <1>1 DEF World
<1>3. /\ Cleanup \in Seq(Finish) /\ Cleanup \in Seq(Steps) /\ LastPart = <<Release({"dev"})>> \o p
      /\ p = <<Lock("rw")>> \o q /\ q \in Seq(Steps) /\ p \in Seq(Steps)
      /\ Lock("rw") \in Steps /\ Lock("chan") \in Steps /\ Release({"dev"}) \in Steps
      /\ "chan" \in Locks /\ "rw" # "chan"
  <2>1. Lock("rw") \in Steps /\ q \in Seq(Steps) /\ p = <<Lock("rw")>> \o q
    BY CleanupShape, StepSet
  <2>2. p \in Seq(Steps)
    BY <2>1, ConsParts
  <2> QED BY <2>1, <2>2, CleanupShape, StepSet
<1>4. ASSUME Same, AfterDevices(a)' PROVE Keeps(a)
  <2>1. Clear'
    BY <1>1, <1>2, <1>4 DEF Clear, Same
  <2> QED BY <1>2, <1>4, <2>1, ClearKeep DEF Elsewhere
<1>5. CASE owner["chan"] # a /\ s = LastPart
  <2> HIDE DEF p
  <2>1. x = Release({"dev"}) /\ Tail(s) = p
    BY <1>3, <1>5, ConsParts
  <2>2. x.what = "release" /\ x.arg = {"dev"}
    BY <2>1 DEF Release, Do
  <2>3. Same /\ todo'[a] = p
    BY <1>1, <2>1, <2>2, StepPlain
  <2>4. owner'["chan"] # a
    BY <1>1, <1>3, <1>5, <2>2, StepOwner
  <2>5. AfterDevices(a)'
    BY <1>1, <2>3, <2>4 DEF AfterDevices, Same, p
  <2> QED BY <1>4, <2>3, <2>5
<1>6. CASE owner["chan"] # a /\ s = p
  <2> HIDE DEF q
  <2>1. x = Lock("rw") /\ Tail(s) = q
    BY <1>3, <1>6, ConsParts
  <2>2. x.what = "lock" /\ x.arg = "rw"
    BY <2>1 DEF Lock, Do
  <2>3. Same /\ todo'[a] = q
    BY <1>1, <2>1, <2>2, StepPlain
  <2>4. owner'["chan"] # a
    BY <1>1, <1>3, <1>6, <2>2, StepOwner
  <2>5. AfterDevices(a)'
    BY <1>1, <2>3, <2>4 DEF AfterDevices, Same, q
  <2> QED BY <1>4, <2>3, <2>5
<1>7. CASE s = q
  <2>1. x = Lock("chan") /\ Tail(s) = Cleanup
    BY <1>3, <1>7, ConsParts
  <2>2. x.what = "lock"
    BY <2>1 DEF Lock, Do
  <2>3. Same /\ todo'[a] = Cleanup
    BY <1>1, <2>1, <2>2, StepPlain
  <2>5. AfterDevices(a)'
    BY <1>1, <1>3, <2>3 DEF AfterDevices, Same
  <2> QED BY <1>4, <2>3, <2>5
<1>8. CASE s \in Seq(Finish)
  <2>1. x \in Finish /\ Tail(s) \in Seq(Finish)
    BY <1>1, <1>8, HeadTailProperties
  <2>2. x.what \in {"clear", "release", "end", "lock"}
    BY <2>1 DEF Finish, Lock, Do
  <2>3. CASE x.what = "clear"
    <3>1. UNCHANGED <<registered, listening, polled>> /\ tabled' = {} /\ todo'[a] = Tail(s)
      BY <1>1, <2>3, StepTables
    <3>2. Same
      BY <1>2, <3>1 DEF Same, Clear
    <3>3. AfterDevices(a)'
      BY <1>1, <2>1, <3>1 DEF AfterDevices
    <3> QED BY <1>4, <3>2, <3>3
  <2>4. CASE x.what \in {"release", "end", "lock"}
    <3>1. Same /\ todo'[a] = Tail(s)
      BY <1>1, <2>4, StepPlain
    <3>2. AfterDevices(a)'
      BY <1>1, <2>1, <3>1 DEF AfterDevices, Same
    <3> QED BY <1>4, <3>1, <3>2
  <2> QED BY <2>2, <2>3, <2>4
<1> QED BY <1>5, <1>6, <1>7, <1>8 DEF AfterDevices
-----------------------------------------------------------------------------
(* The other calls *)

\* Plain steps on the way to r.
LEMMA PlainOnWay ==
  ASSUME LockInv, NEW a \in Apps, Step(a), NEW r, Upto(Plain, todo[a], r)
  PROVE  \/ todo[a] = r
         \/ Same /\ (Upto(Plain, todo'[a], r) \/ todo'[a] \in Seq(Plain))
<1>1. a \in Threads /\ todo[a] \in Seq(Steps) /\ todo[a] # <<>>
  BY AppFacts
<1>2. todo[a] = r \/ (Head(todo[a]) \in Plain /\ Upto(Plain, Tail(todo[a]), r))
  BY <1>1, UptoStep
<1>3. CASE Head(todo[a]) \in Plain /\ Upto(Plain, Tail(todo[a]), r)
  <2>1. Same /\ (todo'[a] = Tail(todo[a]) \/ todo'[a] \in Seq(Plain))
    BY <1>1, <1>3, PlainStep
  <2> QED BY <1>3, <2>1
<1> QED BY <1>2, <1>3

\* A step that changes nothing, by a thread that frees no device.
LEMMA QuietApp ==
  ASSUME LockInv, World, ~Trapped, NEW a \in Apps, Step(a), Same,
         Elsewhere(a)' \/ (call[a] # "lib_free" /\ todo'[a] \in Seq(Plain))
  PROVE  Keeps(a)
<1>1. call' = call /\ (Idle(Listener)' <=> Idle(Listener))
  BY AppFacts
<1>2. Clear' <=> Clear
  BY <1>1 DEF Clear, Same
<1>3. Elsewhere(a)'
  BY <1>1 DEF Elsewhere, Returns
<1> QED BY <1>2, <1>3, QuietStep

\* A call that only looks, writes to the pipe or returns.
LEMMA ReturnsStep ==
  ASSUME LockInv, World, ~Trapped, NEW a \in Apps, Step(a), Returns(a)
  PROVE  Keeps(a)
<1>1. a \in Threads /\ todo[a] # <<>> /\ todo[a] \in Seq(Plain) /\ call[a] # "lib_free"
  BY AppFacts DEF Returns
<1>2. Head(todo[a]) \in Plain /\ Tail(todo[a]) \in Seq(Plain)
  BY <1>1, HeadTailProperties
<1>3. Same /\ todo'[a] \in Seq(Plain)
  BY <1>1, <1>2, PlainStep
<1> QED BY <1>1, <1>3, QuietApp

\* cc_of_dev_register.
LEMMA RegistersStep ==
  ASSUME LockInv, World, ~Trapped, NEW a \in Apps, Step(a), Registers(a)
  PROVE  Keeps(a)
<1> DEFINE s == todo[a]
           x == Head(s)
           r == <<Do("register", None), Release({"dev"})>>
           q == <<Do("register", None), Release({"dev"}), Do("listen", None)>>
           l == <<Do("listen", None)>>
<1>1. /\ a \in Threads /\ s # <<>> /\ call' = call /\ ofdev_type' = ofdev_type
      /\ call[a] = "register" /\ (Idle(Listener)' <=> Idle(Listener))
  BY AppFacts DEF Registers
<1>2. polled \subseteq tabled
  BY DEF World
<1>3. ASSUME x = Do("register", None), todo'[a] = Tail(s) => Elsewhere(a)' PROVE Keeps(a)
  <2>1. x.what = "register"
    BY <1>3 DEF Do
  <2>2. UNCHANGED <<listening, tabled, polled>> /\ todo'[a] = Tail(s) /\ registered'
    BY <1>1, <2>1, StepDevice
  <2> QED BY <1>2, <1>3, <2>2 DEF Keeps
<1>4. x = Do("register", None) => registered'
  <2>1. x = Do("register", None) => x.what = "register"
    BY DEF Do
  <2> QED BY <1>1, <2>1, StepDevice
<1>5. CASE Upto(Plain, s, r)
  <2> HIDE DEF r
  <2>1. s = r \/ (Same /\ (Upto(Plain, todo'[a], r) \/ todo'[a] \in Seq(Plain)))
    BY <1>5, PlainOnWay
  <2>2. CASE s = r
    <3>1. x = Do("register", None) /\ Tail(s) = <<Release({"dev"})>>
      BY <2>2 DEF r
    <3>2. <<Release({"dev"})>> \in Seq(Plain)
      BY PlainSet, StepSet
    <3>3. todo'[a] = Tail(s) => Elsewhere(a)'
      BY <1>1, <3>1, <3>2 DEF Elsewhere, Returns
    <3> QED BY <1>3, <3>1, <3>3
  <2>3. CASE Same /\ Upto(Plain, todo'[a], r)
    <3>1. Elsewhere(a)'
      BY <1>1, <2>3 DEF Elsewhere, Registers, r
    <3> QED BY <2>3, <3>1, QuietApp
  <2>4. CASE Same /\ todo'[a] \in Seq(Plain)
    BY <1>1, <2>4, QuietApp
  <2> QED BY <2>1, <2>2, <2>3, <2>4
<1>6. CASE ofdev_type = "CONTROLLER" /\ Upto(Plain, s, q)
  <2> HIDE DEF q
  <2>1. s = q \/ (Same /\ (Upto(Plain, todo'[a], q) \/ todo'[a] \in Seq(Plain)))
    BY <1>6, PlainOnWay
  <2>2. CASE s = q
    <3>1. x = Do("register", None) /\ Tail(s) = <<Release({"dev"}), Do("listen", None)>>
      BY <2>2 DEF q
    <3>2. <<Release({"dev"}), Do("listen", None)>> = <<Release({"dev"})>> \o l
      OBVIOUS
    <3>3. Release({"dev"}) \in Plain /\ Release({"dev"}) \in Steps /\ l \in Seq(Steps)
      BY PlainSet, StepSet
    <3> HIDE DEF l
    <3>4. Upto(Plain, Tail(s), l)
      BY <3>1, <3>2, <3>3, UptoNil, UptoCons
    <3>5. todo'[a] = Tail(s) => Elsewhere(a)'
      BY <1>1, <1>4, <1>6, <3>1, <3>4 DEF Elsewhere, Registers, l
    <3> QED BY <1>3, <3>1, <3>5
  <2>3. CASE Same /\ Upto(Plain, todo'[a], q)
    <3>1. Elsewhere(a)'
      BY <1>1, <1>6, <2>3 DEF Elsewhere, Registers, q
    <3> QED BY <2>3, <3>1, QuietApp
  <2>4. CASE Same /\ todo'[a] \in Seq(Plain)
    BY <1>1, <2>4, QuietApp
  <2> QED BY <2>1, <2>2, <2>3, <2>4
<1>7. CASE ofdev_type = "CONTROLLER" /\ registered /\ Upto(Plain, s, l)
  <2> HIDE DEF l
  <2>1. s = l \/ (Same /\ (Upto(Plain, todo'[a], l) \/ todo'[a] \in Seq(Plain)))
    BY <1>7, PlainOnWay
  <2>2. CASE s = l
    <3>1. x.what = "listen" /\ Tail(s) = <<>>
      BY <2>2 DEF l, Do
    <3>2. Idle(Listener) /\ UNCHANGED <<registered, tabled, polled>> /\ todo'[a] = <<>>
      BY <1>1, <3>1, StepListener
    <3> QED BY <1>2, <1>7, <3>2 DEF Keeps, Idle
  <2>3. CASE Same /\ Upto(Plain, todo'[a], l)
    <3>1. Elsewhere(a)'
      BY <1>1, <1>7, <2>3 DEF Elsewhere, Registers, l, Same
    <3> QED BY <2>3, <3>1, QuietApp
  <2>4. CASE Same /\ todo'[a] \in Seq(Plain)
    BY <1>1, <2>4, QuietApp
  <2> QED BY <2>1, <2>2, <2>3, <2>4
<1> QED BY <1>5, <1>6, <1>7 DEF Registers

\* cc_of_create_channel.
LEMMA CreatesStep ==
  ASSUME LockInv, World, ~Trapped, NEW a \in Apps, Step(a), NEW fd \in Fds, Creates(a, fd)
  PROVE  Keeps(a)
<1> DEFINE s == todo[a]
           x == Head(s)
           l == <<Do("add", fd)>>
           w == <<Release(Three)>> \o l
<1>1. /\ a \in Threads /\ s # <<>> /\ call' = call /\ ofdev_type' = ofdev_type
      /\ call[a] = "create" /\ ofdev_type = "SWITCH" /\ (Idle(Listener)' <=> Idle(Listener))
  BY AppFacts DEF Creates
<1>2. polled \subseteq tabled /\ Idle(Listener)
  BY <1>1 DEF World
<1>3. CASE Upto(Plain, s, Entry(fd))
  <2>1. s = Entry(fd) \/ (Same /\ (Upto(Plain, todo'[a], Entry(fd)) \/ todo'[a] \in Seq(Plain)))
    BY <1>3, PlainOnWay
  <2>2. CASE s = Entry(fd)
    <3>1. x = Do("table", fd) /\ Tail(s) = w
      BY <2>2 DEF Entry
    <3>2. x.what = "table" /\ x.arg = fd
      BY <3>1 DEF Do
    <3> HIDE DEF w
    <3>3. /\ UNCHANGED <<registered, listening, polled>>
          /\ \/ registered /\ tabled' = tabled \cup {fd} /\ todo'[a] = w
             \/ /\ ~registered /\ tabled' = tabled
                /\ todo'[a] = <<Release(Three)>> \o LockThree \o <<Release(Three)>>
      BY <1>1, <3>1, <3>2, StepTables
    <3>4. CASE registered /\ tabled' = tabled \cup {fd} /\ todo'[a] = w
      <4>1. Release(Three) \in Plain /\ Release(Three) \in Steps /\ l \in Seq(Steps)
        BY PlainSet, StepSet
      <4> HIDE DEF l
      <4>2. Upto(Plain, w, l)
        BY <4>1, UptoNil, UptoCons DEF w
      <4>3. Elsewhere(a)'
        BY <1>1, <3>3, <3>4, <4>2 DEF Elsewhere, Creates, l
      <4> QED BY <1>2, <3>3, <3>4, <4>3 DEF Keeps
    <3>5. CASE /\ ~registered /\ tabled' = tabled
               /\ todo'[a] = <<Release(Three)>> \o LockThree \o <<Release(Three)>>
      <4>1. Release(Three) \in Plain /\ Lock("dev") \in Plain /\ Lock("chan") \in Plain /\ Lock("rw") \in Plain
        BY PlainSet, StepSet
      <4>2. todo'[a] \in Seq(Plain)
        BY <3>5, <4>1 DEF LockThree
      <4> QED BY <1>1, <3>3, <3>5, <4>2, QuietApp DEF Same
    <3> QED BY <3>3, <3>4, <3>5
  <2>3. CASE Same /\ Upto(Plain, todo'[a], Entry(fd))
    <3>1. Elsewhere(a)'
      BY <1>1, <2>3 DEF Elsewhere, Creates
    <3> QED BY <2>3, <3>1, QuietApp
  <2>4. CASE Same /\ todo'[a] \in Seq(Plain)
    BY <1>1, <2>4, QuietApp
  <2> QED BY <2>1, <2>2, <2>3, <2>4
<1>4. CASE registered /\ fd \in tabled /\ Upto(Plain, s, l)
  <2> HIDE DEF l
  <2>1. s = l \/ (Same /\ (Upto(Plain, todo'[a], l) \/ todo'[a] \in Seq(Plain)))
    BY <1>4, PlainOnWay
  <2>2. CASE s = l
    <3>1. x.what = "add" /\ x.arg = fd /\ Tail(s) = <<>>
      BY <2>2 DEF l, Do
    <3>2. UNCHANGED <<registered, listening, tabled>> /\ todo'[a] = <<>> /\ polled' = polled \cup {fd}
      BY <1>1, <3>1, StepReader
    <3> QED BY <1>2, <1>4, <3>2 DEF Keeps, Idle
  <2>3. CASE Same /\ Upto(Plain, todo'[a], l)
    <3>1. Elsewhere(a)'
      BY <1>1, <1>4, <2>3 DEF Elsewhere, Creates, l, Same
    <3> QED BY <2>3, <3>1, QuietApp
  <2>4. CASE Same /\ todo'[a] \in Seq(Plain)
    BY <1>1, <2>4, QuietApp
  <2> QED BY <2>1, <2>2, <2>3, <2>4
<1> QED BY <1>3, <1>4 DEF Creates

\* cc_of_destroy_channel.
LEMMA DestroysStep ==
  ASSUME LockInv, World, ~Trapped, NEW a \in Apps, Step(a), NEW fd \in Fds, Destroys(a, fd)
  PROVE  Keeps(a)
<1> DEFINE s == todo[a]
           x == Head(s)
           c == CloseConn(fd) \o <<Release(Three)>>
           u == <<Do("untable", fd), Release(Three)>>
           v == <<Pass("list")>> \o u
<1>1. /\ a \in Threads /\ s # <<>> /\ call' = call /\ ofdev_type' = ofdev_type
      /\ call[a] = "destroy" /\ (Idle(Listener)' <=> Idle(Listener)) /\ ~Pending(fd) /\ ~Pending(fd)'
  BY AppFacts DEF Destroys
<1>2. polled \subseteq tabled /\ (registered \/ Clear)
  BY DEF World
<1>3. CASE Upto(Plain, s, c)
  <2> HIDE DEF c
  <2>1. s = c \/ (Same /\ (Upto(Plain, todo'[a], c) \/ todo'[a] \in Seq(Plain)))
    BY <1>3, PlainOnWay
  <2>2. CASE s = c
    <3>1. x = Do("delete", fd) /\ Tail(s) = v
      BY <2>2 DEF c, CloseConn
    <3>2. x.what = "delete" /\ x.arg = fd
      BY <3>1 DEF Do
    <3>3. Pass("list") \in Plain /\ Pass("list") \in Steps /\ u \in Seq(Steps)
      BY PlainSet, StepSet
    <3> HIDE DEF u
    <3>4. Upto(Plain, v, u)
      BY <3>3, UptoNil, UptoCons
    <3> HIDE DEF v
    <3>5. UNCHANGED <<registered, listening, tabled>> /\ todo'[a] = v /\ polled' = polled \ {fd}
      BY <1>1, <3>1, <3>2, StepReader
    <3>6. Elsewhere(a)'
      BY <1>1, <3>4, <3>5 DEF Elsewhere, Destroys, u
    <3>7. Clear => Clear'
      BY <1>1, <3>5 DEF Clear
    <3> QED BY <1>2, <3>5, <3>6, <3>7 DEF Keeps
  <2>3. CASE Same /\ Upto(Plain, todo'[a], c)
    <3>1. Elsewhere(a)'
      BY <1>1, <2>3 DEF Elsewhere, Destroys, c
    <3> QED BY <2>3, <3>1, QuietApp
  <2>4. CASE Same /\ todo'[a] \in Seq(Plain)
    BY <1>1, <2>4, QuietApp
  <2> QED BY <2>1, <2>2, <2>3, <2>4
<1>4. CASE Upto(Plain, s, u) /\ fd \notin polled
  <2> HIDE DEF u
  <2>1. s = u \/ (Same /\ (Upto(Plain, todo'[a], u) \/ todo'[a] \in Seq(Plain)))
    BY <1>4, PlainOnWay
  <2>2. CASE s = u
    <3>1. x.what = "untable" /\ x.arg = fd /\ Tail(s) = <<Release(Three)>>
      BY <2>2 DEF u, Do
    <3>2. /\ UNCHANGED <<registered, listening, polled>> /\ tabled' = tabled \ {fd}
          /\ todo'[a] = <<Release(Three)>>
      BY <1>1, <3>1, StepTables
    <3>3. <<Release(Three)>> \in Seq(Plain)
      BY PlainSet, StepSet
    <3>4. Elsewhere(a)'
      BY <1>1, <3>2, <3>3 DEF Elsewhere, Returns
    <3>5. Clear => Clear'
      BY <1>1, <3>2 DEF Clear
    <3> QED BY <1>1, <1>2, <1>4, <3>2, <3>4, <3>5 DEF Keeps
  <2>3. CASE Same /\ Upto(Plain, todo'[a], u)
    <3>1. Elsewhere(a)'
      BY <1>1, <1>4, <2>3 DEF Elsewhere, Destroys, u, Same
    <3> QED BY <2>3, <3>1, QuietApp
  <2>4. CASE Same /\ todo'[a] \in Seq(Plain)
    BY <1>1, <2>4, QuietApp
  <2> QED BY <2>1, <2>2, <2>3, <2>4
<1> QED BY <1>3, <1>4 DEF Destroys

\* A step of the application.
LEMMA AppAlone ==
  ASSUME LockInv, AloneInv, NEW a \in Apps, Step(a)
  PROVE  AloneInv'
<1>1. ASSUME ~overlapped PROVE Keeps(a)
  <2>1. ~Idle(a) /\ ~aborted /\ a \in Threads
    BY AppFacts, StepOthers
  <2>2. Solo /\ Accepts /\ World /\ (Frees(a) \/ Elsewhere(a))
    BY <1>1, <2>1 DEF AloneInv
  <2>3. CASE Frees(a)
    BY <2>2, <2>3, StartsStep, SocketStep, EmptiedStep DEF Frees
  <2>4. CASE ~Frees(a)
    <3>1. ~Trapped
      BY <2>1, <2>2, <2>4, TrappedBy
    <3>2. CASE \E fd \in Fds : Creates(a, fd) \/ Destroys(a, fd)
      BY <2>2, <3>1, <3>2, CreatesStep, DestroysStep
    <3> QED BY <2>2, <2>4, <3>1, <3>2, ReturnsStep, RegistersStep, EndsStep, BeforeStep, AfterStep
            DEF Elsewhere
  <2> QED BY <2>3, <2>4
<1> QED BY <1>1, AppKept
-----------------------------------------------------------------------------
(* A call begins *)

\* Where a call begins.
LEMMA BeginsAt ==
  ASSUME LockInv, Accepts, NEW a \in Apps, NEW name \in Names, NEW fd \in Fds, Begin(a, name, fd),
         NEW p \in Paths(name, fd), todo'[a] = p, call'[a] = name,
         UNCHANGED <<ofdev_type, owner, registered, tabled, polled>>, todo'[Listener] = todo[Listener],
         \A l \in Locks : owner[l] # a
  PROVE  Frees(a)' \/ Elsewhere(a)'
<1>1. CASE name = "register"
  <2> DEFINE q == <<Lock("dev")>>
             r == <<Do("register", None), Release({"dev"})>>
             l == <<Do("register", None), Release({"dev"}), Do("listen", None)>>
  <2>1. /\ Lock("dev") \in Plain /\ r \in Seq(Steps) /\ l \in Seq(Steps)
    BY PlainSet, StepSet
  <2>2. q \in Seq(Plain)
    BY <2>1
  <2>3. p \in Register
    BY <1>1 DEF Paths
  <2>4. p = q \o r \/ (ofdev_type = "CONTROLLER" /\ p = q \o l)
    <3> DEFINE e == <<Lock("dev"), Do("register", None), Release({"dev"})>>
    <3>1. e = q \o r /\ e \o <<>> = e /\ e \o <<Do("listen", None)>> = q \o l
      OBVIOUS
    <3>2. PICK ok \in BOOLEAN :
            p = e \o (IF ofdev_type = "CONTROLLER" /\ ok THEN <<Do("listen", None)>> ELSE <<>>)
      BY <2>3 DEF Register
    <3> HIDE DEF e, q, r, l
    <3> QED BY <3>1, <3>2
  <2> HIDE DEF q, r, l
  <2>5. Upto(Plain, q \o r, r) /\ Upto(Plain, q \o l, l)
    BY <2>1, <2>2, PlainSet, UptoPath
  <2>6. Registers(a)'
    BY <1>1, <2>4, <2>5 DEF Registers, r, l
  <2> QED BY <2>6 DEF Elsewhere
<1>2. CASE name = "dev_free"
  <2> DEFINE X == Approach("dev_free")
             q == LockThree \o <<Do("assert", None)>>
  <2>1. /\ Lock("dev") \in X /\ Lock("chan") \in X /\ Lock("rw") \in X /\ Do("assert", None) \in X
        /\ X \subseteq Steps
    BY PlainSet, StepSet DEF Approach, Lock, Do
  <2>2. q \in Seq(X) /\ Loop("dev_free") \in Seq(Steps)
    BY <2>1, EndingShape DEF LockThree
  <2>3. p = q \o Loop("dev_free")
    <3>1. p = DevFree
      BY <1>2 DEF Paths
    <3> DEFINE e == <<Do("walk", None), Do("unlisten", None)>> \o <<Do("unregister", None), Release(Three)>>
    <3>2. Loop("dev_free") = e
      <4>1. Ending("dev_free") = <<Do("unregister", None), Release(Three)>>
        BY DEF Ending
      <4> QED BY <4>1, Zenon DEF Loop
    <3>3. DevFree = LockThree \o (<<Do("assert", None)>> \o e)
      BY DEF DevFree
    <3>4. q \o e = LockThree \o (<<Do("assert", None)>> \o e)
      BY DEF LockThree
    <3> HIDE DEF e, q
    <3> QED BY <3>1, <3>2, <3>3, <3>4
  <2> HIDE DEF q, X
  <2>4. Upto(X, q \o Loop("dev_free"), Loop("dev_free"))
    BY <2>1, <2>2, UptoPath
  <2>5. Starts(a)'
    BY <1>2, <2>3, <2>4 DEF Starts, X
  <2> QED BY <1>2, <2>5 DEF Frees
<1>3. CASE name = "lib_free"
  <2>1. p = <<Lock("dev"), Do("devices", None)>> \o LastPart
    BY <1>3, LibFreeShape DEF Paths
  <2> QED BY <1>3, <2>1 DEF Elsewhere, BeforeDevices
<1>4. CASE name = "create"
  <2>1. p = AddSocket(fd) /\ ofdev_type = "SWITCH"
    BY <1>4 DEF Paths, Begin
  <2>2. Creates(a, fd)'
    BY <1>4, <2>1, AddSocketShape DEF Creates
  <2> QED BY <2>2 DEF Elsewhere
<1>5. CASE name = "destroy"
  <2>1. p = Destroy(fd) /\ fd \in polled
    BY <1>5 DEF Paths, Begin
  <2>2. ~Pending(fd)
    BY <2>1, PendingFacts
  <2>3. ~Pending(fd)'
    BY <2>2 DEF Pending
  <2>4. Destroys(a, fd)'
    BY <1>5, <2>1, <2>3, CallShapes DEF Destroys
  <2> QED BY <2>4 DEF Elsewhere
<1>6. CASE name \in {"send", "set_real"}
  <2>1. p \in {Send(fd), SetReal}
    BY <1>6 DEF Paths
  <2>2. p \in Seq(Plain)
    BY <2>1, CallShapes
  <2> QED BY <1>6, <2>2 DEF Elsewhere, Returns
<1> QED BY <1>1, <1>2, <1>3, <1>4, <1>5, <1>6 DEF Names

\* A call begins when no other is in progress, or the calls overlap.
LEMMA BeginAlone ==
  ASSUME LockInv, AloneInv, NEW a \in Apps, NEW name \in Names, NEW fd \in Fds, Begin(a, name, fd)
  PROVE  AloneInv'
<1>1. /\ a \in Threads /\ Listener \in Threads /\ Reader \in Threads /\ a # Listener /\ a # Reader
      /\ todo \in [Threads -> Seq(Steps)] /\ DOMAIN call = Threads /\ \A b \in Apps : b \in Threads
  BY ThreadFacts DEF LockInv, Disciplined
<1>2. PICK p \in Paths(name, fd) : todo' = [todo EXCEPT ![a] = p]
  BY DEF Begin
<1>3. /\ Idle(a) /\ ~aborted
      /\ UNCHANGED <<ofdev_type, owner, registered, listening, tabled, polled, aborted>>
      /\ call' = [call EXCEPT ![a] = name]
      /\ overlapped' = (overlapped \/ \E b \in Apps : ~Idle(b))
  BY DEF Begin
<1>4. /\ todo'[a] = p /\ call'[a] = name
      /\ \A t \in Threads : t # a => todo'[t] = todo[t] /\ call'[t] = call[t]
  BY <1>1, <1>2, <1>3
<1>5. ~Idle(Reader)' => polled' # {}
  BY <1>1, <1>3, <1>4 DEF AloneInv, Idle
<1>6. SUFFICES ASSUME ~overlapped'
               PROVE  /\ Solo' /\ Accepts' /\ World'
                      /\ \A b \in Apps : ~Idle(b)' => Frees(b)' \/ Elsewhere(b)'
  BY <1>3, <1>5 DEF AloneInv
<1>7. ~overlapped /\ \A b \in Apps : Idle(b)
  BY <1>3, <1>6
<1>8. Accepts /\ World
  BY <1>3, <1>7 DEF AloneInv
<1>9. \A b \in Apps : \A l \in Locks : owner[l] # b
  BY <1>1, <1>7, IdleHoldsNothing
<1>10. ~Trapped
  BY <1>9, StepSet DEF Trapped
<1>11. todo'[Listener] = todo[Listener] /\ (Idle(Listener)' <=> Idle(Listener))
  BY <1>1, <1>4 DEF Idle
<1>12. World'
  <2>1. polled' \subseteq tabled'
    BY <1>3, <1>8, <1>10 DEF World
  <2>2. Clear => Clear'
    BY <1>3, <1>11 DEF Clear
  <2> QED BY <1>3, <1>8, <1>11, <2>1, <2>2 DEF World
<1>13. Accepts'
  <2>1. \A e \in Fds : ToTables(e) => ToTables(e)'
    BY <1>3, <1>11 DEF ToTables
  <2>2. \A e \in Fds : ToPoll(e) => ToPoll(e)'
    BY <1>3, <1>10, <1>11 DEF ToPoll
  <2> QED BY <1>8, <1>11, <2>1, <2>2 DEF Accepts
<1>14. \A b \in Apps : b # a => Idle(b)'
  BY <1>1, <1>4, <1>7 DEF Idle
<1>15. Frees(a)' \/ Elsewhere(a)'
  BY <1>3, <1>4, <1>8, <1>9, <1>11, BeginsAt
<1>16. Solo'
  BY <1>14 DEF Solo
<1> QED BY <1>12, <1>13, <1>14, <1>15, <1>16

\* Every step.
LEMMA NextAlone ==
  ASSUME LockInv, AloneInv, [Next]_vars
  PROVE  AloneInv'
<1>1. CASE UNCHANGED vars
  <2>1. /\ Same /\ UNCHANGED <<ofdev_type, overlapped, aborted, owner, todo, call>>
    BY <1>1 DEF vars, Same
  <2>2. ~Idle(Reader)' => polled' # {}
    BY <2>1 DEF AloneInv, Idle, Same
  <2> QED BY <2>1, <2>2, QuietKept
<1>2. ASSUME NEW a \in Apps, NEW name \in Names, NEW fd \in Fds, Begin(a, name, fd) PROVE AloneInv'
  BY <1>2, BeginAlone
<1>3. ASSUME NEW fd \in Fds, ListenPollin(fd) PROVE AloneInv'
  BY <1>3, ListenAlone
<1>4. CASE TakeMessage \/ \E fd \in Fds : RwPollin(fd) \/ RwPollout(fd)
  BY <1>4, ReaderEvents
<1>5. ASSUME NEW t \in Threads, Step(t) PROVE AloneInv'
  <2>1. t \in Apps \/ t = Listener \/ t = Reader
    BY DEF Threads, PollThreads
  <2>2. CASE t \in Apps
    BY <1>5, <2>2, AppAlone
  <2>3. CASE t = Listener
    BY <1>5, <2>3, ListenerAlone
  <2>4. CASE t = Reader
    BY <1>5, <2>4, ReaderAlone
  <2> QED BY <2>1, <2>2, <2>3, <2>4
<1> QED BY <1>1, <1>2, <1>3, <1>4, <1>5 DEF Next, Inside

-----------------------------------------------------------------------------
(* The theorem *)

\* Where the threads are while the application makes its calls one at a time.
THEOREM AloneInvariance == Spec => []AloneInv
<1>1. Init => AloneInv
  <2> SUFFICES ASSUME Init PROVE AloneInv
    OBVIOUS
  <2>1. /\ \A t \in Threads : Idle(t)
        /\ Listener \in Threads /\ Reader \in Threads /\ \A a \in Apps : a \in Threads
    BY ThreadFacts DEF Init, Idle
  <2>2. todo[Listener] \in Seq(Calm)
    <3>1. todo[Listener] = <<>> /\ <<>> \in Seq(Calm)
      BY <2>1 DEF Idle
    <3> QED BY <3>1
  <2>3. Solo /\ Accepts /\ \A a \in Apps : ~Idle(a) => Frees(a) \/ Elsewhere(a)
    BY <2>1, <2>2 DEF Solo, Accepts
  <2>4. World
    BY <2>1 DEF World, Clear, Init
  <2> QED BY <2>1, <2>3, <2>4 DEF AloneInv
<1>2. LockInv /\ AloneInv /\ [Next]_vars => AloneInv'
  BY NextAlone
<1> QED BY <1>1, <1>2, LockInvariance, PTL DEF Spec

\* cc_of_lib_free has the rw lock and wants the channel lock.
LEMMA ReversedIsLate ==
  ASSUME LockInv, NEW a \in Apps, Reversed(a), Frees(a) \/ Elsewhere(a)
  PROVE  ~registered /\ owner["chan"] # a
<1> DEFINE s == todo[a]
           x == Head(s)
<1>1. a \in Threads /\ ~Idle(a) /\ call[a] = "lib_free" /\ x.what = "lock" /\ x.arg = "chan" /\ owner["rw"] = a
  BY ThreadFacts DEF Reversed, At, Arg, Holds
<1>2. /\ x \in Steps /\ Fits("lib_free", Holds(a), x) /\ Holds(a) # Never
      /\ s \in Seq(Steps) /\ s # <<>>
  BY <1>1, AtHead DEF LockInv, Disciplined, Idle
<1>3. x = Lock("chan")
  BY <1>1, <1>2 DEF Steps, Lock, Do
<1>4. Loop("lib_free") \in Seq(Steps) /\ Ending("lib_free") \in Seq(Steps) /\ LastPart \in Seq(Steps)
  BY EndingShape, CleanupShape
<1>5. ~Frees(a)
  <2>1. ~Starts(a)
    <3>1. ASSUME Upto(Approach("lib_free"), s, Loop("lib_free")) PROVE FALSE
      <4>1. s = Loop("lib_free") \/ x \in Approach("lib_free")
        BY <1>2, <3>1, UptoStep
      <4>2. x \notin Approach("lib_free")
        BY <1>3 DEF Approach
      <4>3. s # Loop("lib_free")
        <5>1. Head(Loop("lib_free")) = Do("walk", None)
          BY <1>4 DEF Loop
        <5> QED BY <1>1, <5>1 DEF Do
      <4> QED BY <4>1, <4>2, <4>3
    <3>2. ASSUME owner["chan"] # a, owner["dev"] = a PROVE FALSE
      <4>1. "dev" \in Holds(a) /\ "rw" \in Holds(a) /\ "chan" \notin Holds(a)
        BY <1>1, <3>2, StepSet DEF Holds
      <4> QED BY <1>1, <1>2, <4>1 DEF Fits, Twice, Before
    <3> QED BY <1>1, <3>1, <3>2 DEF Starts
  <2>2. ~Emptied(a)
    <3>1. Head(<<Do("unlisten", None)>> \o Ending("lib_free")) = Do("unlisten", None)
      BY <1>4
    <3> QED BY <1>1, <3>1 DEF Emptied, Do
  <2>3. ASSUME NEW fd \in Fds PROVE ~Begins(a, fd) /\ ~Midway(a, fd)
    <3>1. /\ Head(CloseConn(fd) \o Loop("lib_free")) = Do("delete", fd)
          /\ Head(<<Pass("list"), Do("untable", fd)>> \o Loop("lib_free")) = Pass("list")
          /\ Head(<<Do("untable", fd)>> \o Loop("lib_free")) = Do("untable", fd)
      BY <1>4 DEF CloseConn
    <3>2. Do("delete", fd).what # "lock" /\ Pass("list").what # "lock" /\ Do("untable", fd).what # "lock"
      BY DEF Do, Pass
    <3>3. ~Begins(a, fd)
      BY <1>1, <3>1, <3>2 DEF Begins
    <3>4. ~Midway(a, fd)
      BY <1>1, <3>1, <3>2 DEF Midway
    <3> QED BY <3>3, <3>4
  <2> QED BY <2>1, <2>2, <2>3 DEF Frees
<1>6. ~Ends(a)
  <2>1. /\ Head(Ending("lib_free")) = Release({"chan", "rw"})
        /\ Head(<<Do("unregister", None)>> \o LastPart) = Do("unregister", None)
    BY <1>4 DEF Ending
  <2> QED BY <1>1, <2>1 DEF Ends, Release, Do
<1>7. ~BeforeDevices(a)
  <2>1. /\ Head(<<Lock("dev"), Do("devices", None)>> \o LastPart) = Lock("dev")
        /\ Head(<<Do("devices", None)>> \o LastPart) = Do("devices", None)
    BY <1>4
  <2> QED BY <1>1, <2>1 DEF BeforeDevices, Lock, Do
<1>8. AfterDevices(a)
  BY <1>1, <1>5, <1>6, <1>7 DEF Elsewhere, Returns, Registers, Creates, Destroys
<1>9. s \notin Seq(Finish)
  <2>1. s \in Seq(Finish) => x \in Finish
    BY <1>2
  <2>2. x \notin Finish
    BY <1>1 DEF Finish, Lock, Do
  <2> QED BY <2>1, <2>2
<1> QED BY <1>8, <1>9 DEF AfterDevices

\* The reversed locks of cc_of_lib_free stop nobody when the application makes
\* its calls one at a time: the device is gone, so that neither poll thread can
\* be in a callback, and no other thread of the application is in the library.
THEOREM FreeAloneOrderedHolds == Spec => []FreeAloneOrdered
<1>1. LockInv /\ AloneInv => FreeAloneOrdered
  <2> SUFFICES ASSUME LockInv, AloneInv, ~overlapped, NEW t \in Stuck, Reversed(t) PROVE FALSE
    BY DEF FreeAloneOrdered
  <2>1. t \in Threads /\ WaitsFor(t) # None
    BY DEF Stuck, Deadlocks, Waiting
  <2>2. call[t] = "lib_free" /\ ~aborted /\ ~Idle(t) /\ At(t, "lock") /\ Arg(t) = "chan"
    BY DEF Reversed, At
  <2>3. t \in Apps
    <3>1. t # Listener /\ t # Reader
      BY <2>2 DEF LockInv, Disciplined
    <3> QED BY <2>1, <3>1 DEF Threads, PollThreads
  <2>4. Solo /\ World /\ (Frees(t) \/ Elsewhere(t)) /\ (~Idle(Reader) => polled # {})
    BY <2>2, <2>3 DEF AloneInv
  <2>5. ~registered /\ owner["chan"] # t
    BY <2>3, <2>4, ReversedIsLate
  <2>6. Idle(Listener) /\ Idle(Reader)
    BY <2>4, <2>5 DEF World, Clear
  <2>7. \A u \in Threads : u # t => Idle(u)
    BY <2>2, <2>3, <2>4, <2>6 DEF Solo, Threads, PollThreads
  <2>8. "chan" \in Locks /\ owner["chan"] \in Threads \cup {None}
    BY StepSet DEF LockInv, TypeOK
  <2>9. \A u \in Threads : owner["chan"] # u
    BY <2>5, <2>7, <2>8, IdleHoldsNothing
  <2>10. WaitsFor(t) = owner["chan"]
    BY <2>2 DEF WaitsFor
  <2> QED BY <2>1, <2>8, <2>9, <2>10
<1> QED BY <1>1, LockInvariance, AloneInvariance, PTL
=============================================================================
