--------------------------- MODULE JoinLine_proofs ---------------------------
(***************************************************************************)
(* Proofs about JoinLine, for any number of callers and any depth.         *)
(*                                                                         *)
(* None of the properties is inductive alone: each rests on a job being in *)
(* one place at a time. LineInv says where the job of each caller is, and  *)
(* what that makes of the caller; the properties follow from it.           *)
(***************************************************************************)
EXTENDS JoinLine, TLAPS

\* The worker holds one job exactly when it is not idle.
OneJob ==
  /\ worker.at = "idle" => worker.job = {}
  /\ worker.at # "idle" => \E c \in Callers : worker.job = {c}

\* A job is in the line once.
OnceInLine == \A i, k \in DOMAIN queue : queue[i] = queue[k] => i = k

\* Whoever has not pushed yet is nowhere to be found.
NotPushed ==
  \A c \in Callers :
    caller[c] \in {"new", "registered", "measured"} =>
      /\ ~InLine(c) /\ c \notin worker.job
      /\ answers[c] = {} /\ told[c] = "nothing" /\ c \notin gone
      /\ \A b \in Callers : c \notin ahead[b]

\* A job still to be answered was not answered before.
Unanswered ==
  \A c \in Callers :
    InLine(c) \/ c \in worker.job => answers[c] = {} /\ told[c] # "placement"

\* A job in the worker's hands is not in the line.
OnePlace == \A c \in worker.job : ~InLine(c)

\* A caller counted as gone has returned, and a slot is handed back only for one of those.
GoneIsDone ==
  /\ \A c \in gone : caller[c] = "done"
  /\ worker.at = "release" => worker.job \subseteq gone
  /\ released \subseteq gone

\* The worker still finds whoever waits for it.
Claimable ==
  \A c \in Callers :
    /\ caller[c] \in {"registered", "measured"} => c \in waiting
    /\ caller[c] = "waiting" /\ (InLine(c) \/ (worker.at = "take" /\ c \in worker.job)) =>
         c \in waiting

\* In a memory line, whoever was ahead of a caller in the line is still ahead of it there.
StillAhead ==
  kind = "memory" =>
    \A i, k \in DOMAIN queue : queue[k] \in ahead[queue[i]] => k < i

\* Only a Redis line is measured before it is pushed to.
RedisMeasures == \A c \in Callers : caller[c] = "measured" => kind = "redis"

LineInv ==
  /\ RedisMeasures
  /\ TypeOK /\ OneJob /\ OnceInLine /\ NotPushed /\ Unanswered /\ OnePlace /\ GoneIsDone
  /\ Claimable /\ StillAhead
  /\ NeverBoth /\ NoForgottenCaller /\ MemoryInOrder

-----------------------------------------------------------------------------
(* What pushing and popping do to the places in the line. *)

\* The two ends of the list. Memory.Push puts the job behind everything in it, Redis.Push before; a pop
\* takes the job at the front and moves the rest up by one.
LEMMA AtTheEnds ==
  ASSUME NEW s \in Seq(Callers)
  PROVE  /\ DOMAIN s = 1 .. Len(s) /\ Len(s) \in Nat
         /\ \A c \in Callers :
              /\ Append(s, c) \in Seq(Callers)
              /\ Len(Append(s, c)) = Len(s) + 1
              /\ DOMAIN Append(s, c) = 1 .. Len(s) + 1
              /\ \A i \in 1 .. Len(s) : Append(s, c)[i] = s[i]
              /\ Append(s, c)[Len(s) + 1] = c
         /\ \A c \in Callers :
              /\ <<c>> \o s \in Seq(Callers)
              /\ Len(<<c>> \o s) = Len(s) + 1
              /\ DOMAIN (<<c>> \o s) = 1 .. Len(s) + 1
              /\ (<<c>> \o s)[1] = c
              /\ \A i \in 1 .. Len(s) : (<<c>> \o s)[i + 1] = s[i]
         /\ s # << >> =>
              /\ Head(s) \in Callers
              /\ Head(s) = s[1]
              /\ 1 \in DOMAIN s
              /\ Tail(s) \in Seq(Callers)
              /\ Len(Tail(s)) = Len(s) - 1
              /\ DOMAIN Tail(s) = 1 .. Len(s) - 1
              /\ \A i \in 1 .. Len(s) - 1 : Tail(s)[i] = s[i + 1]
  OBVIOUS

-----------------------------------------------------------------------------
(* Who is in the line after a step that changes it. *)

\* A push, at either end, adds one caller to the line and keeps the others.
LEMMA EnterLine ==
  ASSUME TypeOK, OnceInLine, NEW c \in Callers, ~InLine(c),
         Enters(c, Append(queue, c)) \/ Enters(c, <<c>> \o queue)
  PROVE  /\ queue' \in Seq(Callers)
         /\ \A x \in Callers : InLine(x)' <=> (InLine(x) \/ x = c)
         /\ OnceInLine'
         /\ ahead' \in [Callers -> SUBSET Callers]
         /\ \A x \in Callers :
              ahead'[x] = IF x = c THEN {a \in Callers : InLine(a)} ELSE ahead[x]
         /\ lost' = lost
<1>. queue \in Seq(Callers) BY DEF TypeOK
<1>1. ahead' \in [Callers -> SUBSET Callers]
  BY DEF Enters, TypeOK
<1>2. \A x \in Callers : ahead'[x] = IF x = c THEN {a \in Callers : InLine(a)} ELSE ahead[x]
  BY DEF Enters, TypeOK
<1>3. CASE Enters(c, Append(queue, c))
  <2>1. queue' = Append(queue, c) BY <1>3 DEF Enters
  <2>2. \A x \in Callers : InLine(x)' <=> (InLine(x) \/ x = c)
    BY <2>1, AtTheEnds DEF InLine
  <2>3. OnceInLine'
    BY <2>1, AtTheEnds DEF OnceInLine, InLine
  <2>. QED BY <1>1, <1>2, <1>3, <2>1, <2>2, <2>3, AtTheEnds DEF Enters
<1>4. CASE Enters(c, <<c>> \o queue)
  <2>1. queue' = <<c>> \o queue BY <1>4 DEF Enters
  <2>a. /\ DOMAIN queue' = 1 .. Len(queue) + 1 /\ DOMAIN queue = 1 .. Len(queue)
        /\ Len(queue) \in Nat /\ queue'[1] = c
        /\ \A i \in 1 .. Len(queue) : queue'[i + 1] = queue[i]
    BY <2>1, AtTheEnds
  <2>2. \A i \in DOMAIN queue' : i # 1 => i - 1 \in DOMAIN queue /\ queue'[i] = queue[i - 1]
    BY <2>a
  <2>3. \A x \in Callers : InLine(x)' <=> (InLine(x) \/ x = c)
    <3>1. \A i \in DOMAIN queue : i + 1 \in DOMAIN queue' /\ queue'[i + 1] = queue[i]
      BY <2>a
    <3>2. 1 \in DOMAIN queue' BY <2>a
    <3>3. \A x \in Callers : InLine(x)' => InLine(x) \/ x = c BY <2>a, <2>2 DEF InLine
    <3>4. InLine(c)' BY <2>a, <3>2 DEF InLine
    <3>5. \A x \in Callers : InLine(x) => InLine(x)' BY <3>1 DEF InLine
    <3>. QED BY <3>3, <3>4, <3>5
  <2>4. OnceInLine'
    <3>. SUFFICES ASSUME NEW i \in DOMAIN queue', NEW k \in DOMAIN queue', queue'[i] = queue'[k]
                  PROVE  i = k
      BY DEF OnceInLine
    <3>1. i # 1 /\ k # 1 => i - 1 = k - 1 BY <2>2 DEF OnceInLine
    <3>2. i = 1 <=> k = 1 BY <2>a, <2>2 DEF InLine
    <3>. QED BY <2>a, <3>1, <3>2
  <2>. QED BY <1>1, <1>2, <1>4, <2>1, <2>3, <2>4, AtTheEnds DEF Enters
<1>. QED BY <1>3, <1>4

\* A pop takes the front job out of the line, and nobody else.
LEMMA LeaveLine ==
  ASSUME TypeOK, OnceInLine, queue # << >>, queue' = Tail(queue)
  PROVE  /\ Head(queue) \in Callers
         /\ InLine(Head(queue))
         /\ queue' \in Seq(Callers)
         /\ Len(queue') <= Len(queue)
         /\ \A x \in Callers : InLine(x)' <=> (InLine(x) /\ x # Head(queue))
         /\ OnceInLine'
<1>. queue \in Seq(Callers) BY DEF TypeOK
<1>a. /\ DOMAIN queue = 1 .. Len(queue) /\ DOMAIN queue' = 1 .. Len(queue) - 1
      /\ Len(queue) \in Nat /\ 1 \in DOMAIN queue /\ Head(queue) = queue[1]
      /\ \A i \in 1 .. Len(queue) - 1 : queue'[i] = queue[i + 1]
  BY AtTheEnds
<1>b. \A i \in DOMAIN queue' : i + 1 \in DOMAIN queue /\ i + 1 # 1 /\ queue'[i] = queue[i + 1]
  BY <1>a
<1>c. \A i \in DOMAIN queue : i # 1 => i - 1 \in DOMAIN queue' /\ queue'[i - 1] = queue[i]
  BY <1>a
<1>1. \A x \in Callers : InLine(x)' => InLine(x) /\ x # Head(queue)
  BY <1>a, <1>b DEF InLine, OnceInLine
<1>2. \A x \in Callers : InLine(x) /\ x # Head(queue) => InLine(x)'
  BY <1>a, <1>c DEF InLine
<1>3. OnceInLine'
  <2>. SUFFICES ASSUME NEW i \in DOMAIN queue', NEW k \in DOMAIN queue', queue'[i] = queue'[k]
                PROVE  i = k
    BY DEF OnceInLine
  <2>1. i + 1 = k + 1 BY <1>b DEF OnceInLine
  <2>. QED BY <2>1, <1>a
<1>. QED BY <1>a, <1>1, <1>2, <1>3, AtTheEnds DEF InLine

-----------------------------------------------------------------------------
(* The invariant. *)

\* The record the worker keeps.
WorkerRecord ==
  [at : {"idle", "take", "place", "settle", "release"}, job : SUBSET Callers, placed : BOOLEAN]

\* The invariant holds in every state of every behaviour (Line, both queues).
THEOREM LineInvariant == Spec => []LineInv
<1>1. Init => LineInv
  <2>. SUFFICES ASSUME Init PROVE LineInv OBVIOUS
  <2>1. DOMAIN queue = {} /\ queue \in Seq(Callers) /\ Len(queue) = 0 BY DEF Init
  <2>2. TypeOK BY <2>1, DepthAssumption DEF Init, TypeOK, CallerState, Outcome, Idle
  <2>3. \A c \in Callers : ~InLine(c) BY <2>1 DEF InLine
  <2>. QED BY <2>1, <2>2, <2>3
    DEF Init, Idle, LineInv, OneJob, OnceInLine, NotPushed, Unanswered, OnePlace, GoneIsDone,
        Claimable, StillAhead, NeverBoth, NoForgottenCaller, MemoryInOrder, InOrder, RedisMeasures
<1>2. LineInv /\ [Next]_vars => LineInv'
  <2>. SUFFICES ASSUME LineInv, [Next]_vars PROVE LineInv'
    OBVIOUS
  <2>. USE DEF CallerState, Outcome, Idle, Moves, Returns, waiterVars, slotVars, history, callerVars
  \* A step that leaves the line and its order alone.
  <2>same. ASSUME LineInv, queue' = queue, ahead' = ahead, kind' = kind
           PROVE  /\ \A x \in Callers : InLine(x)' <=> InLine(x)
                  /\ OnceInLine' /\ StillAhead'
    BY <2>same DEF LineInv, InLine, OnceInLine, StillAhead
  <2>1. ASSUME NEW c \in Callers, Register(c)
        PROVE  LineInv'
    <3>1. queue' = queue /\ ahead' = ahead /\ kind' = kind /\ lost' = lost
      BY <2>1 DEF Register
    <3>2. (\A x \in Callers : InLine(x)' <=> InLine(x)) /\ OnceInLine' /\ StillAhead'
      BY <3>1, <2>same
    <3>3. TypeOK'
      BY <2>1, <3>1 DEF LineInv, TypeOK, Register
    <3>4. OneJob' /\ GoneIsDone' /\ NeverBoth'
      BY <2>1 DEF LineInv, TypeOK, OneJob, NotPushed, Unanswered, GoneIsDone, NeverBoth, Register
    <3>5. NotPushed' /\ Unanswered' /\ OnePlace'
      BY <2>1, <3>1, <3>2
      DEF LineInv, TypeOK, OneJob, NotPushed, Unanswered, OnePlace, GoneIsDone, Register
    <3>6. Claimable' /\ NoForgottenCaller'
      BY <2>1, <3>1, <3>2
      DEF LineInv, TypeOK, OneJob, NotPushed, Unanswered, GoneIsDone, Claimable, NoForgottenCaller, Register
    <3>8. RedisMeasures'
      BY <2>1, <3>1 DEF LineInv, TypeOK, RedisMeasures, Register
    <3>7. MemoryInOrder'
      BY <2>1, <3>1, <3>2 DEF LineInv, TypeOK, MemoryInOrder, InOrder, Register
    <3>. QED BY <3>2, <3>3, <3>4, <3>5, <3>6, <3>7, <3>8 DEF LineInv
  <2>2. ASSUME NEW c \in Callers, Measure(c)
        PROVE  LineInv'
    <3>1. queue' = queue /\ ahead' = ahead /\ kind' = kind /\ lost' = lost
      BY <2>2 DEF Measure
    <3>2. (\A x \in Callers : InLine(x)' <=> InLine(x)) /\ OnceInLine' /\ StillAhead'
      BY <3>1, <2>same
    <3>3. TypeOK'
      BY <2>2, <3>1 DEF LineInv, TypeOK, Measure
    <3>4. OneJob' /\ GoneIsDone' /\ NeverBoth'
      BY <2>2 DEF LineInv, TypeOK, OneJob, NotPushed, Unanswered, GoneIsDone, NeverBoth, Measure
    <3>5. NotPushed' /\ Unanswered' /\ OnePlace'
      BY <2>2, <3>1, <3>2
      DEF LineInv, TypeOK, OneJob, NotPushed, Unanswered, OnePlace, GoneIsDone, Measure
    <3>6. Claimable' /\ NoForgottenCaller'
      BY <2>2, <3>1, <3>2
      DEF LineInv, TypeOK, OneJob, NotPushed, Unanswered, GoneIsDone, Claimable, NoForgottenCaller, Measure
    <3>8. RedisMeasures'
      BY <2>2, <3>1 DEF LineInv, TypeOK, RedisMeasures, Measure
    <3>7. MemoryInOrder'
      BY <2>2, <3>1, <3>2 DEF LineInv, TypeOK, MemoryInOrder, InOrder, Measure
    <3>. QED BY <3>2, <3>3, <3>4, <3>5, <3>6, <3>7, <3>8 DEF LineInv
  <2>3. ASSUME NEW c \in Callers, Busy(c)
        PROVE  LineInv'
    <3>1. queue' = queue /\ ahead' = ahead /\ kind' = kind /\ lost' = lost
      BY <2>3 DEF Busy
    <3>2. (\A x \in Callers : InLine(x)' <=> InLine(x)) /\ OnceInLine' /\ StillAhead'
      BY <3>1, <2>same
    <3>3. TypeOK'
      BY <2>3, <3>1 DEF LineInv, TypeOK, Busy
    <3>4. OneJob' /\ GoneIsDone' /\ NeverBoth'
      BY <2>3 DEF LineInv, TypeOK, OneJob, NotPushed, Unanswered, GoneIsDone, NeverBoth, Busy
    <3>5. NotPushed' /\ Unanswered' /\ OnePlace'
      BY <2>3, <3>1, <3>2
      DEF LineInv, TypeOK, OneJob, NotPushed, Unanswered, OnePlace, GoneIsDone, Busy
    <3>6. Claimable' /\ NoForgottenCaller'
      BY <2>3, <3>1, <3>2
      DEF LineInv, TypeOK, OneJob, NotPushed, Unanswered, GoneIsDone, Claimable, NoForgottenCaller, Busy
    <3>8. RedisMeasures'
      BY <2>3, <3>1 DEF LineInv, TypeOK, RedisMeasures, Busy
    <3>7. MemoryInOrder'
      BY <2>3, <3>1, <3>2 DEF LineInv, TypeOK, MemoryInOrder, InOrder, Busy
    <3>. QED BY <3>2, <3>3, <3>4, <3>5, <3>6, <3>7, <3>8 DEF LineInv
  <2>4. ASSUME NEW c \in Callers, Answered(c)
        PROVE  LineInv'
    <3>1. queue' = queue /\ ahead' = ahead /\ kind' = kind /\ lost' = lost
      BY <2>4 DEF Answered
    <3>2. (\A x \in Callers : InLine(x)' <=> InLine(x)) /\ OnceInLine' /\ StillAhead'
      BY <3>1, <2>same
    <3>3. TypeOK'
      BY <2>4, <3>1 DEF LineInv, TypeOK, Answered
    <3>4. OneJob' /\ GoneIsDone' /\ NeverBoth'
      BY <2>4 DEF LineInv, TypeOK, OneJob, NotPushed, Unanswered, GoneIsDone, NeverBoth, Answered
    <3>5. NotPushed' /\ Unanswered' /\ OnePlace'
      BY <2>4, <3>1, <3>2
      DEF LineInv, TypeOK, OneJob, NotPushed, Unanswered, OnePlace, GoneIsDone, Answered
    <3>6. Claimable' /\ NoForgottenCaller'
      BY <2>4, <3>1, <3>2
      DEF LineInv, TypeOK, OneJob, NotPushed, Unanswered, GoneIsDone, Claimable, NoForgottenCaller, Answered
    <3>8. RedisMeasures'
      BY <2>4, <3>1 DEF LineInv, TypeOK, RedisMeasures, Answered
    <3>7. MemoryInOrder'
      BY <2>4, <3>1, <3>2 DEF LineInv, TypeOK, MemoryInOrder, InOrder, Answered
    <3>. QED BY <3>2, <3>3, <3>4, <3>5, <3>6, <3>7, <3>8 DEF LineInv
  <2>5. ASSUME NEW c \in Callers, Expires(c)
        PROVE  LineInv'
    <3>1. queue' = queue /\ ahead' = ahead /\ kind' = kind /\ lost' = lost
      BY <2>5 DEF Expires
    <3>2. (\A x \in Callers : InLine(x)' <=> InLine(x)) /\ OnceInLine' /\ StillAhead'
      BY <3>1, <2>same
    <3>3. TypeOK'
      BY <2>5, <3>1 DEF LineInv, TypeOK, Expires
    <3>4. OneJob' /\ GoneIsDone' /\ NeverBoth'
      BY <2>5 DEF LineInv, TypeOK, OneJob, NotPushed, Unanswered, GoneIsDone, NeverBoth, Expires
    <3>5. NotPushed' /\ Unanswered' /\ OnePlace'
      BY <2>5, <3>1, <3>2
      DEF LineInv, TypeOK, OneJob, NotPushed, Unanswered, OnePlace, GoneIsDone, Expires
    <3>6. Claimable' /\ NoForgottenCaller'
      BY <2>5, <3>1, <3>2
      DEF LineInv, TypeOK, OneJob, NotPushed, Unanswered, GoneIsDone, Claimable, NoForgottenCaller, Expires
    <3>8. RedisMeasures'
      BY <2>5, <3>1 DEF LineInv, TypeOK, RedisMeasures, Expires
    <3>7. MemoryInOrder'
      BY <2>5, <3>1, <3>2 DEF LineInv, TypeOK, MemoryInOrder, InOrder, Expires
    <3>. QED BY <3>2, <3>3, <3>4, <3>5, <3>6, <3>7, <3>8 DEF LineInv
  <2>6. ASSUME NEW c \in Callers, Abandon(c)
        PROVE  LineInv'
    <3>1. queue' = queue /\ ahead' = ahead /\ kind' = kind /\ lost' = lost
      BY <2>6 DEF Abandon
    <3>2. (\A x \in Callers : InLine(x)' <=> InLine(x)) /\ OnceInLine' /\ StillAhead'
      BY <3>1, <2>same
    <3>3. TypeOK'
      BY <2>6, <3>1 DEF LineInv, TypeOK, Abandon
    <3>4. OneJob' /\ GoneIsDone' /\ NeverBoth'
      <4>1. OneJob' BY <2>6 DEF LineInv, TypeOK, OneJob, Abandon
      <4>2. GoneIsDone' BY <2>6 DEF LineInv, TypeOK, GoneIsDone, Abandon
      <4>3. NeverBoth' BY <2>6 DEF LineInv, TypeOK, NeverBoth, Abandon
      <4>. QED BY <4>1, <4>2, <4>3
    <3>5. NotPushed' /\ Unanswered' /\ OnePlace'
      BY <2>6, <3>1, <3>2
      DEF LineInv, TypeOK, OneJob, NotPushed, Unanswered, OnePlace, GoneIsDone, Abandon
    <3>6. Claimable' /\ NoForgottenCaller'
      BY <2>6, <3>1, <3>2
      DEF LineInv, TypeOK, OneJob, NotPushed, Unanswered, GoneIsDone, Claimable, NoForgottenCaller, Abandon
    <3>8. RedisMeasures'
      BY <2>6, <3>1 DEF LineInv, TypeOK, RedisMeasures, Abandon
    <3>7. MemoryInOrder'
      BY <2>6, <3>1, <3>2 DEF LineInv, TypeOK, MemoryInOrder, InOrder, Abandon
    <3>. QED BY <3>2, <3>3, <3>4, <3>5, <3>6, <3>7, <3>8 DEF LineInv
  <2>7. ASSUME NEW c \in Callers, Take(c)
        PROVE  LineInv'
    <3>1. queue' = queue /\ ahead' = ahead /\ kind' = kind /\ lost' = lost
      BY <2>7 DEF Take
    <3>2. (\A x \in Callers : InLine(x)' <=> InLine(x)) /\ OnceInLine' /\ StillAhead'
      BY <3>1, <2>same
    <3>3. TypeOK'
      BY <2>7, <3>1 DEF LineInv, TypeOK, Take
    <3>4. OneJob' /\ GoneIsDone' /\ NeverBoth'
      BY <2>7 DEF LineInv, TypeOK, OneJob, NotPushed, Unanswered, GoneIsDone, NeverBoth, Take
    <3>5. NotPushed' /\ Unanswered' /\ OnePlace'
      BY <2>7, <3>1, <3>2
      DEF LineInv, TypeOK, OneJob, NotPushed, Unanswered, OnePlace, GoneIsDone, Take
    <3>6. Claimable' /\ NoForgottenCaller'
      <4>1. \A x \in Callers \ {c} : x \in waiting' <=> x \in waiting BY <2>7 DEF Take
      <4>2. worker'.at # "take" /\ worker'.job \subseteq {c} /\ ~InLine(c)
        BY <2>7 DEF LineInv, TypeOK, OnePlace, Take
      <4>3. Claimable'
        BY <2>7, <3>2, <4>1, <4>2 DEF LineInv, TypeOK, NotPushed, Claimable, Take
      <4>4. NoForgottenCaller'
        BY <2>7, <3>1, <3>2 DEF LineInv, TypeOK, Claimable, NoForgottenCaller, Take
      <4>. QED BY <4>3, <4>4
    <3>8. RedisMeasures'
      BY <2>7, <3>1 DEF LineInv, TypeOK, RedisMeasures, Take
    <3>7. MemoryInOrder'
      BY <2>7, <3>1, <3>2 DEF LineInv, TypeOK, MemoryInOrder, InOrder, Take
    <3>. QED BY <3>2, <3>3, <3>4, <3>5, <3>6, <3>7, <3>8 DEF LineInv
  <2>8. ASSUME NEW c \in Callers, Place(c)
        PROVE  LineInv'
    <3>1. queue' = queue /\ ahead' = ahead /\ kind' = kind /\ lost' = lost
      BY <2>8 DEF Place
    <3>2. (\A x \in Callers : InLine(x)' <=> InLine(x)) /\ OnceInLine' /\ StillAhead'
      BY <3>1, <2>same
    <3>3. TypeOK'
      BY <2>8, <3>1 DEF LineInv, TypeOK, Place
    <3>4. OneJob' /\ GoneIsDone' /\ NeverBoth'
      BY <2>8 DEF LineInv, TypeOK, OneJob, NotPushed, Unanswered, GoneIsDone, NeverBoth, Place
    <3>5. NotPushed' /\ Unanswered' /\ OnePlace'
      BY <2>8, <3>1, <3>2
      DEF LineInv, TypeOK, OneJob, NotPushed, Unanswered, OnePlace, GoneIsDone, Place
    <3>6. Claimable' /\ NoForgottenCaller'
      BY <2>8, <3>1, <3>2
      DEF LineInv, TypeOK, OneJob, NotPushed, Unanswered, GoneIsDone, Claimable, NoForgottenCaller, Place
    <3>8. RedisMeasures'
      BY <2>8, <3>1 DEF LineInv, TypeOK, RedisMeasures, Place
    <3>7. MemoryInOrder'
      BY <2>8, <3>1, <3>2 DEF LineInv, TypeOK, MemoryInOrder, InOrder, Place
    <3>. QED BY <3>2, <3>3, <3>4, <3>5, <3>6, <3>7, <3>8 DEF LineInv
  <2>9. ASSUME NEW c \in Callers, Settle(c)
        PROVE  LineInv'
    <3>a. /\ worker.at = "settle" /\ worker.job = {c}
          /\ worker' \in WorkerRecord
          /\ \/ worker'.at = "idle" /\ worker'.job = {}
             \/ worker'.at = "release" /\ worker'.job = {c} /\ c \in gone /\ answers' = answers
          /\ answers' \in [Callers -> SUBSET BOOLEAN]
          /\ \A x \in Callers \ {c} : answers'[x] = answers[x]
          /\ c \notin gone => answers'[c] # {}
      <4>1. worker.at = "settle" /\ worker.job = {c}
        BY <2>9 DEF Settle
      <4>2. worker \in WorkerRecord /\ answers \in [Callers -> SUBSET BOOLEAN]
        BY DEF LineInv, TypeOK, WorkerRecord
      <4>3. \/ worker' = Idle
            \/ worker' = [worker EXCEPT !.at = "release"] /\ c \in gone /\ answers' = answers
        BY <2>9, Zenon DEF Settle
      <4>4. \/ c \in gone /\ answers' = answers
            \/ c \notin gone /\ answers' = [answers EXCEPT ![c] = {worker.placed}]
        BY <2>9, Zenon DEF Settle
      <4>5. worker' \in WorkerRecord
        <5>1. CASE worker' = Idle BY <5>1 DEF Idle, WorkerRecord
        <5>2. CASE worker' = [worker EXCEPT !.at = "release"] BY <4>2, <5>2 DEF WorkerRecord
        <5>. QED BY <4>3, <5>1, <5>2
      <4>6. \/ worker'.at = "idle" /\ worker'.job = {}
            \/ worker'.at = "release" /\ worker'.job = {c} /\ c \in gone /\ answers' = answers
        <5>1. CASE worker' = Idle BY <5>1 DEF Idle
        <5>2. CASE worker' = [worker EXCEPT !.at = "release"] /\ c \in gone /\ answers' = answers
          BY <4>1, <4>2, <5>2 DEF WorkerRecord
        <5>. QED BY <4>3, <5>1, <5>2
      <4>7. /\ answers' \in [Callers -> SUBSET BOOLEAN]
            /\ \A x \in Callers \ {c} : answers'[x] = answers[x]
            /\ c \notin gone => answers'[c] # {}
        BY <4>2, <4>4 DEF WorkerRecord
      <4>. QED BY <4>1, <4>5, <4>6, <4>7
    <3>1. UNCHANGED <<kind, caller, told, waiting, gone, queue, slots, released, lost, ahead>>
      BY <2>9 DEF Settle, callerVars, slotVars, history
    <3>2. (\A x \in Callers : InLine(x)' <=> InLine(x)) /\ OnceInLine' /\ StillAhead'
      BY <3>1, <2>same
    <3>3. TypeOK'
      BY <3>1, <3>a DEF LineInv, TypeOK, WorkerRecord
    <3>4. OneJob' /\ GoneIsDone' /\ NeverBoth' /\ RedisMeasures'
      BY <3>1, <3>a DEF LineInv, OneJob, GoneIsDone, NeverBoth, RedisMeasures
    <3>5. NotPushed' /\ Unanswered' /\ OnePlace'
      <4>1. NotPushed' BY <3>1, <3>2, <3>a DEF LineInv, NotPushed
      <4>2. ~InLine(c) BY <3>a DEF LineInv, OnePlace
      <4>3. Unanswered' BY <3>1, <3>2, <3>a, <4>2 DEF LineInv, Unanswered
      <4>4. OnePlace' BY <3>2, <3>a DEF LineInv, OnePlace
      <4>. QED BY <4>1, <4>3, <4>4
    <3>6. Claimable' /\ NoForgottenCaller'
      <4>1. Claimable' BY <3>1, <3>2, <3>a DEF LineInv, Claimable
      <4>2. c \in gone => caller[c] = "done" BY DEF LineInv, GoneIsDone
      <4>3. NoForgottenCaller' BY <3>1, <3>2, <3>a, <4>2 DEF LineInv, NoForgottenCaller
      <4>. QED BY <4>1, <4>3
    <3>7. MemoryInOrder'
      <4>. SUFFICES ASSUME kind = "memory", NEW x \in worker'.job, NEW y \in ahead[x]
                    PROVE  ~InLine(y)'
        BY <3>1 DEF MemoryInOrder, InOrder
      <4>1. x \in worker.job /\ y \in Callers BY <3>a DEF LineInv, TypeOK
      <4>. QED BY <3>2, <4>1 DEF LineInv, MemoryInOrder, InOrder
    <3>. QED BY <3>2, <3>3, <3>4, <3>5, <3>6, <3>7 DEF LineInv
  <2>10. ASSUME NEW c \in Callers, Release(c)
        PROVE  LineInv'
    <3>1. queue' = queue /\ ahead' = ahead /\ kind' = kind /\ lost' = lost
      BY <2>10 DEF Release
    <3>2. (\A x \in Callers : InLine(x)' <=> InLine(x)) /\ OnceInLine' /\ StillAhead'
      BY <3>1, <2>same
    <3>3. TypeOK'
      BY <2>10, <3>1 DEF LineInv, TypeOK, Release
    <3>4. OneJob' /\ GoneIsDone' /\ NeverBoth'
      BY <2>10 DEF LineInv, TypeOK, OneJob, NotPushed, Unanswered, GoneIsDone, NeverBoth, Release
    <3>5. NotPushed' /\ Unanswered' /\ OnePlace'
      BY <2>10, <3>1, <3>2
      DEF LineInv, TypeOK, OneJob, NotPushed, Unanswered, OnePlace, GoneIsDone, Release
    <3>6. Claimable' /\ NoForgottenCaller'
      BY <2>10, <3>1, <3>2
      DEF LineInv, TypeOK, OneJob, NotPushed, Unanswered, GoneIsDone, Claimable, NoForgottenCaller, Release
    <3>8. RedisMeasures'
      BY <2>10, <3>1 DEF LineInv, TypeOK, RedisMeasures, Release
    <3>7. MemoryInOrder'
      BY <2>10, <3>1, <3>2 DEF LineInv, TypeOK, MemoryInOrder, InOrder, Release
    <3>. QED BY <3>2, <3>3, <3>4, <3>5, <3>6, <3>7, <3>8 DEF LineInv
  <2>11. ASSUME NEW c \in Callers, MemoryPush(c)
        PROVE  LineInv'
    <3>a. ~InLine(c) /\ c \notin worker.job /\ \A b \in Callers : c \notin ahead[b]
      BY <2>11 DEF MemoryPush, LineInv, NotPushed
    <3>b. c \in waiting /\ answers[c] = {} /\ told[c] = "nothing" /\ c \notin gone
      BY <2>11 DEF MemoryPush, LineInv, NotPushed, Claimable
    <3>c. UNCHANGED <<kind, waiting, gone, answers, worker, slots, released>>
      BY <2>11 DEF MemoryPush
    <3>d. /\ queue' \in Seq(Callers) /\ OnceInLine' /\ lost' = lost
          /\ \A x \in Callers : InLine(x)' <=> (InLine(x) \/ x = c)
          /\ ahead' \in [Callers -> SUBSET Callers]
          /\ \A x \in Callers : ahead'[x] = IF x = c THEN {y \in Callers : InLine(y)} ELSE ahead[x]
      BY <2>11, <3>a, EnterLine DEF MemoryPush, LineInv
    <3>e. /\ caller' = [caller EXCEPT ![c] = "waiting"]
          /\ told' \in [Callers -> Outcome] /\ told'[c] # "placement"
          /\ \A x \in Callers \ {c} : told'[x] = told[x]
      BY <2>11, <3>b DEF MemoryPush, LineInv, TypeOK
    <3>f. caller' \in [Callers -> CallerState] /\ caller'[c] = "waiting"
          /\ \A x \in Callers \ {c} : caller'[x] = caller[x]
      BY <3>e DEF LineInv, TypeOK
    <3>1. TypeOK'
      <4>1. Len(queue') <= Depth
        <5>1. queue' = Append(queue, c) /\ Len(queue) < Depth BY <2>11 DEF MemoryPush, Enters
        <5>2. queue \in Seq(Callers) BY DEF LineInv, TypeOK
        <5>3. Len(queue) \in Nat /\ Len(queue') = Len(queue) + 1 BY <5>1, <5>2, AtTheEnds
        <5>. QED BY <5>1, <5>3, DepthAssumption
      <4>. QED BY <3>c, <3>d, <3>e, <3>f, <4>1 DEF LineInv, TypeOK
    <3>2. OneJob' /\ GoneIsDone' /\ NeverBoth' /\ OnePlace'
      <4>1. OneJob' BY <3>c DEF LineInv, OneJob
      <4>2. GoneIsDone' BY <3>b, <3>c, <3>f DEF LineInv, TypeOK, GoneIsDone
      <4>3. NeverBoth' BY <3>c, <3>e DEF LineInv, TypeOK, NeverBoth
      <4>4. OnePlace' BY <3>a, <3>c, <3>d DEF LineInv, TypeOK, OnePlace
      <4>. QED BY <4>1, <4>2, <4>3, <4>4
    <3>3. NotPushed'
      <4>1. \A x \in Callers : caller[x] \in {"new", "registered", "measured"} => ~InLine(x)
        BY DEF LineInv, NotPushed
      <4>. SUFFICES ASSUME NEW x \in Callers, caller'[x] \in {"new", "registered", "measured"}
                    PROVE  /\ ~InLine(x)' /\ x \notin worker'.job
                           /\ answers'[x] = {} /\ told'[x] = "nothing" /\ x \notin gone'
                           /\ \A b \in Callers : x \notin ahead'[b]
        BY DEF NotPushed
      <4>2. x # c /\ caller[x] \in {"new", "registered", "measured"} BY <3>f
      <4>3. \A b \in Callers : x \notin ahead'[b] BY <3>d, <4>1, <4>2 DEF LineInv, NotPushed
      <4>. QED BY <3>c, <3>d, <3>e, <4>2, <4>3 DEF LineInv, NotPushed
    <3>4. Unanswered'
      BY <3>b, <3>c, <3>d, <3>e DEF LineInv, Unanswered
    <3>5. Claimable' /\ NoForgottenCaller'
      BY <3>a, <3>b, <3>c, <3>d, <3>f DEF LineInv, Claimable, NoForgottenCaller
    <3>6. StillAhead'
      <4>1. queue' = Append(queue, c) BY <2>11 DEF MemoryPush, Enters
      <4>2. queue \in Seq(Callers) BY DEF LineInv, TypeOK
      <4>3. /\ DOMAIN queue = 1 .. Len(queue) /\ DOMAIN queue' = 1 .. Len(queue) + 1
            /\ Len(queue) \in Nat /\ queue'[Len(queue) + 1] = c
            /\ \A i \in DOMAIN queue : queue'[i] = queue[i] /\ queue[i] \in Callers
        BY <4>1, <4>2, AtTheEnds
      <4>. SUFFICES ASSUME kind = "memory", NEW i \in DOMAIN queue', NEW k \in DOMAIN queue',
                           queue'[k] \in ahead'[queue'[i]]
                    PROVE  k < i
        BY <3>c DEF StillAhead
      <4>4. CASE i = Len(queue) + 1
        <5>1. k # Len(queue) + 1 BY <3>a, <3>d, <4>3, <4>4
        <5>. QED BY <4>3, <4>4, <5>1
      <4>5. CASE i # Len(queue) + 1
        <5>1. i \in DOMAIN queue /\ queue'[i] = queue[i] /\ queue[i] \in Callers BY <4>3, <4>5
        <5>2. queue[i] # c BY <3>a, <5>1 DEF InLine
        <5>3. queue'[k] \in ahead[queue[i]] BY <3>d, <5>1, <5>2
        <5>4. k \in DOMAIN queue BY <3>a, <4>3, <5>1, <5>3
        <5>. QED BY <4>3, <5>1, <5>3, <5>4 DEF LineInv, StillAhead
      <4>. QED BY <4>4, <4>5
    <3>8. RedisMeasures'
      BY <3>c, <3>f DEF LineInv, RedisMeasures
    <3>7. MemoryInOrder'
      <4>. SUFFICES ASSUME kind = "memory", NEW x \in worker.job, NEW y \in ahead'[x]
                    PROVE  ~InLine(y)'
        BY <3>c DEF MemoryInOrder, InOrder
      <4>1. x \in Callers /\ x # c BY <3>a DEF LineInv, TypeOK
      <4>2. y \in ahead[x] /\ y \in Callers /\ y # c BY <3>a, <3>d, <4>1 DEF LineInv, TypeOK
      <4>. QED BY <3>d, <4>2 DEF LineInv, MemoryInOrder, InOrder
    <3>. QED BY <3>1, <3>2, <3>3, <3>4, <3>5, <3>6, <3>7, <3>8, <3>d DEF LineInv
  <2>12. ASSUME NEW c \in Callers, RedisPush(c)
        PROVE  LineInv'
    <3>a. ~InLine(c) /\ c \notin worker.job /\ \A b \in Callers : c \notin ahead[b]
      BY <2>12 DEF RedisPush, LineInv, NotPushed
    <3>b. c \in waiting /\ answers[c] = {} /\ told[c] = "nothing" /\ c \notin gone
      BY <2>12 DEF RedisPush, LineInv, NotPushed, Claimable
    <3>c. UNCHANGED <<kind, waiting, gone, answers, worker, slots, released>>
      BY <2>12 DEF RedisPush
    <3>d. /\ queue' \in Seq(Callers) /\ OnceInLine' /\ lost' = lost
          /\ \A x \in Callers : InLine(x)' <=> (InLine(x) \/ x = c)
          /\ ahead' \in [Callers -> SUBSET Callers]
          /\ \A x \in Callers : ahead'[x] = IF x = c THEN {y \in Callers : InLine(y)} ELSE ahead[x]
      BY <2>12, <3>a, EnterLine DEF RedisPush, LineInv
    <3>e. /\ caller' = [caller EXCEPT ![c] = "waiting"]
          /\ told' \in [Callers -> Outcome] /\ told'[c] # "placement"
          /\ \A x \in Callers \ {c} : told'[x] = told[x]
      BY <2>12, <3>b DEF RedisPush, LineInv, TypeOK
    <3>f. caller' \in [Callers -> CallerState] /\ caller'[c] = "waiting"
          /\ \A x \in Callers \ {c} : caller'[x] = caller[x]
      BY <3>e DEF LineInv, TypeOK
    <3>g. kind = "redis" /\ kind' = "redis"
      BY <2>12, <3>c DEF RedisPush, LineInv, RedisMeasures
    <3>1. TypeOK'
      BY <3>c, <3>d, <3>e, <3>f, <3>g DEF LineInv, TypeOK
    <3>2. OneJob' /\ GoneIsDone' /\ NeverBoth' /\ OnePlace'
      <4>1. OneJob' BY <3>c DEF LineInv, OneJob
      <4>2. GoneIsDone' BY <3>b, <3>c, <3>f DEF LineInv, TypeOK, GoneIsDone
      <4>3. NeverBoth' BY <3>c, <3>e DEF LineInv, TypeOK, NeverBoth
      <4>4. OnePlace' BY <3>a, <3>c, <3>d DEF LineInv, TypeOK, OnePlace
      <4>. QED BY <4>1, <4>2, <4>3, <4>4
    <3>3. NotPushed'
      <4>1. \A x \in Callers : caller[x] \in {"new", "registered", "measured"} => ~InLine(x)
        BY DEF LineInv, NotPushed
      <4>. SUFFICES ASSUME NEW x \in Callers, caller'[x] \in {"new", "registered", "measured"}
                    PROVE  /\ ~InLine(x)' /\ x \notin worker'.job
                           /\ answers'[x] = {} /\ told'[x] = "nothing" /\ x \notin gone'
                           /\ \A b \in Callers : x \notin ahead'[b]
        BY DEF NotPushed
      <4>2. x # c /\ caller[x] \in {"new", "registered", "measured"} BY <3>f
      <4>3. \A b \in Callers : x \notin ahead'[b] BY <3>d, <4>1, <4>2 DEF LineInv, NotPushed
      <4>. QED BY <3>c, <3>d, <3>e, <4>2, <4>3 DEF LineInv, NotPushed
    <3>4. Unanswered'
      BY <3>b, <3>c, <3>d, <3>e DEF LineInv, Unanswered
    <3>5. Claimable' /\ NoForgottenCaller'
      BY <3>a, <3>b, <3>c, <3>d, <3>f DEF LineInv, Claimable, NoForgottenCaller
    <3>6. StillAhead'
      BY <3>c, <3>g DEF StillAhead
    <3>8. RedisMeasures'
      BY <3>c, <3>f DEF LineInv, RedisMeasures
    <3>7. MemoryInOrder'
      <4>. SUFFICES ASSUME kind = "memory", NEW x \in worker.job, NEW y \in ahead'[x]
                    PROVE  ~InLine(y)'
        BY <3>c DEF MemoryInOrder, InOrder
      <4>1. x \in Callers /\ x # c BY <3>a DEF LineInv, TypeOK
      <4>2. y \in ahead[x] /\ y \in Callers /\ y # c BY <3>a, <3>d, <4>1 DEF LineInv, TypeOK
      <4>. QED BY <3>d, <4>2 DEF LineInv, MemoryInOrder, InOrder
    <3>. QED BY <3>1, <3>2, <3>3, <3>4, <3>5, <3>6, <3>7, <3>8, <3>d DEF LineInv
  <2>13. ASSUME NEW c \in Callers, PushFails(c),
               caller[c] = "measured" /\ Enters(c, <<c>> \o queue)
        PROVE  LineInv'
    <3>a. ~InLine(c) /\ c \notin worker.job /\ \A b \in Callers : c \notin ahead[b]
      BY <2>13 DEF PushFails, LineInv, NotPushed
    <3>b. c \in waiting /\ answers[c] = {} /\ told[c] = "nothing" /\ c \notin gone
      BY <2>13 DEF PushFails, LineInv, NotPushed, Claimable
    <3>c. UNCHANGED <<kind, waiting, gone, answers, worker, slots, released>>
      BY <2>13 DEF PushFails
    <3>d. /\ queue' \in Seq(Callers) /\ OnceInLine' /\ lost' = lost
          /\ \A x \in Callers : InLine(x)' <=> (InLine(x) \/ x = c)
          /\ ahead' \in [Callers -> SUBSET Callers]
          /\ \A x \in Callers : ahead'[x] = IF x = c THEN {y \in Callers : InLine(y)} ELSE ahead[x]
      BY <2>13, <3>a, EnterLine DEF PushFails, LineInv
    <3>e. /\ caller' = [caller EXCEPT ![c] = "leaving"]
          /\ told' \in [Callers -> Outcome] /\ told'[c] # "placement"
          /\ \A x \in Callers \ {c} : told'[x] = told[x]
      BY <2>13, <3>b DEF PushFails, LineInv, TypeOK
    <3>f. caller' \in [Callers -> CallerState] /\ caller'[c] = "leaving"
          /\ \A x \in Callers \ {c} : caller'[x] = caller[x]
      BY <3>e DEF LineInv, TypeOK
    <3>g. kind = "redis" /\ kind' = "redis"
      BY <2>13, <3>c DEF PushFails, LineInv, RedisMeasures
    <3>1. TypeOK'
      BY <3>c, <3>d, <3>e, <3>f, <3>g DEF LineInv, TypeOK
    <3>2. OneJob' /\ GoneIsDone' /\ NeverBoth' /\ OnePlace'
      <4>1. OneJob' BY <3>c DEF LineInv, OneJob
      <4>2. GoneIsDone' BY <3>b, <3>c, <3>f DEF LineInv, TypeOK, GoneIsDone
      <4>3. NeverBoth' BY <3>c, <3>e DEF LineInv, TypeOK, NeverBoth
      <4>4. OnePlace' BY <3>a, <3>c, <3>d DEF LineInv, TypeOK, OnePlace
      <4>. QED BY <4>1, <4>2, <4>3, <4>4
    <3>3. NotPushed'
      <4>1. \A x \in Callers : caller[x] \in {"new", "registered", "measured"} => ~InLine(x)
        BY DEF LineInv, NotPushed
      <4>. SUFFICES ASSUME NEW x \in Callers, caller'[x] \in {"new", "registered", "measured"}
                    PROVE  /\ ~InLine(x)' /\ x \notin worker'.job
                           /\ answers'[x] = {} /\ told'[x] = "nothing" /\ x \notin gone'
                           /\ \A b \in Callers : x \notin ahead'[b]
        BY DEF NotPushed
      <4>2. x # c /\ caller[x] \in {"new", "registered", "measured"} BY <3>f
      <4>3. \A b \in Callers : x \notin ahead'[b] BY <3>d, <4>1, <4>2 DEF LineInv, NotPushed
      <4>. QED BY <3>c, <3>d, <3>e, <4>2, <4>3 DEF LineInv, NotPushed
    <3>4. Unanswered'
      BY <3>b, <3>c, <3>d, <3>e DEF LineInv, Unanswered
    <3>5. Claimable' /\ NoForgottenCaller'
      BY <3>a, <3>b, <3>c, <3>d, <3>f DEF LineInv, Claimable, NoForgottenCaller
    <3>6. StillAhead'
      BY <3>c, <3>g DEF StillAhead
    <3>8. RedisMeasures'
      BY <3>c, <3>f DEF LineInv, RedisMeasures
    <3>7. MemoryInOrder'
      <4>. SUFFICES ASSUME kind = "memory", NEW x \in worker.job, NEW y \in ahead'[x]
                    PROVE  ~InLine(y)'
        BY <3>c DEF MemoryInOrder, InOrder
      <4>1. x \in Callers /\ x # c BY <3>a DEF LineInv, TypeOK
      <4>2. y \in ahead[x] /\ y \in Callers /\ y # c BY <3>a, <3>d, <4>1 DEF LineInv, TypeOK
      <4>. QED BY <3>d, <4>2 DEF LineInv, MemoryInOrder, InOrder
    <3>. QED BY <3>1, <3>2, <3>3, <3>4, <3>5, <3>6, <3>7, <3>8, <3>d DEF LineInv
  <2>14. ASSUME NEW c \in Callers, PushFails(c), UNCHANGED <<queue, history>>
        PROVE  LineInv'
    <3>1. queue' = queue /\ ahead' = ahead /\ kind' = kind /\ lost' = lost
      BY <2>14 DEF PushFails
    <3>2. (\A x \in Callers : InLine(x)' <=> InLine(x)) /\ OnceInLine' /\ StillAhead'
      BY <3>1, <2>same
    <3>3. TypeOK'
      BY <2>14, <3>1 DEF LineInv, TypeOK, PushFails
    <3>4. OneJob' /\ GoneIsDone' /\ NeverBoth'
      BY <2>14 DEF LineInv, TypeOK, OneJob, NotPushed, Unanswered, GoneIsDone, NeverBoth, PushFails
    <3>5. NotPushed' /\ Unanswered' /\ OnePlace'
      BY <2>14, <3>1, <3>2
      DEF LineInv, TypeOK, OneJob, NotPushed, Unanswered, OnePlace, GoneIsDone, PushFails
    <3>6. Claimable' /\ NoForgottenCaller'
      BY <2>14, <3>1, <3>2
      DEF LineInv, TypeOK, OneJob, NotPushed, Unanswered, GoneIsDone, Claimable, NoForgottenCaller, PushFails
    <3>7. MemoryInOrder'
      BY <2>14, <3>1, <3>2 DEF LineInv, TypeOK, MemoryInOrder, InOrder, PushFails
    <3>8. RedisMeasures'
      BY <2>14, <3>1 DEF LineInv, TypeOK, RedisMeasures, PushFails
    <3>. QED BY <3>2, <3>3, <3>4, <3>5, <3>6, <3>7, <3>8 DEF LineInv
  <2>15. CASE Pop
    <3>a. queue # << >> /\ queue' = Tail(queue) /\ worker.at = "idle" /\ worker.job = {}
      BY <2>15 DEF Pop, LineInv, OneJob
    <3>b. /\ Head(queue) \in Callers /\ InLine(Head(queue)) /\ queue' \in Seq(Callers)
          /\ Len(queue') <= Len(queue) /\ OnceInLine'
          /\ \A x \in Callers : InLine(x)' <=> (InLine(x) /\ x # Head(queue))
      BY <3>a, LeaveLine DEF LineInv
    <3>c. /\ UNCHANGED <<kind, caller, told, waiting, gone, answers, slots, released, lost, ahead>>
          /\ worker' = [at |-> "take", job |-> {Head(queue)}, placed |-> FALSE]
      BY <2>15 DEF Pop
    <3>1. TypeOK'
      <4>1. kind = "memory" => Len(queue') <= Depth
        <5>1. queue \in Seq(Callers) /\ (kind = "memory" => Len(queue) <= Depth)
          BY DEF LineInv, TypeOK
        <5>2. Len(queue) \in Nat /\ Len(queue') \in Nat BY <3>b, <5>1
        <5>. QED BY <3>b, <5>1, <5>2, DepthAssumption
      <4>. QED BY <3>b, <3>c, <4>1 DEF LineInv, TypeOK
    <3>2. OneJob' /\ GoneIsDone' /\ NeverBoth' /\ RedisMeasures'
      BY <3>b, <3>c DEF LineInv, OneJob, GoneIsDone, NeverBoth, RedisMeasures
    <3>3. NotPushed' /\ Unanswered' /\ OnePlace'
      BY <3>b, <3>c DEF LineInv, NotPushed, Unanswered, OnePlace
    <3>4. Claimable' /\ NoForgottenCaller'
      BY <3>a, <3>b, <3>c DEF LineInv, Claimable, NoForgottenCaller
    <3>5. StillAhead'
      <4>. SUFFICES ASSUME kind = "memory", NEW i \in DOMAIN queue', NEW k \in DOMAIN queue',
                           queue'[k] \in ahead[queue'[i]]
                    PROVE  k < i
        BY <3>c DEF StillAhead
      <4>1. queue \in Seq(Callers) BY DEF LineInv, TypeOK
      <4>2. /\ DOMAIN queue = 1 .. Len(queue) /\ DOMAIN queue' = 1 .. Len(queue) - 1
            /\ Len(queue) \in Nat
            /\ \A j \in 1 .. Len(queue) - 1 : queue'[j] = queue[j + 1]
        BY <3>a, <4>1, AtTheEnds
      <4>3. i + 1 \in DOMAIN queue /\ k + 1 \in DOMAIN queue BY <4>2
      <4>4. queue[k + 1] \in ahead[queue[i + 1]] BY <4>2
      <4>5. k + 1 < i + 1 BY <4>3, <4>4 DEF LineInv, StillAhead
      <4>. QED BY <4>2, <4>5
    <3>6. MemoryInOrder'
      <4>. SUFFICES ASSUME kind = "memory", NEW a \in ahead[Head(queue)], InLine(a)'
                    PROVE  FALSE
        BY <3>c DEF MemoryInOrder, InOrder
      <4>1. a \in Callers /\ InLine(a) BY <3>b DEF LineInv, TypeOK
      <4>2. PICK k \in DOMAIN queue : queue[k] = a BY <4>1 DEF InLine
      <4>3. queue \in Seq(Callers) BY DEF LineInv, TypeOK
      <4>4. 1 \in DOMAIN queue /\ Head(queue) = queue[1] /\ DOMAIN queue = 1 .. Len(queue)
        BY <3>a, <4>3, AtTheEnds
      <4>5. k < 1 BY <4>2, <4>4 DEF LineInv, StillAhead
      <4>. QED BY <4>2, <4>4, <4>5
    <3>. QED BY <3>1, <3>2, <3>3, <3>4, <3>5, <3>6, <3>b DEF LineInv
  <2>16. CASE PopLost
    <3>a. queue # << >> /\ queue' = Tail(queue) /\ worker.at = "idle" /\ worker.job = {}
      BY <2>16 DEF PopLost, LineInv, OneJob
    <3>b. /\ Head(queue) \in Callers /\ InLine(Head(queue)) /\ queue' \in Seq(Callers)
          /\ Len(queue') <= Len(queue) /\ OnceInLine'
          /\ \A x \in Callers : InLine(x)' <=> (InLine(x) /\ x # Head(queue))
      BY <3>a, LeaveLine DEF LineInv
    <3>c. UNCHANGED <<kind, caller, told, waiting, gone, answers, worker, slots, released, ahead>>
      BY <2>16 DEF PopLost
    <3>d. kind = "redis" /\ lost' = lost \cup {Head(queue)}
      BY <2>16 DEF PopLost
    <3>1. TypeOK'
      BY <3>b, <3>c, <3>d DEF LineInv, TypeOK
    <3>2. OneJob' /\ GoneIsDone' /\ NeverBoth' /\ RedisMeasures'
      BY <3>b, <3>c DEF LineInv, OneJob, GoneIsDone, NeverBoth, RedisMeasures
    <3>3. NotPushed' /\ Unanswered' /\ OnePlace'
      BY <3>a, <3>b, <3>c DEF LineInv, NotPushed, Unanswered, OnePlace
    <3>4. Claimable' /\ NoForgottenCaller'
      BY <3>a, <3>b, <3>c, <3>d DEF LineInv, Claimable, NoForgottenCaller
    <3>5. StillAhead' /\ MemoryInOrder'
      BY <3>c, <3>d DEF StillAhead, MemoryInOrder
    <3>. QED BY <3>1, <3>2, <3>3, <3>4, <3>5, <3>b DEF LineInv
  <2>17. CASE Crash
    <3>a. /\ caller' = [c \in Callers |-> IF caller[c] = "new" THEN "new" ELSE "done"]
          /\ waiting' = {} /\ gone' = {c \in Callers : caller[c] # "new"}
          /\ answers' = [c \in Callers |-> {}]
          /\ worker' = [at |-> "idle", job |-> {}, placed |-> FALSE]
          /\ slots' = {}
          /\ queue' = (IF kind = "redis" THEN queue ELSE << >>)
          /\ UNCHANGED <<kind, told, released, lost, ahead>>
      BY <2>17 DEF Crash
    <3>b. /\ queue' \in Seq(Callers) /\ OnceInLine'
          /\ \A x \in Callers : InLine(x)' => InLine(x)
          /\ kind = "memory" => queue' = << >>
      <4>1. kind = "memory" \/ kind = "redis" BY KindAssumption DEF LineInv, TypeOK
      <4>2. CASE kind = "redis"
        BY <3>a, <4>2 DEF LineInv, TypeOK, OnceInLine, InLine
      <4>3. CASE kind = "memory"
        <5>1. queue' = << >> BY <3>a, <4>3
        <5>2. DOMAIN queue' = {} /\ queue' \in Seq(Callers) BY <5>1
        <5>. QED BY <4>3, <5>1, <5>2 DEF OnceInLine, InLine
      <4>. QED BY <4>1, <4>2, <4>3
    <3>1. TypeOK'
      <4>1. kind = "memory" => Len(queue') <= Depth
        BY <3>b, DepthAssumption
      <4>. QED BY <3>a, <3>b, <4>1 DEF LineInv, TypeOK
    <3>2. OneJob' /\ NeverBoth' /\ RedisMeasures'
      BY <3>a DEF LineInv, OneJob, NeverBoth, RedisMeasures
    <3>3. GoneIsDone'
      <4>1. released \subseteq gone' BY <3>a DEF LineInv, TypeOK, GoneIsDone
      <4>. QED BY <3>a, <4>1 DEF LineInv, TypeOK, GoneIsDone
    <3>4. NotPushed' /\ Unanswered' /\ OnePlace'
      BY <3>a, <3>b DEF LineInv, NotPushed, Unanswered, OnePlace
    <3>5. Claimable' /\ NoForgottenCaller'
      BY <3>a DEF Claimable, NoForgottenCaller
    <3>6. StillAhead' /\ MemoryInOrder'
      <4>1. MemoryInOrder' BY <3>a DEF MemoryInOrder, InOrder
      <4>2. kind = "memory" => DOMAIN queue' = {} BY <3>b
      <4>. QED BY <3>a, <4>1, <4>2 DEF StillAhead
    <3>. QED BY <3>1, <3>2, <3>3, <3>4, <3>5, <3>6, <3>b DEF LineInv
  <2>18. CASE UNCHANGED vars
    <3>1. UNCHANGED <<kind, caller, told, waiting, gone, answers, queue, worker, slots, released, lost, ahead>>
      BY <2>18 DEF vars
    <3>. QED BY <3>1, <2>same
      DEF LineInv, TypeOK, OneJob, NotPushed, Unanswered, OnePlace, GoneIsDone, Claimable,
          NeverBoth, NoForgottenCaller, MemoryInOrder, InOrder, RedisMeasures
  <2>19. \A c \in Callers : PushFails(c) =>
          UNCHANGED <<queue, history>> \/ (caller[c] = "measured" /\ Enters(c, <<c>> \o queue))
    BY DEF PushFails
  <2>. QED BY <2>1, <2>2, <2>3, <2>4, <2>5, <2>6, <2>7, <2>8, <2>9, <2>10, <2>11, <2>12, <2>13, <2>14,
              <2>15, <2>16, <2>17, <2>18, <2>19 DEF Next, Serve
<1>. QED BY <1>1, <1>2, PTL DEF Spec

(***************************************************************************)
(* Every variable keeps its type, and a memory line never holds more jobs  *)
(* than its channel was made for (Memory.Push).                            *)
(***************************************************************************)
THEOREM LineTypeCorrect == Spec => []TypeOK
<1>1. LineInv => TypeOK BY DEF LineInv
<1>. QED BY <1>1, LineInvariant, PTL

(***************************************************************************)
(* A slot handed back was never a player's: a caller whose placement the   *)
(* worker released did not return with it (Line.settle, Line.abandon).     *)
(***************************************************************************)
THEOREM ReleasedIsNobodys == Spec => []NeverBoth
<1>1. LineInv => NeverBoth BY DEF LineInv
<1>. QED BY <1>1, LineInvariant, PTL

(***************************************************************************)
(* A waiting caller's job is in the line or in the worker's hands until it *)
(* is answered, or Redis lost it (Line.Join, Line.take).                   *)
(***************************************************************************)
THEOREM NobodyForgotten == Spec => []NoForgottenCaller
<1>1. LineInv => NoForgottenCaller BY DEF LineInv
<1>. QED BY <1>1, LineInvariant, PTL

(***************************************************************************)
(* A memory line is first in, first out, whoever gives up while in it      *)
(* (Memory.Push, Memory.Pop).                                              *)
(***************************************************************************)
THEOREM MemoryLineInOrder == Spec => []MemoryInOrder
<1>1. LineInv => MemoryInOrder BY DEF LineInv
<1>. QED BY <1>1, LineInvariant, PTL

=============================================================================
