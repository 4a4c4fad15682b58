--------------------------- MODULE PutQueueProofs ---------------------------
(***************************************************************************)
(* Proofs about the put queue of one registration, for any number of       *)
(* threads, messages, timers and registrations: messages go to CAPI in     *)
(* their order, and none is left behind.                                   *)
(***************************************************************************)
EXTENDS PutQueue, SequenceTheorems, TLAPS

(* What a thread may still have to do, by what that means for the others.  *)
(* A put that fails releases while the message is still the thread's own,  *)
(* and goes no deeper: the RELEASE finds m_CurPutMessage taken.            *)
Asking ==
  {<<"alloc", "empty">>, <<"flush", "mark", "empty">>, <<"mark", "empty">>,
   <<"empty">>, <<"out">>}

AskingInLoop ==
  {<<"alloc", "empty", "loop">>, <<"flush", "mark", "empty", "loop">>,
   <<"mark", "empty", "loop">>, <<"empty", "loop">>, <<"out", "loop">>}

Looking == {<<"look">>, <<"look", "loop">>}

Putting == {<<"put">>, <<"put", "loop">>}

Dropping == {<<"free">>, <<"free", "loop">>}

AfterPut ==
  {<<"free", "release">>, <<"free", "empty">>,
   <<"flush", "mark", "empty", "free", "empty">>, <<"mark", "empty", "free", "empty">>,
   <<"empty", "free", "empty">>, <<"out", "free", "empty">>}

AfterPutInLoop ==
  {<<"free", "release", "loop">>, <<"free", "empty", "loop">>,
   <<"flush", "mark", "empty", "free", "empty", "loop">>,
   <<"mark", "empty", "free", "empty", "loop">>,
   <<"empty", "free", "empty", "loop">>, <<"out", "free", "empty", "loop">>}

Releasing == {<<"release">>, <<"release", "loop">>}

Stopping == {<<"stop">>, <<"stop", "loop">>}

Ending ==
  {<<"released">>, <<"flush", "free", "complete">>, <<"free", "complete">>, <<"complete">>}

Resting == {<<>>, <<"start">>, <<"loop">>}

OneStep == {<<"look">>, <<"put">>, <<"free">>, <<"release">>, <<"stop">>}

OneStepInLoop ==
  {<<"look", "loop">>, <<"put", "loop">>, <<"free", "loop">>, <<"release", "loop">>,
   <<"stop", "loop">>}

Work == {<<>>} \cup Asking \cup OneStep \cup AfterPut

ThreadWork ==
  Resting \cup AskingInLoop \cup OneStepInLoop \cup AfterPutInLoop \cup Ending

AtQueue == Asking \cup AskingInLoop

InHand == Looking \cup Putting \cup Dropping \cup AfterPut \cup AfterPutInLoop

(* The threads that have m_CurPutMessage in their hands.                   *)
Holders == {t \in Threads : stack[t] \in InHand}

QueueTypeOK ==
  /\ queue \in Seq(Nat) /\ sent \in Seq(Nat)
  /\ cur \in Seq(Nat) /\ Len(cur) <= 1
  /\ count \in [puts : Nat, given : Nat, regs : Nat, sigs : Nat]
  /\ pice \in [live : BOOLEAN, stop : BOOLEAN, bogus : BOOLEAN]

StackTypeOK ==
  /\ stack \in [Threads -> Work \cup ThreadWork]
  /\ stack[Capi] \in ThreadWork
  /\ \A t \in Threads \ {Capi} : stack[t] \in Work

(* A message is in hand exactly when one thread has it.                    *)
OneHolder ==
  /\ cur = <<>> <=> Holders = {}
  /\ \A t, u \in Holders : t = u

(* The numbers rise from what CAPI has, over the message in hand, to the   *)
(* queue; those that are given out are higher.                             *)
SentRises ==
  /\ \A i, j \in DOMAIN sent : i < j => sent[i] < sent[j]
  /\ \A i \in DOMAIN sent : sent[i] <= count.given

QueueRises ==
  \A k \in DOMAIN queue :
    /\ queue[k] <= count.given
    /\ queue[k] # Release =>
         /\ \A i \in DOMAIN sent : sent[i] < queue[k]
         /\ \A j \in DOMAIN queue : j < k => queue[j] < queue[k]
         /\ cur # <<>> => cur[1] < queue[k]

(* What is about to be put is no RELEASE and has not been put.             *)
PutIsNew ==
  /\ cur # <<>> => cur[1] <= count.given
  /\ \A t \in Threads :
       /\ stack[t] \in Putting => cur # <<>> /\ cur[1] # Release
       /\ stack[t] \in Looking \cup Putting /\ cur # <<>> /\ cur[1] # Release =>
            \A i \in DOMAIN sent : sent[i] < cur[1]

(* Who does not come back to the queue has seen that the id is gone.       *)
IdIsGone ==
  /\ \A t \in Threads : stack[t] \in Dropping \cup Stopping => ~appl
  /\ pice.stop => ~appl
  /\ stack[Capi] \in Ending => ~appl

ComesBack == appl /\ queue # <<>> => \E t \in Threads : Emptying(t)

Sound ==
  /\ QueueTypeOK /\ StackTypeOK /\ OneHolder /\ SentRises /\ QueueRises /\ PutIsNew
  /\ IdIsGone /\ ComesBack

(* The inductive invariant: all of that as long as no registration ends    *)
(* under a thread that still uses it.                                      *)
IInv == ~crash => Sound

-----------------------------------------------------------------------------
(* Facts about sequences                                                   *)

(* A sequence is known by its length and its elements.                     *)
LEMMA ConcatIs ==
  ASSUME NEW S, NEW l \in Seq(S), NEW r \in Seq(S), NEW t \in Seq(S),
         Len(t) = Len(l) + Len(r),
         \A i \in 1 .. Len(l) : t[i] = l[i],
         \A i \in 1 .. Len(r) : t[Len(l) + i] = r[i]
  PROVE  l \o r = t
<1>1. l \o r \in Seq(S) /\ Len(l \o r) = Len(t)
  BY ConcatProperties
<1>2. ASSUME NEW i \in 1 .. Len(t)
      PROVE  (l \o r)[i] = t[i]
  <2>1. CASE i <= Len(l)
    BY <2>1, ConcatProperties
  <2>2. CASE i > Len(l)
    <3>1. i - Len(l) \in 1 .. Len(r)
      BY <2>2
    <3>2. t[Len(l) + (i - Len(l))] = r[i - Len(l)]
      BY <3>1
    <3> QED
      BY <3>1, <3>2, <2>2, ConcatProperties
  <2> QED
    BY <2>1, <2>2
<1> QED
  BY <1>1, <1>2, SeqEqual

LEMMA Concat11 ==
  ASSUME NEW a, NEW b
  PROVE  <<a>> \o <<b>> = <<a, b>>
<1> DEFINE S == {a, b}  l == <<a>>  r == <<b>>  t == <<a, b>>
<1>1. l \in Seq(S) /\ Len(l) = 1 /\ l[1] = a
  OBVIOUS
<1>2. r \in Seq(S) /\ Len(r) = 1 /\ r[1] = b
  OBVIOUS
<1>3. t \in Seq(S) /\ Len(t) = 2 /\ t[1] = a /\ t[2] = b
  OBVIOUS
<1> HIDE DEF S, l, r, t
<1>4. /\ Len(t) = Len(l) + Len(r)
      /\ \A i \in 1 .. Len(l) : t[i] = l[i]
      /\ \A i \in 1 .. Len(r) : t[Len(l) + i] = r[i]
  BY <1>1, <1>2, <1>3
<1>5. l \o r = t
  BY <1>1, <1>2, <1>3, <1>4, ConcatIs
<1> QED
  BY <1>5 DEF l, r, t

LEMMA Concat12 ==
  ASSUME NEW a, NEW b, NEW c
  PROVE  <<a>> \o <<b, c>> = <<a, b, c>>
<1> DEFINE S == {a, b, c}  l == <<a>>  r == <<b, c>>  t == <<a, b, c>>
<1>1. l \in Seq(S) /\ Len(l) = 1 /\ l[1] = a
  OBVIOUS
<1>2. r \in Seq(S) /\ Len(r) = 2 /\ r[1] = b /\ r[2] = c
  OBVIOUS
<1>3. t \in Seq(S) /\ Len(t) = 3 /\ t[1] = a /\ t[2] = b /\ t[3] = c
  OBVIOUS
<1> HIDE DEF S, l, r, t
<1>4. /\ Len(t) = Len(l) + Len(r)
      /\ \A i \in 1 .. Len(l) : t[i] = l[i]
      /\ \A i \in 1 .. Len(r) : t[Len(l) + i] = r[i]
  BY <1>1, <1>2, <1>3
<1>5. l \o r = t
  BY <1>1, <1>2, <1>3, <1>4, ConcatIs
<1> QED
  BY <1>5 DEF l, r, t

LEMMA Concat13 ==
  ASSUME NEW a, NEW b, NEW c, NEW d
  PROVE  <<a>> \o <<b, c, d>> = <<a, b, c, d>>
<1> DEFINE S == {a, b, c, d}  l == <<a>>  r == <<b, c, d>>  t == <<a, b, c, d>>
<1>1. l \in Seq(S) /\ Len(l) = 1 /\ l[1] = a
  OBVIOUS
<1>2. r \in Seq(S) /\ Len(r) = 3 /\ r[1] = b /\ r[2] = c /\ r[3] = d
  OBVIOUS
<1>3. t \in Seq(S) /\ Len(t) = 4 /\ t[1] = a /\ t[2] = b /\ t[3] = c /\ t[4] = d
  OBVIOUS
<1> HIDE DEF S, l, r, t
<1>4. /\ Len(t) = Len(l) + Len(r)
      /\ \A i \in 1 .. Len(l) : t[i] = l[i]
      /\ \A i \in 1 .. Len(r) : t[Len(l) + i] = r[i]
  BY <1>1, <1>2, <1>3
<1>5. l \o r = t
  BY <1>1, <1>2, <1>3, <1>4, ConcatIs
<1> QED
  BY <1>5 DEF l, r, t

LEMMA Concat21 ==
  ASSUME NEW a, NEW b, NEW c
  PROVE  <<a, b>> \o <<c>> = <<a, b, c>>
<1> DEFINE S == {a, b, c}  l == <<a, b>>  r == <<c>>  t == <<a, b, c>>
<1>1. l \in Seq(S) /\ Len(l) = 2 /\ l[1] = a /\ l[2] = b
  OBVIOUS
<1>2. r \in Seq(S) /\ Len(r) = 1 /\ r[1] = c
  OBVIOUS
<1>3. t \in Seq(S) /\ Len(t) = 3 /\ t[1] = a /\ t[2] = b /\ t[3] = c
  OBVIOUS
<1> HIDE DEF S, l, r, t
<1>4. /\ Len(t) = Len(l) + Len(r)
      /\ \A i \in 1 .. Len(l) : t[i] = l[i]
      /\ \A i \in 1 .. Len(r) : t[Len(l) + i] = r[i]
  BY <1>1, <1>2, <1>3
<1>5. l \o r = t
  BY <1>1, <1>2, <1>3, <1>4, ConcatIs
<1> QED
  BY <1>5 DEF l, r, t

LEMMA Concat32 ==
  ASSUME NEW a, NEW b, NEW c, NEW d, NEW e
  PROVE  <<a, b, c>> \o <<d, e>> = <<a, b, c, d, e>>
<1> DEFINE S == {a, b, c, d, e}  l == <<a, b, c>>  r == <<d, e>>  t == <<a, b, c, d, e>>
<1>1. l \in Seq(S) /\ Len(l) = 3 /\ l[1] = a /\ l[2] = b /\ l[3] = c
  OBVIOUS
<1>2. r \in Seq(S) /\ Len(r) = 2 /\ r[1] = d /\ r[2] = e
  OBVIOUS
<1>3. t \in Seq(S) /\ Len(t) = 5 /\ t[1] = a /\ t[2] = b /\ t[3] = c /\ t[4] = d /\ t[5] = e
  OBVIOUS
<1> HIDE DEF S, l, r, t
<1>4. /\ Len(t) = Len(l) + Len(r)
      /\ \A i \in 1 .. Len(l) : t[i] = l[i]
      /\ \A i \in 1 .. Len(r) : t[Len(l) + i] = r[i]
  BY <1>1, <1>2, <1>3
<1>5. l \o r = t
  BY <1>1, <1>2, <1>3, <1>4, ConcatIs
<1> QED
  BY <1>5 DEF l, r, t

LEMMA Concat51 ==
  ASSUME NEW a, NEW b, NEW c, NEW d, NEW e, NEW f
  PROVE  <<a, b, c, d, e>> \o <<f>> = <<a, b, c, d, e, f>>
<1> DEFINE S == {a, b, c, d, e, f}  l == <<a, b, c, d, e>>  r == <<f>>  t == <<a, b, c, d, e, f>>
<1>1. l \in Seq(S) /\ Len(l) = 5 /\ l[1] = a /\ l[2] = b /\ l[3] = c /\ l[4] = d /\ l[5] = e
  OBVIOUS
<1>2. r \in Seq(S) /\ Len(r) = 1 /\ r[1] = f
  OBVIOUS
<1>3. t \in Seq(S) /\ Len(t) = 6 /\ t[1] = a /\ t[2] = b /\ t[3] = c /\ t[4] = d /\ t[5] = e /\ t[6] = f
  OBVIOUS
<1> HIDE DEF S, l, r, t
<1>4. /\ Len(t) = Len(l) + Len(r)
      /\ \A i \in 1 .. Len(l) : t[i] = l[i]
      /\ \A i \in 1 .. Len(r) : t[Len(l) + i] = r[i]
  BY <1>1, <1>2, <1>3
<1>5. l \o r = t
  BY <1>1, <1>2, <1>3, <1>4, ConcatIs
<1> QED
  BY <1>5 DEF l, r, t

(* A sequence of at most one message.                                      *)
LEMMA OneElement ==
  ASSUME NEW c \in Seq(Nat), Len(c) <= 1, c # <<>>
  PROVE  Len(c) = 1 /\ c[1] \in Nat /\ c = <<c[1]>>
<1> DEFINE n == Len(c)
<1>1. n # 0 /\ n \in Nat /\ n <= 1
  OBVIOUS
<1> HIDE DEF n
<1>2. n = 1
  BY <1>1
<1>3. Len(c) = 1
  BY <1>2 DEF n
<1>4. c[1] \in Nat
  BY <1>3
<1>5. c = <<c[1]>>
  BY <1>3
<1> QED
  BY <1>3, <1>4, <1>5

(* Adding it to a sequence of messages.                                    *)
LEMMA ConcatOne ==
  ASSUME NEW s \in Seq(Nat), NEW c \in Seq(Nat), Len(c) = 1
  PROVE  /\ s \o c \in Seq(Nat) /\ DOMAIN (s \o c) = 1 .. Len(s) + 1
         /\ \A i \in 1 .. Len(s) + 1 : (s \o c)[i] = IF i \in DOMAIN s THEN s[i] ELSE c[1]
<1>0. s \o c \in Seq(Nat) 
  OBVIOUS
<1>1. Len(s \o c) = Len(s) + Len(c)
  BY ConcatProperties
<1>2. DOMAIN (s \o c) = 1 .. Len(s) + 1
  BY <1>1, <1>0
<1>3. ASSUME NEW i \in 1 .. Len(s) + 1
      PROVE  (s \o c)[i] = IF i \in DOMAIN s THEN s[i] ELSE c[1]
  <2>1. (s \o c)[i] = IF i <= Len(s) THEN s[i] ELSE c[i - Len(s)]
    <3>1. i \in 1 .. Len(s) + Len(c)
      OBVIOUS
    <3> QED
      BY <3>1, ConcatProperties
  <2>2. CASE i <= Len(s)
    BY <2>1, <2>2
  <2>3. CASE i = Len(s) + 1
    <3>1. i - Len(s) = 1 /\ ~(i <= Len(s)) /\ i \notin DOMAIN s
      BY <2>3
    <3> QED
      BY <3>1, <2>1
  <2>4. i <= Len(s) \/ i = Len(s) + 1
    <3> DEFINE n == Len(s)
    <3>1. n \in Nat /\ i \in 1 .. n + 1
      OBVIOUS
    <3> HIDE DEF n
    <3>2. i <= n \/ i = n + 1
      BY <3>1
    <3> QED
      BY <3>2 DEF n
  <2> QED
    BY <2>2, <2>3, <2>4
<1> QED
  BY <1>0, <1>2, <1>3

-----------------------------------------------------------------------------
(* What a thread has to do after each statement                            *)

(* The list stays one of its thread.                                       *)
Turn(s, u) ==
  \/ s \in Work /\ u \in Work
  \/ s \in ThreadWork /\ u \in ThreadWork

(* Between two statements at the queue, after a put, or at the end.        *)
SameTurn(s, u) ==
  \/ s \in AtQueue /\ u \in AtQueue
  \/ s \in AfterPut \cup AfterPutInLoop /\ u \in AfterPut \cup AfterPutInLoop
  \/ s \in Ending /\ u \in Ending

LEMMA Kinds ==
  /\ <<>> \in Work /\ Asking \subseteq Work /\ OneStep \subseteq Work /\ AfterPut \subseteq Work
  /\ AskingInLoop \subseteq ThreadWork /\ OneStepInLoop \subseteq ThreadWork
  /\ AfterPutInLoop \subseteq ThreadWork /\ Ending \subseteq ThreadWork /\ Resting \subseteq ThreadWork
  /\ Asking \cup AskingInLoop = AtQueue
BY DEF Work, ThreadWork, AtQueue

LEMMA AllocTurn ==
  ASSUME NEW s \in Work \cup ThreadWork, s # <<>>, Head(s) = "alloc",
         NEW u, u = <<>> \o Tail(s)
  PROVE  Turn(s, u) /\ s \in AtQueue /\ u \in AtQueue
<1>1. \/ s = <<"alloc", "empty">>
      \/ s = <<"alloc", "empty", "loop">>
  BY DEF Work, ThreadWork, Asking, AskingInLoop, OneStep, OneStepInLoop, AfterPut,
     AfterPutInLoop, Ending, Resting
<1>2. /\ <<>> \o Tail(<<"alloc", "empty">>) = <<"empty">>
      /\ <<>> \o Tail(<<"alloc", "empty", "loop">>) = <<"empty", "loop">>
  OBVIOUS
<1>3. CASE s = <<"alloc", "empty">>
  BY <1>2, <1>3, Kinds DEF Turn, Asking
<1>4. CASE s = <<"alloc", "empty", "loop">>
  BY <1>2, <1>4, Kinds DEF Turn, AskingInLoop
<1> QED
  BY <1>1, <1>3, <1>4

LEMMA FlushTurn ==
  ASSUME NEW s \in Work \cup ThreadWork, s # <<>>, Head(s) = "flush",
         NEW u, u = <<>> \o Tail(s)
  PROVE  Turn(s, u) /\ SameTurn(s, u)
<1>1. \/ s = <<"flush", "mark", "empty">>
      \/ s = <<"flush", "mark", "empty", "loop">>
      \/ s = <<"flush", "mark", "empty", "free", "empty">>
      \/ s = <<"flush", "mark", "empty", "free", "empty", "loop">>
      \/ s = <<"flush", "free", "complete">>
  BY DEF Work, ThreadWork, Asking, AskingInLoop, OneStep, OneStepInLoop, AfterPut,
     AfterPutInLoop, Ending, Resting
<1>2. /\ <<>> \o Tail(<<"flush", "mark", "empty">>) = <<"mark", "empty">>
      /\ <<>> \o Tail(<<"flush", "mark", "empty", "loop">>) = <<"mark", "empty", "loop">>
      /\ <<>> \o Tail(<<"flush", "mark", "empty", "free", "empty">>) = <<"mark", "empty", "free", "empty">>
      /\ <<>> \o Tail(<<"flush", "mark", "empty", "free", "empty", "loop">>) = <<"mark", "empty", "free", "empty", "loop">>
      /\ <<>> \o Tail(<<"flush", "free", "complete">>) = <<"free", "complete">>
  OBVIOUS
<1>3. CASE s = <<"flush", "mark", "empty">>
  BY <1>2, <1>3, Kinds DEF Turn, Asking, SameTurn
<1>4. CASE s = <<"flush", "mark", "empty", "loop">>
  BY <1>2, <1>4, Kinds DEF Turn, AskingInLoop, SameTurn
<1>5. CASE s = <<"flush", "mark", "empty", "free", "empty">>
  BY <1>2, <1>5, Kinds DEF Turn, AfterPut, SameTurn
<1>6. CASE s = <<"flush", "mark", "empty", "free", "empty", "loop">>
  BY <1>2, <1>6, Kinds DEF Turn, AfterPutInLoop, SameTurn
<1>7. CASE s = <<"flush", "free", "complete">>
  BY <1>2, <1>7, Kinds DEF Turn, Ending, SameTurn
<1> QED
  BY <1>1, <1>3, <1>4, <1>5, <1>6, <1>7

LEMMA MarkTurn ==
  ASSUME NEW s \in Work \cup ThreadWork, s # <<>>, Head(s) = "mark",
         NEW u, u = <<>> \o Tail(s)
  PROVE  Turn(s, u) /\ SameTurn(s, u)
<1>1. \/ s = <<"mark", "empty">>
      \/ s = <<"mark", "empty", "loop">>
      \/ s = <<"mark", "empty", "free", "empty">>
      \/ s = <<"mark", "empty", "free", "empty", "loop">>
  BY DEF Work, ThreadWork, Asking, AskingInLoop, OneStep, OneStepInLoop, AfterPut,
     AfterPutInLoop, Ending, Resting
<1>2. /\ <<>> \o Tail(<<"mark", "empty">>) = <<"empty">>
      /\ <<>> \o Tail(<<"mark", "empty", "loop">>) = <<"empty", "loop">>
      /\ <<>> \o Tail(<<"mark", "empty", "free", "empty">>) = <<"empty", "free", "empty">>
      /\ <<>> \o Tail(<<"mark", "empty", "free", "empty", "loop">>) = <<"empty", "free", "empty", "loop">>
  OBVIOUS
<1>3. CASE s = <<"mark", "empty">>
  BY <1>2, <1>3, Kinds DEF Turn, Asking, SameTurn
<1>4. CASE s = <<"mark", "empty", "loop">>
  BY <1>2, <1>4, Kinds DEF Turn, AskingInLoop, SameTurn
<1>5. CASE s = <<"mark", "empty", "free", "empty">>
  BY <1>2, <1>5, Kinds DEF Turn, AfterPut, SameTurn
<1>6. CASE s = <<"mark", "empty", "free", "empty", "loop">>
  BY <1>2, <1>6, Kinds DEF Turn, AfterPutInLoop, SameTurn
<1> QED
  BY <1>1, <1>3, <1>4, <1>5, <1>6

LEMMA EmptyTurn ==
  ASSUME NEW s \in Work \cup ThreadWork, s # <<>>, Head(s) = "empty",
         NEW u, u = <<"out">> \o Tail(s)
  PROVE  Turn(s, u) /\ SameTurn(s, u)
<1>1. \/ s = <<"empty">>
      \/ s = <<"empty", "loop">>
      \/ s = <<"empty", "free", "empty">>
      \/ s = <<"empty", "free", "empty", "loop">>
  BY DEF Work, ThreadWork, Asking, AskingInLoop, OneStep, OneStepInLoop, AfterPut,
     AfterPutInLoop, Ending, Resting
<1>2. /\ <<"out">> \o Tail(<<"empty">>) = <<"out">>
      /\ <<"out">> \o Tail(<<"empty", "loop">>) = <<"out", "loop">>
      /\ <<"out">> \o Tail(<<"empty", "free", "empty">>) = <<"out", "free", "empty">>
      /\ <<"out">> \o Tail(<<"empty", "free", "empty", "loop">>) = <<"out", "free", "empty", "loop">>
  BY Concat11, Concat12, Concat13
<1>3. CASE s = <<"empty">>
  BY <1>2, <1>3, Kinds DEF Turn, Asking, SameTurn
<1>4. CASE s = <<"empty", "loop">>
  BY <1>2, <1>4, Kinds DEF Turn, AskingInLoop, SameTurn
<1>5. CASE s = <<"empty", "free", "empty">>
  BY <1>2, <1>5, Kinds DEF Turn, AfterPut, SameTurn
<1>6. CASE s = <<"empty", "free", "empty", "loop">>
  BY <1>2, <1>6, Kinds DEF Turn, AfterPutInLoop, SameTurn
<1> QED
  BY <1>1, <1>3, <1>4, <1>5, <1>6

LEMMA OutTurn ==
  ASSUME NEW s \in Work \cup ThreadWork, s # <<>>, Head(s) = "out",
         NEW u, u = <<>> \o Tail(s)
  PROVE  Turn(s, u) /\ 
         \/ s \in AtQueue /\ u \in Resting
         \/ s \in AfterPut \cup AfterPutInLoop /\ u \in AfterPut \cup AfterPutInLoop
<1>1. \/ s = <<"out">>
      \/ s = <<"out", "loop">>
      \/ s = <<"out", "free", "empty">>
      \/ s = <<"out", "free", "empty", "loop">>
  BY DEF Work, ThreadWork, Asking, AskingInLoop, OneStep, OneStepInLoop, AfterPut,
     AfterPutInLoop, Ending, Resting
<1>2. /\ <<>> \o Tail(<<"out">>) = <<>>
      /\ <<>> \o Tail(<<"out", "loop">>) = <<"loop">>
      /\ <<>> \o Tail(<<"out", "free", "empty">>) = <<"free", "empty">>
      /\ <<>> \o Tail(<<"out", "free", "empty", "loop">>) = <<"free", "empty", "loop">>
  OBVIOUS
<1>3. CASE s = <<"out">>
  BY <1>2, <1>3, Kinds DEF Turn, Asking, Resting
<1>4. CASE s = <<"out", "loop">>
  BY <1>2, <1>4, Kinds DEF Turn, AskingInLoop, Resting
<1>5. CASE s = <<"out", "free", "empty">>
  BY <1>2, <1>5, Kinds DEF Turn, AfterPut
<1>6. CASE s = <<"out", "free", "empty", "loop">>
  BY <1>2, <1>6, Kinds DEF Turn, AfterPutInLoop
<1> QED
  BY <1>1, <1>3, <1>4, <1>5, <1>6

LEMMA LookTurn ==
  ASSUME NEW s \in AtQueue, s # <<>>, Head(s) = "out",
         NEW u, u = <<"look">> \o Tail(s)
  PROVE  Turn(s, u) /\ u \in Looking
<1>1. \/ s = <<"out">>
      \/ s = <<"out", "loop">>
  BY DEF AtQueue, Asking, AskingInLoop
<1>2. /\ <<"look">> \o Tail(<<"out">>) = <<"look">>
      /\ <<"look">> \o Tail(<<"out", "loop">>) = <<"look", "loop">>
  BY Concat11
<1>3. CASE s = <<"out">>
  BY <1>2, <1>3, Kinds DEF Turn, Asking, Looking, OneStep
<1>4. CASE s = <<"out", "loop">>
  BY <1>2, <1>4, Kinds DEF Turn, AskingInLoop, Looking, OneStepInLoop
<1> QED
  BY <1>1, <1>3, <1>4

LEMMA LookReleaseTurn ==
  ASSUME NEW s \in Work \cup ThreadWork, s # <<>>, Head(s) = "look",
         NEW u, u = <<"free", "release">> \o Tail(s)
  PROVE  Turn(s, u) /\ s \in Looking /\ u \in AfterPut \cup AfterPutInLoop
<1>1. \/ s = <<"look">>
      \/ s = <<"look", "loop">>
  BY DEF Work, ThreadWork, Asking, AskingInLoop, OneStep, OneStepInLoop, AfterPut,
     AfterPutInLoop, Ending, Resting
<1>2. /\ <<"free", "release">> \o Tail(<<"look">>) = <<"free", "release">>
      /\ <<"free", "release">> \o Tail(<<"look", "loop">>) = <<"free", "release", "loop">>
  BY Concat21
<1>3. CASE s = <<"look">>
  BY <1>2, <1>3, Kinds DEF Turn, AfterPut, Looking, OneStep
<1>4. CASE s = <<"look", "loop">>
  BY <1>2, <1>4, Kinds DEF Turn, AfterPutInLoop, Looking, OneStepInLoop
<1> QED
  BY <1>1, <1>3, <1>4

LEMMA LookPutTurn ==
  ASSUME NEW s \in Work \cup ThreadWork, s # <<>>, Head(s) = "look",
         NEW u, u = <<"put">> \o Tail(s)
  PROVE  Turn(s, u) /\ s \in Looking /\ u \in Putting
<1>1. \/ s = <<"look">>
      \/ s = <<"look", "loop">>
  BY DEF Work, ThreadWork, Asking, AskingInLoop, OneStep, OneStepInLoop, AfterPut,
     AfterPutInLoop, Ending, Resting
<1>2. /\ <<"put">> \o Tail(<<"look">>) = <<"put">>
      /\ <<"put">> \o Tail(<<"look", "loop">>) = <<"put", "loop">>
  BY Concat11
<1>3. CASE s = <<"look">>
  BY <1>2, <1>3, Kinds DEF Turn, Looking, OneStep, Putting
<1>4. CASE s = <<"look", "loop">>
  BY <1>2, <1>4, Kinds DEF Turn, Looking, OneStepInLoop, Putting
<1> QED
  BY <1>1, <1>3, <1>4

LEMMA LookDropTurn ==
  ASSUME NEW s \in Work \cup ThreadWork, s # <<>>, Head(s) = "look",
         NEW u, u = <<"free">> \o Tail(s)
  PROVE  Turn(s, u) /\ s \in Looking /\ u \in Dropping
<1>1. \/ s = <<"look">>
      \/ s = <<"look", "loop">>
  BY DEF Work, ThreadWork, Asking, AskingInLoop, OneStep, OneStepInLoop, AfterPut,
     AfterPutInLoop, Ending, Resting
<1>2. /\ <<"free">> \o Tail(<<"look">>) = <<"free">>
      /\ <<"free">> \o Tail(<<"look", "loop">>) = <<"free", "loop">>
  BY Concat11
<1>3. CASE s = <<"look">>
  BY <1>2, <1>3, Kinds DEF Turn, Dropping, Looking, OneStep
<1>4. CASE s = <<"look", "loop">>
  BY <1>2, <1>4, Kinds DEF Turn, Dropping, Looking, OneStepInLoop
<1> QED
  BY <1>1, <1>3, <1>4

LEMMA PutTurn ==
  ASSUME NEW s \in Work \cup ThreadWork, s # <<>>, Head(s) = "put",
         NEW u, u = <<"free", "empty">> \o Tail(s)
  PROVE  Turn(s, u) /\ s \in Putting /\ u \in AfterPut \cup AfterPutInLoop
<1>1. \/ s = <<"put">>
      \/ s = <<"put", "loop">>
  BY DEF Work, ThreadWork, Asking, AskingInLoop, OneStep, OneStepInLoop, AfterPut,
     AfterPutInLoop, Ending, Resting
<1>2. /\ <<"free", "empty">> \o Tail(<<"put">>) = <<"free", "empty">>
      /\ <<"free", "empty">> \o Tail(<<"put", "loop">>) = <<"free", "empty", "loop">>
  BY Concat21
<1>3. CASE s = <<"put">>
  BY <1>2, <1>3, Kinds DEF Turn, AfterPut, OneStep, Putting
<1>4. CASE s = <<"put", "loop">>
  BY <1>2, <1>4, Kinds DEF Turn, AfterPutInLoop, OneStepInLoop, Putting
<1> QED
  BY <1>1, <1>3, <1>4

LEMMA FailedCompleted ==
  Failed \o Completed = <<"flush", "mark", "empty", "free", "empty">>
BY Concat32 DEF Failed, Completed

LEMMA FailTurn ==
  ASSUME NEW s \in Work \cup ThreadWork, s # <<>>, Head(s) = "put",
         NEW u, u = <<"flush", "mark", "empty", "free", "empty">> \o Tail(s)
  PROVE  Turn(s, u) /\ s \in Putting /\ u \in AfterPut \cup AfterPutInLoop
<1>1. \/ s = <<"put">>
      \/ s = <<"put", "loop">>
  BY DEF Work, ThreadWork, Asking, AskingInLoop, OneStep, OneStepInLoop, AfterPut,
     AfterPutInLoop, Ending, Resting
<1>2. /\ <<"flush", "mark", "empty", "free", "empty">> \o Tail(<<"put">>) = <<"flush", "mark", "empty", "free", "empty">>
      /\ <<"flush", "mark", "empty", "free", "empty">> \o Tail(<<"put", "loop">>) = <<"flush", "mark", "empty", "free", "empty", "loop">>
  BY Concat51
<1>3. CASE s = <<"put">>
  BY <1>2, <1>3, Kinds DEF Turn, AfterPut, OneStep, Putting
<1>4. CASE s = <<"put", "loop">>
  BY <1>2, <1>4, Kinds DEF Turn, AfterPutInLoop, OneStepInLoop, Putting
<1> QED
  BY <1>1, <1>3, <1>4

LEMMA FreeTurn ==
  ASSUME NEW s \in Work \cup ThreadWork, s # <<>>, Head(s) = "free",
         NEW u, u = <<>> \o Tail(s)
  PROVE  Turn(s, u) /\ 
         \/ s \in Dropping /\ u \in Resting
         \/ s \in AfterPut \cup AfterPutInLoop /\ u \in AtQueue \cup Releasing
         \/ s \in Ending /\ u \in Ending
<1>1. \/ s = <<"free">>
      \/ s = <<"free", "loop">>
      \/ s = <<"free", "release">>
      \/ s = <<"free", "release", "loop">>
      \/ s = <<"free", "empty">>
      \/ s = <<"free", "empty", "loop">>
      \/ s = <<"free", "complete">>
  BY DEF Work, ThreadWork, Asking, AskingInLoop, OneStep, OneStepInLoop, AfterPut,
     AfterPutInLoop, Ending, Resting
<1>2. /\ <<>> \o Tail(<<"free">>) = <<>>
      /\ <<>> \o Tail(<<"free", "loop">>) = <<"loop">>
      /\ <<>> \o Tail(<<"free", "release">>) = <<"release">>
      /\ <<>> \o Tail(<<"free", "release", "loop">>) = <<"release", "loop">>
      /\ <<>> \o Tail(<<"free", "empty">>) = <<"empty">>
      /\ <<>> \o Tail(<<"free", "empty", "loop">>) = <<"empty", "loop">>
      /\ <<>> \o Tail(<<"free", "complete">>) = <<"complete">>
  OBVIOUS
<1>3. CASE s = <<"free">>
  BY <1>2, <1>3, Kinds DEF Turn, Dropping, OneStep, Releasing, Resting
<1>4. CASE s = <<"free", "loop">>
  BY <1>2, <1>4, Kinds DEF Turn, Dropping, OneStepInLoop, Releasing, Resting
<1>5. CASE s = <<"free", "release">>
  BY <1>2, <1>5, Kinds DEF Turn, AfterPut, Dropping, OneStep, Releasing
<1>6. CASE s = <<"free", "release", "loop">>
  BY <1>2, <1>6, Kinds DEF Turn, AfterPutInLoop, Dropping, OneStepInLoop, Releasing
<1>7. CASE s = <<"free", "empty">>
  BY <1>2, <1>7, Kinds DEF Turn, AfterPut, Asking, Dropping, Releasing
<1>8. CASE s = <<"free", "empty", "loop">>
  BY <1>2, <1>8, Kinds DEF Turn, AfterPutInLoop, AskingInLoop, Dropping, Releasing
<1>9. CASE s = <<"free", "complete">>
  BY <1>2, <1>9, Kinds DEF Turn, Dropping, Ending, Releasing
<1> QED
  BY <1>1, <1>3, <1>4, <1>5, <1>6, <1>7, <1>8, <1>9

LEMMA ReleaseTurn ==
  ASSUME NEW s \in Work \cup ThreadWork, s # <<>>, Head(s) = "release",
         NEW u, u = <<"stop">> \o Tail(s)
  PROVE  Turn(s, u) /\ s \in Releasing /\ u \in Stopping
<1>1. \/ s = <<"release">>
      \/ s = <<"release", "loop">>
  BY DEF Work, ThreadWork, Asking, AskingInLoop, OneStep, OneStepInLoop, AfterPut,
     AfterPutInLoop, Ending, Resting
<1>2. /\ <<"stop">> \o Tail(<<"release">>) = <<"stop">>
      /\ <<"stop">> \o Tail(<<"release", "loop">>) = <<"stop", "loop">>
  BY Concat11
<1>3. CASE s = <<"release">>
  BY <1>2, <1>3, Kinds DEF Turn, OneStep, Releasing, Stopping
<1>4. CASE s = <<"release", "loop">>
  BY <1>2, <1>4, Kinds DEF Turn, OneStepInLoop, Releasing, Stopping
<1> QED
  BY <1>1, <1>3, <1>4

LEMMA StopTurn ==
  ASSUME NEW s \in Work \cup ThreadWork, s # <<>>, Head(s) = "stop",
         NEW u, u = <<>> \o Tail(s)
  PROVE  Turn(s, u) /\ s \in Stopping /\ u \in Resting
<1>1. \/ s = <<"stop">>
      \/ s = <<"stop", "loop">>
  BY DEF Work, ThreadWork, Asking, AskingInLoop, OneStep, OneStepInLoop, AfterPut,
     AfterPutInLoop, Ending, Resting
<1>2. /\ <<>> \o Tail(<<"stop">>) = <<>>
      /\ <<>> \o Tail(<<"stop", "loop">>) = <<"loop">>
  OBVIOUS
<1>3. CASE s = <<"stop">>
  BY <1>2, <1>3, Kinds DEF Turn, OneStep, Resting, Stopping
<1>4. CASE s = <<"stop", "loop">>
  BY <1>2, <1>4, Kinds DEF Turn, OneStepInLoop, Resting, Stopping
<1> QED
  BY <1>1, <1>3, <1>4

(* Kinds do not overlap.                                                   *)
LEMMA Apart ==
  /\ \A s \in AtQueue \cup Resting \cup Releasing : s \notin InHand \cup Stopping \cup Ending
  /\ \A s \in Stopping : s \notin InHand \cup Ending
  /\ \A s \in Ending : s \notin InHand \cup Stopping
  /\ \A s \in AfterPut \cup AfterPutInLoop :
       s \notin Looking \cup Putting \cup Dropping \cup Stopping
  /\ \A s \in Looking \cup Putting : s \notin Dropping \cup Stopping
  /\ \A s \in Looking : s \notin Putting
  /\ \A s \in Dropping : s \notin Looking \cup Putting
  /\ \A s \in Work : s \in ThreadWork => s = <<>>
<1> DEFINE inHand == Looking \cup Putting \cup Dropping \cup AfterPut \cup AfterPutInLoop
<1>1. \A s \in AtQueue : s \notin inHand \cup Stopping \cup Ending
  BY DEF AtQueue, Asking, AskingInLoop, Looking, Putting, Dropping, AfterPut,
         AfterPutInLoop, Stopping, Ending
<1>2. \A s \in Resting \cup Releasing : s \notin inHand \cup Stopping \cup Ending
  BY DEF Resting, Releasing, Looking, Putting, Dropping, AfterPut,
         AfterPutInLoop, Stopping, Ending
<1>3. \A s \in Stopping \cup Ending : s \notin inHand
  BY DEF Looking, Putting, Dropping, AfterPut, AfterPutInLoop, Stopping, Ending
<1>4. \A s \in Stopping : s \notin Ending
  BY DEF Stopping, Ending
<1>5. \A s \in AfterPut \cup AfterPutInLoop :
        s \notin Looking \cup Putting \cup Dropping \cup Stopping
  BY DEF AfterPut, AfterPutInLoop, Looking, Putting, Dropping, Stopping
<1>6. /\ \A s \in Looking \cup Putting : s \notin Dropping \cup Stopping
      /\ \A s \in Looking : s \notin Putting
  BY DEF Looking, Putting, Dropping, Stopping
<1>7. \A s \in Work : s \in ThreadWork => s = <<>>
  <2> DEFINE Own == {"loop", "start", "released", "complete"}
  <2>1. \A s \in AskingInLoop \cup OneStepInLoop : \E i \in DOMAIN s : s[i] \in Own
    BY DEF AskingInLoop, OneStepInLoop
  <2>2. \A s \in AfterPutInLoop : \E i \in DOMAIN s : s[i] \in Own
    BY DEF AfterPutInLoop
  <2>3. \A s \in Ending \cup Resting : s = <<>> \/ \E i \in DOMAIN s : s[i] \in Own
    BY DEF Ending, Resting
  <2>4. \A s \in Asking \cup OneStep : \A i \in DOMAIN s : s[i] \notin Own
    BY DEF Asking, OneStep
  <2>5. \A s \in AfterPut : \A i \in DOMAIN s : s[i] \notin Own
    BY DEF AfterPut
  <2> QED
    BY <2>1, <2>2, <2>3, <2>4, <2>5 DEF Work, ThreadWork
<1> QED
  BY <1>1, <1>2, <1>3, <1>4, <1>5, <1>6, <1>7 DEF InHand

(* Who is at the queue, has a message in hand or releases is Emptying.     *)
LEMMA Empties ==
  ASSUME NEW s \in AtQueue \cup InHand \cup Releasing
  PROVE  \E i \in DOMAIN s : s[i] \in {"empty", "out", "look", "put", "free", "release"}
<1>1. CASE s \in Asking \cup AskingInLoop
  BY <1>1 DEF Asking, AskingInLoop
<1>2. CASE s \in AfterPut
  BY <1>2 DEF AfterPut
<1>3. CASE s \in AfterPutInLoop
  BY <1>3 DEF AfterPutInLoop
<1>4. CASE s \in Looking \cup Putting \cup Dropping \cup Releasing
  BY <1>4 DEF Looking, Putting, Dropping, Releasing
<1> QED
  BY <1>1, <1>2, <1>3, <1>4 DEF AtQueue, InHand

(* Who has a message in hand, releases or stops is Using the registration. *)
LEMMA Uses ==
  ASSUME NEW s \in InHand \cup Releasing \cup Stopping
  PROVE  \E i \in DOMAIN s : s[i] \in {"look", "put", "free", "release", "stop"}
<1>2. CASE s \in AfterPut
  BY <1>2 DEF AfterPut
<1>3. CASE s \in AfterPutInLoop
  BY <1>3 DEF AfterPutInLoop
<1>4. CASE s \in Looking \cup Putting \cup Dropping \cup Releasing \cup Stopping
  BY <1>4 DEF Looking, Putting, Dropping, Releasing, Stopping
<1> QED
  BY <1>2, <1>3, <1>4 DEF InHand

-----------------------------------------------------------------------------
(* What a statement does to the parts of the invariant                     *)

(* The thread t, which is at the label, goes on with u.                    *)
LEMMA DoFacts ==
  ASSUME Sound, NEW t \in Threads, NEW label, At(t, label), NEW l, Do(t, l)
  PROVE  /\ stack[t] \in Work \cup ThreadWork /\ stack[t] # <<>> /\ Head(stack[t]) = label
         /\ stack'[t] = l \o Tail(stack[t])
         /\ DOMAIN stack' = Threads
         /\ \A u \in Threads \ {t} : stack'[u] = stack[u]
         /\ stack' = [u \in Threads |-> stack'[u]]
BY DEF At, Do, Sound, StackTypeOK

(* Going on with what is left to do is what t does now.                    *)
Moves(t) ==
  /\ DOMAIN stack' = Threads /\ \A u \in Threads \ {t} : stack'[u] = stack[u]
  /\ stack[t] # <<>> /\ Turn(stack[t], stack'[t])
  /\ stack' = [u \in Threads |-> stack'[u]]

LEMMA TurnType ==
  ASSUME Sound, NEW t \in Threads, Moves(t)
  PROVE  StackTypeOK'
<1>1. Capi \in Threads
  BY DEF Threads
<1>2. stack'[t] \in Work \cup ThreadWork
  BY DEF Moves, Turn
<1>3. t = Capi => stack'[t] \in ThreadWork
  BY Apart DEF Moves, Turn, Sound, StackTypeOK
<1>4. t # Capi => stack'[t] \in Work
  BY Apart DEF Moves, Turn, Sound, StackTypeOK
<1> QED
  BY <1>1, <1>2, <1>3, <1>4 DEF Moves, Sound, StackTypeOK

(* Ending is what the thread of the registration does, without an id.      *)
LEMMA EndsWithoutId ==
  ASSUME Sound, NEW t \in Threads, stack[t] \in Ending
  PROVE  t = Capi /\ ~appl
<1>1. stack[t] # <<>>
  BY DEF Ending
<1>2. stack[t] \in ThreadWork
  BY Kinds
<1> QED
  BY <1>1, <1>2, Apart DEF Sound, StackTypeOK, IdIsGone

(* Who keeps a message in hand, or keeps having none, changes no holder.   *)
LEMMA KeepsHolder ==
  ASSUME Sound, NEW t \in Threads, Moves(t), UNCHANGED cur,
         stack'[t] \in InHand <=> stack[t] \in InHand
  PROVE  OneHolder'
<1>1. Holders' = Holders
  BY DEF Moves, Holders
<1> QED
  BY <1>1 DEF Sound, OneHolder

LEMMA KeepsNew ==
  ASSUME Sound, NEW t \in Threads, Moves(t), UNCHANGED <<cur, sent>>,
         count'.given \in Nat, count'.given >= count.given,
         stack'[t] \notin Looking \cup Putting
  PROVE  PutIsNew'
<1>1. cur # <<>> => cur[1] \in Nat /\ cur[1] <= count'.given
  BY DEF Sound, QueueTypeOK, PutIsNew
<1> QED
  BY <1>1 DEF Moves, Sound, PutIsNew

LEMMA KeepsGone ==
  ASSUME Sound, NEW t \in Threads, Moves(t), UNCHANGED <<appl, pice>>,
         stack'[t] \in Dropping \cup Stopping \cup Ending => ~appl
  PROVE  IdIsGone'
BY DEF Moves, Sound, IdIsGone, Threads

LEMMA KeepsComing ==
  ASSUME Sound, NEW t \in Threads, Moves(t), UNCHANGED appl,
         \/ stack'[t] \in AtQueue \cup InHand \cup Releasing
         \/ ~appl
  PROVE  ComesBack'
<1>1. stack'[t] \in AtQueue \cup InHand \cup Releasing => Emptying(t)'
  BY Empties DEF Emptying
<1> QED
  BY <1>1 DEF ComesBack

(* A statement within one stage.                                           *)
LEMMA SameTurnInv ==
  ASSUME Sound, NEW t \in Threads, Moves(t), SameTurn(stack[t], stack'[t]),
         UNCHANGED <<cur, sent, appl, pice>>,
         count'.given \in Nat, count'.given >= count.given
  PROVE  StackTypeOK' /\ OneHolder' /\ PutIsNew' /\ IdIsGone' /\ ComesBack'
<1>1. StackTypeOK'
  BY TurnType
<1>2. stack'[t] \in InHand <=> stack[t] \in InHand
  BY Apart DEF SameTurn, InHand
<1>3. stack'[t] \notin Looking \cup Putting
  BY Apart DEF SameTurn, InHand
<1>4. stack'[t] \in Dropping \cup Stopping \cup Ending => ~appl
  BY Apart, EndsWithoutId DEF SameTurn, InHand
<1>5. stack'[t] \in AtQueue \cup InHand \/ ~appl
  BY EndsWithoutId DEF SameTurn, InHand
<1> QED
  BY <1>1, <1>2, <1>3, <1>4, <1>5, KeepsHolder, KeepsNew, KeepsGone, KeepsComing

-----------------------------------------------------------------------------
(* Putting messages into the queue                                         *)

LEMMA InQueueInv ==
  ASSUME Sound, NEW t \in Threads, InQueue(t)
  PROVE  Sound'
<1>1. /\ At(t, "alloc") /\ Do(t, <<>>)
      /\ queue' = Append(queue, count.given + 1)
      /\ UNCHANGED <<cur, appl, pice, sent>>
  BY DEF InQueue
<1>2. Moves(t) /\ SameTurn(stack[t], stack'[t])
  BY <1>1, DoFacts, AllocTurn DEF Moves, SameTurn
<1>3. queue \in Seq(Nat) /\ sent \in Seq(Nat) /\ cur \in Seq(Nat) /\ count.given \in Nat
  BY DEF Sound, QueueTypeOK
<1>8. count'.given = count.given + 1
  <2>1. count \in [puts : Nat, given : Nat, regs : Nat, sigs : Nat]
    BY DEF Sound, QueueTypeOK
  <2>2. count' = [count EXCEPT !.given = count.given + 1]
    BY DEF InQueue
  <2> QED
    BY <2>1, <2>2
<1>9. count' \in [puts : Nat, given : Nat, regs : Nat, sigs : Nat]
  <2>1. count \in [puts : Nat, given : Nat, regs : Nat, sigs : Nat]
    BY DEF Sound, QueueTypeOK
  <2>2. count' = [count EXCEPT !.given = count.given + 1]
    BY DEF InQueue
  <2> QED
    BY <2>1, <2>2
<1>10. count'.given \in Nat /\ count'.given >= count.given
  BY <1>3, <1>8
<1>4. StackTypeOK' /\ OneHolder' /\ PutIsNew' /\ IdIsGone' /\ ComesBack'
  BY <1>1, <1>2, <1>10, SameTurnInv
<1>5. QueueTypeOK'
  BY <1>1, <1>3, <1>9 DEF Sound, QueueTypeOK
<1>6. SentRises'
  <2>1. /\ \A i, j \in DOMAIN sent : i < j => sent[i] < sent[j]
        /\ \A i \in DOMAIN sent : sent[i] \in Nat /\ sent[i] <= count.given
    BY <1>3 DEF Sound, SentRises
  <2>2. \A i \in DOMAIN sent : sent[i] <= count'.given
    BY <2>1, <1>3, <1>8
  <2> QED
    BY <2>1, <2>2, <1>1 DEF SentRises
<1>7. QueueRises'
  <2>0. DOMAIN queue' = 1 .. Len(queue) + 1 /\ sent' = sent /\ cur' = cur
    BY <1>1, <1>3
  <2> SUFFICES ASSUME NEW k \in 1 .. Len(queue) + 1
               PROVE  /\ queue'[k] <= count'.given
                      /\ queue'[k] # Release =>
                           /\ \A i \in DOMAIN sent : sent[i] < queue'[k]
                           /\ \A j \in 1 .. Len(queue) + 1 : j < k => queue'[j] < queue'[k]
                           /\ cur # <<>> => cur[1] < queue'[k]
    BY <2>0 DEF QueueRises
  <2>1. CASE k = Len(queue) + 1
    <3>1. queue'[k] = count'.given
      BY <2>1, <1>1, <1>3, <1>8
    <3>2. \A i \in DOMAIN sent : sent[i] \in Nat /\ sent[i] <= count.given
      BY <1>3, <1>8 DEF Sound, SentRises
    <3>3. \A j \in 1 .. Len(queue) : queue'[j] = queue[j] /\ queue[j] \in Nat /\ queue[j] <= count.given
      BY <1>1, <1>3, <1>8 DEF Sound, QueueRises
    <3>4. cur # <<>> => cur[1] \in Nat /\ cur[1] <= count.given
      BY <1>3, <1>8 DEF Sound, PutIsNew
    <3>5. /\ \A i \in DOMAIN sent : sent[i] < queue'[k]
          /\ cur # <<>> => cur[1] < queue'[k]
      BY <3>1, <3>2, <3>4, <1>3, <1>8
    <3>6. ASSUME NEW j \in 1 .. Len(queue) + 1, j < k
          PROVE  queue'[j] < queue'[k]
      <4>1. j \in 1 .. Len(queue)
        BY <3>6, <2>1, <1>3
      <4>2. queue'[j] = queue[j] /\ queue[j] \in Nat /\ queue[j] <= count.given
        BY <4>1, <3>3
      <4> QED
        BY <4>2, <3>1, <1>3, <1>8
    <3>7. queue'[k] <= count'.given
      BY <3>1, <1>3, <1>8
    <3> QED
      BY <3>5, <3>6, <3>7
  <2>2. CASE k # Len(queue) + 1
    <3>1. k \in DOMAIN queue /\ \A j \in 1 .. Len(queue) : queue'[j] = queue[j] /\ queue[j] \in Nat
      BY <2>2, <1>1, <1>3, <1>8
    <3>2. /\ queue[k] <= count.given
          /\ queue[k] # Release =>
               /\ \A i \in DOMAIN sent : sent[i] < queue[k]
               /\ \A j \in DOMAIN queue : j < k => queue[j] < queue[k]
               /\ cur # <<>> => cur[1] < queue[k]
      BY <3>1 DEF Sound, QueueRises
    <3>3. queue'[k] = queue[k] /\ queue[k] \in Nat
      BY <3>1
    <3>4. queue'[k] <= count'.given
      BY <3>2, <3>3, <1>3, <1>8
    <3>5. ASSUME queue'[k] # Release, NEW j \in 1 .. Len(queue) + 1, j < k
          PROVE  queue'[j] < queue'[k]
      <4>1. j \in 1 .. Len(queue)
        BY <3>5, <2>2, <1>3
      <4> QED
        BY <4>1, <3>1, <3>2, <3>3, <3>5
    <3> QED
      BY <3>2, <3>3, <3>4, <3>5
  <2> QED
    BY <2>1, <2>2
<1> QED
  BY <1>4, <1>5, <1>6, <1>7 DEF Sound

LEMMA FreeQueueInv ==
  ASSUME Sound, NEW t \in Threads, FreeQueue(t)
  PROVE  Sound'
<1>1. /\ At(t, "flush") /\ Do(t, <<>>)
      /\ queue' = <<>>
      /\ UNCHANGED <<cur, appl, pice, sent, count>>
  BY DEF FreeQueue
<1>2. Moves(t) /\ SameTurn(stack[t], stack'[t])
  BY <1>1, DoFacts, FlushTurn DEF Moves
<1>3. StackTypeOK' /\ OneHolder' /\ PutIsNew' /\ IdIsGone' /\ ComesBack'
  BY <1>1, <1>2, SameTurnInv DEF Sound, QueueTypeOK
<1>4. QueueTypeOK' /\ SentRises' /\ QueueRises'
  BY <1>1 DEF Sound, QueueTypeOK, SentRises, QueueRises
<1> QED
  BY <1>3, <1>4 DEF Sound

LEMMA QueuesReleaseInv ==
  ASSUME Sound, NEW t \in Threads, QueuesRelease(t)
  PROVE  Sound'
<1>1. /\ At(t, "mark") /\ Do(t, <<>>)
      /\ queue' = Append(queue, Release)
      /\ UNCHANGED <<cur, appl, pice, sent, count>>
  BY DEF QueuesRelease
<1>2. Moves(t) /\ SameTurn(stack[t], stack'[t])
  BY <1>1, DoFacts, MarkTurn DEF Moves
<1>3. StackTypeOK' /\ OneHolder' /\ PutIsNew' /\ IdIsGone' /\ ComesBack'
  BY <1>1, <1>2, SameTurnInv DEF Sound, QueueTypeOK
<1>4. QueueTypeOK' /\ SentRises'
  BY <1>1 DEF Sound, QueueTypeOK, SentRises, Release
<1>5. QueueRises'
  <2>1. queue \in Seq(Nat) /\ count.given \in Nat
    BY DEF Sound, QueueTypeOK
  <2> SUFFICES ASSUME NEW k \in 1 .. Len(queue) + 1
               PROVE  /\ queue'[k] <= count.given
                      /\ queue'[k] # Release =>
                           /\ \A i \in DOMAIN sent : sent[i] < queue'[k]
                           /\ \A j \in 1 .. Len(queue) + 1 : j < k => queue'[j] < queue'[k]
                           /\ cur # <<>> => cur[1] < queue'[k]
    BY <1>1, <2>1 DEF QueueRises
  <2>2. CASE k = Len(queue) + 1
    BY <2>1, <2>2, <1>1 DEF Release
  <2>3. CASE k # Len(queue) + 1
    <3>1. k \in DOMAIN queue /\ \A j \in 1 .. Len(queue) : queue'[j] = queue[j]
      BY <2>3, <1>1, <2>1
    <3>2. /\ queue[k] <= count.given
          /\ queue[k] # Release =>
               /\ \A i \in DOMAIN sent : sent[i] < queue[k]
               /\ \A j \in DOMAIN queue : j < k => queue[j] < queue[k]
               /\ cur # <<>> => cur[1] < queue[k]
      BY <3>1 DEF Sound, QueueRises
    <3>3. queue'[k] = queue[k]
      BY <2>1, <3>1
    <3>4. ASSUME NEW j \in 1 .. Len(queue) + 1, j < k
          PROVE  j \in DOMAIN queue /\ queue'[j] = queue[j]
      <4>1. j \in 1 .. Len(queue)
        BY <2>1, <2>3, <3>4
      <4> QED
        BY <2>1, <3>1, <4>1
    <3> QED
      BY <3>2, <3>3, <3>4
  <2> QED
    BY <2>2, <2>3
<1> QED
  BY <1>3, <1>4, <1>5 DEF Sound

LEMMA BeginWriteInv ==
  ASSUME Sound, NEW t \in Threads, BeginWrite(t)
  PROVE  Sound'
<1>1. /\ At(t, "empty") /\ Do(t, <<"out">>)
      /\ UNCHANGED <<queue, cur, appl, pice, sent, count>>
  BY DEF BeginWrite
<1>2. Moves(t) /\ SameTurn(stack[t], stack'[t])
  BY <1>1, DoFacts, EmptyTurn DEF Moves
<1>3. StackTypeOK' /\ OneHolder' /\ PutIsNew' /\ IdIsGone' /\ ComesBack'
  BY <1>1, <1>2, SameTurnInv DEF Sound, QueueTypeOK
<1>4. QueueTypeOK' /\ SentRises' /\ QueueRises'
  BY <1>1 DEF Sound, QueueTypeOK, SentRises, QueueRises
<1> QED
  BY <1>3, <1>4 DEF Sound

-----------------------------------------------------------------------------
(* Taking a message out, looking at it, putting it and freeing it          *)

LEMMA OutQueueInv ==
  ASSUME Sound, NEW t \in Threads, OutQueue(t)
  PROVE  Sound'
<1>1. At(t, "out") /\ UNCHANGED <<appl, pice, sent, count>>
  BY DEF OutQueue
<1>2. queue \in Seq(Nat) /\ sent \in Seq(Nat) /\ cur \in Seq(Nat) /\ Len(cur) <= 1
  BY DEF Sound, QueueTypeOK
<1>3. CASE cur = <<>> /\ queue # <<>>
  <2>1. Do(t, <<"look">>) /\ cur' = <<Head(queue)>> /\ queue' = Tail(queue)
    BY <1>3 DEF OutQueue
  <2>2. \A u \in Threads : stack[u] \notin InHand
    BY <1>3 DEF Sound, OneHolder, Holders
  <2>3. Moves(t) /\ stack'[t] \in Looking /\ stack'[t] \in InHand
    <3>1. CASE stack[t] \in AtQueue
      BY <3>1, <2>1, <1>1, DoFacts, LookTurn DEF Moves, InHand
    <3>2. CASE stack[t] \in AfterPut \cup AfterPutInLoop
      BY <3>2, <2>2 DEF InHand
    <3> QED
      BY <3>1, <3>2, <1>1, <2>1, DoFacts, OutTurn
  <2>4. StackTypeOK'
    BY <2>3, TurnType
  <2>5. Len(cur') = 1 /\ cur' # <<>> /\ cur'[1] = queue[1] /\ cur' \in Seq(Nat)
    BY <2>1, <1>2, <1>3
  <2>6. Holders' = {t}
    BY <2>2, <2>3 DEF Holders, Moves
  <2>7. OneHolder'
    BY <2>5, <2>6 DEF OneHolder
  <2>8. /\ queue' \in Seq(Nat) /\ Len(queue') = Len(queue) - 1 /\ Len(queue) > 0
        /\ \A k \in 1 .. Len(queue') : queue'[k] = queue[k + 1] /\ k + 1 \in 1 .. Len(queue)
    BY <2>1, <1>2, <1>3
  <2>9. QueueTypeOK' /\ SentRises'
    BY <2>5, <2>8, <1>1 DEF Sound, QueueTypeOK, SentRises
  <2>10. QueueRises'
    <3>0. DOMAIN queue' = 1 .. Len(queue') /\ sent' = sent /\ count' = count
      BY <2>8, <1>1
    <3> SUFFICES ASSUME NEW k \in 1 .. Len(queue')
                 PROVE  /\ queue'[k] <= count.given
                        /\ queue'[k] # Release =>
                             /\ \A i \in DOMAIN sent : sent[i] < queue'[k]
                             /\ \A j \in 1 .. Len(queue') : j < k => queue'[j] < queue'[k]
                             /\ cur'[1] < queue'[k]
      BY <3>0 DEF QueueRises
    <3>a. 1 .. Len(queue) = DOMAIN queue /\ Len(queue) \in Nat /\ Len(queue) > 0
      BY <2>8, <1>2
    <3>1. queue'[k] = queue[k + 1] /\ k + 1 \in DOMAIN queue
      BY <2>8, <3>a
    <3>2. /\ queue[k + 1] <= count.given
          /\ queue[k + 1] # Release =>
               /\ \A i \in DOMAIN sent : sent[i] < queue[k + 1]
               /\ \A j \in DOMAIN queue : j < k + 1 => queue[j] < queue[k + 1]
      BY <3>1 DEF Sound, QueueRises
    <3>3. 1 \in DOMAIN queue /\ 1 < k + 1
      BY <3>a
    <3>4. ASSUME NEW j \in 1 .. Len(queue'), j < k
          PROVE  queue'[j] = queue[j + 1] /\ j + 1 \in DOMAIN queue /\ j + 1 < k + 1
      <4>1. queue'[j] = queue[j + 1] /\ j + 1 \in DOMAIN queue
        BY <2>8, <3>a
      <4>2. j \in Int /\ k \in Int
        OBVIOUS
      <4> QED
        BY <3>4, <4>1, <4>2
    <3> QED
      BY <3>1, <3>2, <3>3, <3>4, <2>5
  <2>11. PutIsNew'
    <3>1. 1 \in DOMAIN queue
      BY <2>8, <1>2
    <3>2. cur'[1] <= count.given /\ (cur'[1] # Release => \A i \in DOMAIN sent : sent[i] < cur'[1])
      BY <2>5, <3>1 DEF Sound, QueueRises
    <3>3. \A u \in Threads : stack'[u] \notin Putting
      BY <2>2, <2>3, Apart DEF Moves, InHand
    <3> QED
      BY <3>2, <3>3, <1>1 DEF PutIsNew
  <2>12. IdIsGone'
    BY <2>3, <1>1, Apart, KeepsGone
  <2>13. ComesBack'
    BY <2>3, <1>1, KeepsComing
  <2> QED
    BY <2>4, <2>7, <2>9, <2>10, <2>11, <2>12, <2>13 DEF Sound
<1>4. CASE ~(cur = <<>> /\ queue # <<>>)
  <2>1. Do(t, <<>>) /\ UNCHANGED <<cur, queue>>
    BY <1>4 DEF OutQueue
  <2>2. /\ Moves(t)
        /\ \/ stack[t] \in AtQueue /\ stack'[t] \in Resting
           \/ /\ stack[t] \in AfterPut \cup AfterPutInLoop
              /\ stack'[t] \in AfterPut \cup AfterPutInLoop
    BY <1>1, <2>1, DoFacts, OutTurn DEF Moves
  <2>3. QueueTypeOK' /\ SentRises' /\ QueueRises'
    BY <1>1, <2>1 DEF Sound, QueueTypeOK, SentRises, QueueRises
  <2>4. StackTypeOK'
    BY <2>2, TurnType
  <2>5. stack'[t] \in InHand <=> stack[t] \in InHand
    BY <2>2, Apart DEF InHand
  <2>6. stack'[t] \notin Looking \cup Putting \cup Dropping \cup Stopping \cup Ending
    BY <2>2, Apart DEF InHand
  <2>7. OneHolder'
    BY <2>1, <2>2, <2>5, KeepsHolder
  <2>8. PutIsNew' /\ IdIsGone'
    BY <1>1, <2>1, <2>2, <2>6, KeepsNew, KeepsGone DEF Sound, QueueTypeOK
  <2>9. ComesBack'
    <3>1. CASE cur = <<>>
      BY <3>1, <1>4, <2>1 DEF ComesBack
    <3>2. CASE cur # <<>>
      <4>1. cur' # <<>>
        BY <3>2, <2>1
      <4>2. PICK u \in Threads : stack'[u] \in InHand
        BY <4>1, <2>7 DEF OneHolder, Holders
      <4>3. Emptying(u)'
        BY <4>2, Empties DEF Emptying
      <4> QED
        BY <4>3 DEF ComesBack
    <3> QED
      BY <3>1, <3>2
  <2> QED
    BY <2>3, <2>4, <2>7, <2>8, <2>9 DEF Sound
<1> QED
  BY <1>3, <1>4


(* m_CurPutMessage is one message.                                         *)
LEMMA OneInHand ==
  ASSUME Sound, cur # <<>>
  PROVE  Len(cur) = 1 /\ cur[1] \in Nat /\ cur = <<cur[1]>>
BY OneElement DEF Sound, QueueTypeOK

LEMMA LooksAtMessageInv ==
  ASSUME Sound, NEW t \in Threads, LooksAtMessage(t), ~crash'
  PROVE  Sound'
<1>1. At(t, "look") /\ UNCHANGED <<queue, cur, appl, pice, sent, count>>
  BY DEF LooksAtMessage
<1>2. cur # <<>>
  BY DEF LooksAtMessage, Crash
<1>3. cur = <<cur[1]>>
  BY <1>2, OneInHand
<1>4. QueueTypeOK' /\ SentRises' /\ QueueRises'
  BY <1>1 DEF Sound, QueueTypeOK, SentRises, QueueRises
<1>5. ASSUME Moves(t), stack[t] \in Looking, stack'[t] \in InHand,
             stack'[t] \notin Looking \cup Stopping \cup Ending,
             stack'[t] \in Dropping => ~appl,
             stack'[t] \in Putting => cur[1] # Release
      PROVE  Sound'
  <2>1. StackTypeOK' /\ OneHolder' /\ ComesBack' /\ IdIsGone'
    BY <1>1, <1>5, TurnType, KeepsHolder, KeepsComing, KeepsGone DEF InHand
  <2>2. \A i \in DOMAIN sent : cur[1] # Release => sent[i] < cur[1]
    BY <1>2, <1>5 DEF Sound, PutIsNew
  <2>3. PutIsNew'
    BY <1>1, <1>2, <1>5, <2>2 DEF Sound, PutIsNew, Moves
  <2> QED
    BY <1>4, <2>1, <2>3 DEF Sound
<1>6. CASE cur = <<Release>>
  <2>1. Do(t, <<"free", "release">>)
    BY <1>2, <1>6 DEF LooksAtMessage
  <2>2. /\ Moves(t) /\ stack[t] \in Looking
        /\ stack'[t] \in AfterPut \cup AfterPutInLoop
    BY <1>1, <2>1, DoFacts, LookReleaseTurn DEF Moves
  <2> QED
    BY <2>2, <1>5, Apart DEF InHand
<1>7. CASE cur # <<Release>>
  <2>1. Do(t, IF appl THEN <<"put">> ELSE <<"free">>) /\ cur[1] # Release
    BY <1>2, <1>3, <1>7 DEF LooksAtMessage
  <2>2. CASE appl
    <3>1. /\ Moves(t) /\ stack[t] \in Looking /\ stack'[t] \in Putting
      BY <1>1, <2>1, <2>2, DoFacts, LookPutTurn DEF Moves
    <3> QED
      BY <3>1, <2>1, <1>5, Apart DEF InHand
  <2>3. CASE ~appl
    <3>1. /\ Moves(t) /\ stack[t] \in Looking /\ stack'[t] \in Dropping
      BY <1>1, <2>1, <2>3, DoFacts, LookDropTurn DEF Moves
    <3> QED
      BY <3>1, <2>1, <2>3, <1>5, Apart DEF InHand
  <2> QED
    BY <2>2, <2>3
<1> QED
  BY <1>6, <1>7

LEMMA PutMessageInv ==
  ASSUME Sound, NEW t \in Threads, PutMessage(t), ~crash'
  PROVE  Sound'
<1>1. At(t, "put") /\ UNCHANGED <<queue, cur, appl, pice, count>>
  BY DEF PutMessage
<1>2. /\ sent' = sent \o cur \/ sent' = sent
      /\ Do(t, Completed) \/ Do(t, Failed \o Completed)
  BY DEF PutMessage, Crash
<1>3. /\ Moves(t) /\ stack[t] \in Putting /\ stack[t] \in InHand
      /\ stack'[t] \in AfterPut \cup AfterPutInLoop /\ stack'[t] \in InHand
  <2>1. CASE Do(t, Completed)
    BY <2>1, <1>1, DoFacts, PutTurn DEF Moves, InHand, Completed
  <2>2. CASE Do(t, Failed \o Completed)
    BY <2>2, <1>1, DoFacts, FailTurn, FailedCompleted DEF Moves, InHand
  <2> QED
    BY <2>1, <2>2, <1>2
<1>4. cur # <<>> /\ cur[1] # Release
  BY <1>3 DEF Sound, PutIsNew
<1>13. queue \in Seq(Nat) /\ sent \in Seq(Nat) /\ cur \in Seq(Nat) /\ Len(cur) = 1
  BY <1>4, OneInHand DEF Sound, QueueTypeOK
<1>5. /\ sent' \in Seq(Nat) /\ DOMAIN sent' \subseteq 1 .. Len(sent) + 1
      /\ \A i \in DOMAIN sent' : sent'[i] = IF i \in DOMAIN sent THEN sent[i] ELSE cur[1]
  <2>1. CASE sent' = sent
    BY <2>1, <1>13
  <2>2. CASE sent' = sent \o cur
    BY <2>2, <1>13, ConcatOne
  <2> QED
    BY <2>1, <2>2, <1>2
<1>6. /\ cur[1] <= count.given
      /\ \A i \in DOMAIN sent : sent[i] < cur[1]
  BY <1>3, <1>4 DEF Sound, PutIsNew
<1>7. QueueTypeOK'
  BY <1>1, <1>5 DEF Sound, QueueTypeOK
<1>8. SentRises'
  <2>1. ASSUME NEW i \in DOMAIN sent', NEW j \in DOMAIN sent', i < j
        PROVE  sent'[i] < sent'[j]
    <3>1. i \in DOMAIN sent /\ sent'[i] = sent[i]
      BY <2>1, <1>13, <1>5
    <3>2. CASE j \in DOMAIN sent
      BY <2>1, <3>1, <3>2, <1>5 DEF Sound, SentRises
    <3>3. CASE j \notin DOMAIN sent
      BY <3>1, <3>3, <1>5, <1>6
    <3> QED
      BY <3>2, <3>3, <1>5
  <2>2. \A i \in DOMAIN sent' : sent'[i] <= count'.given
    BY <1>1, <1>5, <1>6 DEF Sound, SentRises
  <2> QED
    BY <2>1, <2>2 DEF SentRises
<1>9. QueueRises'
  <2>1. ASSUME NEW k \in DOMAIN queue, queue[k] # Release, NEW i \in DOMAIN sent'
        PROVE  sent'[i] < queue[k]
    BY <2>1, <1>4, <1>5 DEF Sound, QueueRises
  <2> QED
    BY <2>1, <1>1 DEF Sound, QueueRises
<1>10. StackTypeOK' /\ OneHolder' /\ ComesBack'
  BY <1>1, <1>3, TurnType, KeepsHolder, KeepsComing
<1>11. IdIsGone'
  BY <1>1, <1>3, Apart, KeepsGone DEF InHand
<1>12. PutIsNew'
  <2>1. ASSUME NEW u \in Threads
        PROVE  stack'[u] \notin Looking \cup Putting
    <3>1. CASE u = t
      BY <3>1, <1>3, Apart
    <3>2. CASE u # t
      <4>1. t \in Holders
        BY <1>3 DEF Holders
      <4>2. u \notin Holders
        BY <4>1, <3>2 DEF Sound, OneHolder
      <4> QED
        BY <4>2, <3>2, <1>3 DEF Holders, Moves, InHand
    <3> QED
      BY <3>1, <3>2
  <2> QED
    BY <2>1, <1>1, <1>6 DEF PutIsNew
<1> QED
  BY <1>7, <1>8, <1>9, <1>10, <1>11, <1>12 DEF Sound

(* When a thread frees the message, or the registration is another one, and*)
(* nobody crashes, then no other thread was at a message or at the end.    *)
LEMMA NotOvertaken ==
  ASSUME NEW t \in Threads, Overtakes(t), ~crash', NEW u \in Threads \ {t}
  PROVE  stack[u] \notin InHand \cup Releasing \cup Stopping
BY Uses DEF Overtakes, Using

LEMMA FreeCurPutMsgInv ==
  ASSUME Sound, NEW t \in Threads, FreeCurPutMsg(t), ~crash'
  PROVE  Sound'
<1>1. /\ At(t, "free") /\ Do(t, <<>>) /\ cur' = <<>> /\ Overtakes(t)
      /\ UNCHANGED <<queue, appl, pice, sent, count>>
  BY DEF FreeCurPutMsg
<1>2. /\ Moves(t)
      /\ \/ stack[t] \in Dropping /\ stack'[t] \in Resting
         \/ /\ stack[t] \in AfterPut \cup AfterPutInLoop
            /\ stack'[t] \in AtQueue \cup Releasing
         \/ stack[t] \in Ending /\ stack'[t] \in Ending
  BY <1>1, DoFacts, FreeTurn DEF Moves
<1>3. stack[t] \in Dropping \cup Ending => ~appl
  BY EndsWithoutId DEF Sound, IdIsGone
<1>4. stack'[t] \notin InHand \cup Stopping /\ (stack'[t] \in Ending => ~appl)
  BY <1>2, <1>3, Apart
<1>5. \A u \in Threads : stack'[u] \notin InHand
  BY <1>1, <1>2, <1>4, NotOvertaken DEF Moves
<1>6. Holders' = {}
  BY <1>5 DEF Holders
<1>7. OneHolder'
  BY <1>1, <1>6 DEF OneHolder
<1>8. StackTypeOK' /\ ComesBack'
  BY <1>1, <1>2, <1>3, TurnType, KeepsComing
<1>9. IdIsGone'
  BY <1>1, <1>2, <1>4, KeepsGone DEF InHand
<1>10. PutIsNew'
  BY <1>1, <1>5 DEF PutIsNew, InHand
<1>11. QueueTypeOK' /\ SentRises' /\ QueueRises'
  BY <1>1 DEF Sound, QueueTypeOK, SentRises, QueueRises
<1> QED
  BY <1>7, <1>8, <1>9, <1>10, <1>11 DEF Sound

-----------------------------------------------------------------------------
(* The end of a registration and the next one                              *)

LEMMA TakesIdInv ==
  ASSUME Sound, NEW t \in Threads, TakesId(t), ~crash'
  PROVE  Sound'
<1>1. /\ At(t, "release") /\ Do(t, <<"stop">>) /\ ~appl'
      /\ UNCHANGED <<queue, cur, pice, sent, count>>
  BY DEF TakesId, Crash
<1>2. Moves(t) /\ stack[t] \in Releasing /\ stack'[t] \in Stopping
  BY <1>1, DoFacts, ReleaseTurn DEF Moves
<1>3. stack[t] \notin InHand /\ stack'[t] \notin InHand
  BY <1>2, Apart
<1>4. StackTypeOK' /\ OneHolder'
  BY <1>1, <1>2, <1>3, TurnType, KeepsHolder
<1>5. PutIsNew'
  BY <1>1, <1>2, <1>3, KeepsNew DEF InHand, Sound, QueueTypeOK
<1>6. IdIsGone' /\ ComesBack'
  BY <1>1 DEF IdIsGone, ComesBack
<1>7. QueueTypeOK' /\ SentRises' /\ QueueRises'
  BY <1>1 DEF Sound, QueueTypeOK, SentRises, QueueRises
<1> QED
  BY <1>4, <1>5, <1>6, <1>7 DEF Sound

LEMMA StopsThreadInv ==
  ASSUME Sound, NEW t \in Threads, StopsThread(t), ~crash'
  PROVE  Sound'
<1>1. /\ At(t, "stop") /\ Do(t, <<>>)
      /\ UNCHANGED <<queue, cur, appl, sent, count>>
  BY DEF StopsThread, Crash
<1>2. Moves(t) /\ stack[t] \in Stopping /\ stack'[t] \in Resting
  BY <1>1, DoFacts, StopTurn DEF Moves
<1>3. /\ ~appl /\ stack[t] \notin InHand
      /\ stack'[t] \notin InHand
  BY <1>2, Apart DEF Sound, IdIsGone
<1>4. StackTypeOK' /\ OneHolder'
  BY <1>1, <1>2, <1>3, TurnType, KeepsHolder
<1>5. PutIsNew'
  BY <1>1, <1>2, <1>3, KeepsNew DEF InHand, Sound, QueueTypeOK
<1>6. IdIsGone' /\ ComesBack'
  BY <1>1, <1>3 DEF IdIsGone, ComesBack
<1>7. pice' \in [live : BOOLEAN, stop : BOOLEAN, bogus : BOOLEAN]
  <2>1. pice' = [pice EXCEPT !.stop = TRUE] /\ pice \in [live : BOOLEAN, stop : BOOLEAN, bogus : BOOLEAN]
    BY DEF StopsThread, Crash, Sound, QueueTypeOK
  <2> QED
    BY <2>1
<1>8. QueueTypeOK' /\ SentRises' /\ QueueRises'
  BY <1>1, <1>7 DEF Sound, QueueTypeOK, SentRises, QueueRises
<1> QED
  BY <1>4, <1>5, <1>6, <1>8 DEF Sound

LEMMA StepInv ==
  ASSUME Sound, NEW t \in Threads, Step(t), ~crash'
  PROVE  Sound'
BY InQueueInv, FreeQueueInv, QueuesReleaseInv, BeginWriteInv, OutQueueInv,
   LooksAtMessageInv, PutMessageInv, FreeCurPutMsgInv, TakesIdInv, StopsThreadInv DEF Step

(* A thread that had nothing in hand takes up a request.                   *)
LEMMA AsksInv ==
  ASSUME Sound, NEW t \in Threads,
         stack[t] \in Resting \cup Ending, stack'[t] \in AtQueue,
         stack' \in [Threads -> Work \cup ThreadWork],
         t = Capi => stack'[t] \in ThreadWork, t # Capi => stack'[t] \in Work,
         \A u \in Threads \ {t} : stack'[u] = stack[u],
         UNCHANGED <<queue, cur, sent, appl, pice>>,
         count' \in [puts : Nat, given : Nat, regs : Nat, sigs : Nat],
         count'.given = count.given
  PROVE  Sound'
<1>1. stack[t] \notin InHand /\ stack'[t] \notin InHand
  BY Apart
<1>2. StackTypeOK'
  <2>1. Capi \in Threads
    BY DEF Threads
  <2>2. stack'[Capi] \in ThreadWork
    BY <2>1 DEF Sound, StackTypeOK
  <2>3. \A u \in Threads \ {Capi} : stack'[u] \in Work
    BY DEF Sound, StackTypeOK
  <2> QED
    BY <2>2, <2>3 DEF StackTypeOK
<1>3. Holders' = Holders
  BY <1>1 DEF Holders
<1>4. OneHolder'
  BY <1>3 DEF Sound, OneHolder
<1>5. PutIsNew'
  BY <1>1 DEF Sound, PutIsNew, InHand
<1>6. IdIsGone'
  <2>1. stack'[t] \notin Dropping \cup Stopping \cup Ending
    BY <1>1, Apart DEF InHand
  <2> QED
    BY <2>1 DEF Sound, IdIsGone, Threads
<1>7. ComesBack'
  BY Empties DEF ComesBack, Emptying
<1>8. QueueTypeOK' /\ SentRises' /\ QueueRises'
  BY DEF Sound, QueueTypeOK, SentRises, QueueRises
<1> QED
  BY <1>2, <1>4, <1>5, <1>6, <1>7, <1>8 DEF Sound

(* A thread that stays without one, and away from the queue.               *)
LEMMA RestsInv ==
  ASSUME Sound, NEW t \in Threads,
         stack[t] \in Resting \cup Ending, stack'[t] \in Resting \cup Ending,
         stack'[t] \in Ending => ~appl,
         stack' \in [Threads -> Work \cup ThreadWork],
         t = Capi => stack'[t] \in ThreadWork, t # Capi => stack'[t] \in Work,
         \A u \in Threads \ {t} : stack'[u] = stack[u],
         stack[t] \in Ending => ~appl,
         UNCHANGED <<queue, cur, sent, appl, count>>,
         pice' \in [live : BOOLEAN, stop : BOOLEAN, bogus : BOOLEAN],
         pice'.stop => ~appl
  PROVE  Sound'
<1>1. stack[t] \notin InHand /\ stack'[t] \notin InHand
  BY Apart
<1>2. StackTypeOK'
  <2>1. Capi \in Threads
    BY DEF Threads
  <2>2. stack'[Capi] \in ThreadWork
    BY <2>1 DEF Sound, StackTypeOK
  <2>3. \A u \in Threads \ {Capi} : stack'[u] \in Work
    BY DEF Sound, StackTypeOK
  <2> QED
    BY <2>2, <2>3 DEF StackTypeOK
<1>3. Holders' = Holders
  BY <1>1 DEF Holders
<1>4. OneHolder'
  BY <1>3 DEF Sound, OneHolder
<1>5. PutIsNew'
  BY <1>1 DEF Sound, PutIsNew, InHand
<1>6. IdIsGone'
  <2>1. stack'[t] \notin Dropping \cup Stopping
    BY <1>1, Apart DEF InHand
  <2> QED
    BY <2>1 DEF Sound, IdIsGone, Threads
<1>7. ComesBack'
  <2>1. CASE stack[t] \in Ending
    BY <2>1 DEF ComesBack
  <2>2. CASE stack[t] \in Resting
    <3>1. ~Emptying(t)
      BY <2>2 DEF Resting, Emptying
    <3> QED
      BY <3>1 DEF Sound, ComesBack, Emptying
  <2> QED
    BY <2>1, <2>2
<1>8. QueueTypeOK' /\ SentRises' /\ QueueRises'
  BY DEF Sound, QueueTypeOK, SentRises, QueueRises
<1> QED
  BY <1>2, <1>4, <1>5, <1>6, <1>7, <1>8 DEF Sound

LEMMA RegistersInv ==
  ASSUME Sound, Registers, ~crash'
  PROVE  Sound'
<1>1. /\ stack[Capi] = <<>> /\ queue' = <<>> /\ cur' = <<>> /\ sent' = sent
      /\ count' = [count EXCEPT !.regs = @ + 1]
      /\ \E bogus \in BOOLEAN : pice' = [live |-> TRUE, stop |-> FALSE, bogus |-> bogus]
      /\ stack' = [stack EXCEPT ![Capi] = <<"start">>]
      /\ Overtakes(Capi)
  BY DEF Registers
<1>2. Capi \in Threads
  BY DEF Threads
<1>3. /\ stack'[Capi] = <<"start">> /\ stack' \in [Threads -> Work \cup ThreadWork]
      /\ stack'[Capi] \in Resting
      /\ \A u \in Threads \ {Capi} : stack'[u] = stack[u]
  BY <1>1, <1>2, Kinds DEF Sound, StackTypeOK, Resting
<1>4. \A u \in Threads : stack'[u] \notin InHand \cup Releasing \cup Stopping
  <2>1. \A s \in Resting : s \notin InHand \cup Stopping \cup Releasing
    BY Apart DEF Resting, Releasing
  <2> QED
    BY <1>1, <1>2, <1>3, <2>1, NotOvertaken
<1>5. StackTypeOK'
  BY <1>3, Kinds DEF Sound, StackTypeOK
<1>6. count' \in [puts : Nat, given : Nat, regs : Nat, sigs : Nat] /\ count'.given = count.given
  <2>1. count \in [puts : Nat, given : Nat, regs : Nat, sigs : Nat]
    BY DEF Sound, QueueTypeOK
  <2>2. count' = [count EXCEPT !.regs = count.regs + 1]
    BY <1>1
  <2> QED
    BY <2>1, <2>2
<1>7. QueueTypeOK'
  BY <1>1, <1>6 DEF Sound, QueueTypeOK
<1>8. OneHolder'
  BY <1>1, <1>4 DEF OneHolder, Holders
<1>9. SentRises' /\ QueueRises'
  BY <1>1, <1>6 DEF Sound, SentRises, QueueRises
<1>10. PutIsNew'
  BY <1>1, <1>4 DEF PutIsNew, InHand
<1>11. IdIsGone'
  <2>1. stack'[Capi] \notin Ending
    BY <1>3, Apart
  <2> QED
    BY <2>1, <1>1, <1>4 DEF IdIsGone, InHand
<1>12. ComesBack'
  BY <1>1 DEF ComesBack
<1> QED
  BY <1>5, <1>7, <1>8, <1>9, <1>10, <1>11, <1>12 DEF Sound

(* What the thread of the registration goes on with, when it is at one of  *)
(* its own statements.                                                     *)
LEMMA OwnTurn ==
  /\ Tail(<<"start">>) = <<>> /\ Tail(<<"loop">>) = <<>> /\ Tail(<<"released">>) = <<>>
  /\ Tail(<<"complete">>) = <<>>
  /\ \A s \in ThreadWork : s # <<>> /\ Head(s) \in {"start", "loop", "released", "complete"} =>
       s = <<Head(s)>>
<1>1. /\ Tail(<<"start">>) = <<>> /\ Tail(<<"loop">>) = <<>>
      /\ Tail(<<"released">>) = <<>> /\ Tail(<<"complete">>) = <<>>
  OBVIOUS
<1>2. ASSUME NEW s \in ThreadWork, s # <<>>, Head(s) \in {"start", "loop", "released", "complete"}
      PROVE  s \in {<<"start">>, <<"loop">>, <<"released">>, <<"complete">>}
  BY <1>2 DEF ThreadWork, AskingInLoop, OneStepInLoop, AfterPutInLoop, Ending, Resting
<1> QED
  BY <1>1, <1>2

LEMMA OwnFacts ==
  ASSUME Sound, NEW label \in {"start", "loop", "released", "complete"}, At(Capi, label),
         NEW l, l \in AskingInLoop \cup Resting \cup Ending, Do(Capi, l)
  PROVE  /\ Capi \in Threads /\ stack[Capi] = <<label>>
         /\ stack'[Capi] = l /\ stack' \in [Threads -> Work \cup ThreadWork]
         /\ l \in ThreadWork
         /\ \A u \in Threads \ {Capi} : stack'[u] = stack[u]
<1>1. Capi \in Threads
  BY DEF Threads
<1>2. l \in ThreadWork
  BY Kinds
<1>3. stack[Capi] = <<label>>
  BY <1>1, OwnTurn DEF At, Sound, StackTypeOK
<1>4. Tail(stack[Capi]) = <<>>
  BY <1>3, OwnTurn
<1>5. l \o <<>> = l
  BY ConcatEmptySeq, <1>2 DEF ThreadWork, AskingInLoop, OneStepInLoop, AfterPutInLoop,
     Ending, Resting
<1>6. stack' = [stack EXCEPT ![Capi] = l]
  BY <1>4, <1>5 DEF Do
<1> QED
  BY <1>1, <1>2, <1>3, <1>6 DEF Sound, StackTypeOK

LEMMA RegisterCompleteInv ==
  ASSUME Sound, RegisterComplete
  PROVE  Sound'
<1>1. /\ At(Capi, "start") /\ UNCHANGED <<queue, cur, appl, pice, sent, count>>
      /\ Do(Capi, <<"loop">>) \/ Do(Capi, <<"flush", "mark", "empty", "loop">>)
  BY DEF RegisterComplete
<1>2. <<"start">> \in Resting /\ <<"loop">> \in Resting
      /\ <<"flush", "mark", "empty", "loop">> \in AskingInLoop
  BY DEF Resting, AskingInLoop
<1>3. Sound => /\ count \in [puts : Nat, given : Nat, regs : Nat, sigs : Nat]
               /\ pice \in [live : BOOLEAN, stop : BOOLEAN, bogus : BOOLEAN]
               /\ pice.stop => ~appl
  BY DEF Sound, QueueTypeOK, IdIsGone
<1>4. CASE Do(Capi, <<"loop">>)
  <2>1. /\ Capi \in Threads /\ stack[Capi] \in Resting /\ stack'[Capi] \in Resting
        /\ stack' \in [Threads -> Work \cup ThreadWork] /\ stack'[Capi] \in ThreadWork
        /\ \A u \in Threads \ {Capi} : stack'[u] = stack[u]
    BY <1>1, <1>2, <1>4, OwnFacts
  <2>2. stack[Capi] \notin Ending /\ stack'[Capi] \notin Ending
    BY <2>1, Apart
  <2> QED
    BY <1>1, <1>3, <2>1, <2>2, RestsInv
<1>5. CASE Do(Capi, <<"flush", "mark", "empty", "loop">>)
  <2>1. /\ Capi \in Threads /\ stack[Capi] \in Resting /\ stack'[Capi] \in AtQueue
        /\ stack' \in [Threads -> Work \cup ThreadWork] /\ stack'[Capi] \in ThreadWork
        /\ \A u \in Threads \ {Capi} : stack'[u] = stack[u]
    BY <1>1, <1>2, <1>5, OwnFacts, Kinds
  <2> QED
    BY <1>1, <1>3, <2>1, AsksInv
<1> QED
  BY <1>1, <1>4, <1>5

LEMMA GetMessageInv ==
  ASSUME Sound, GetMessage
  PROVE  Sound'
<1>1. /\ At(Capi, "loop") /\ UNCHANGED <<queue, cur, appl, pice, sent>>
      /\ \/ Do(Capi, <<"alloc", "empty", "loop">>)
         \/ Do(Capi, <<"flush", "mark", "empty", "loop">>)
  BY DEF GetMessage
<1>2. count' = count \/ count' = [count EXCEPT !.puts = count.puts + 1]
  BY DEF GetMessage
<1>3. /\ count' \in [puts : Nat, given : Nat, regs : Nat, sigs : Nat]
      /\ count'.given = count.given
  <2>1. count \in [puts : Nat, given : Nat, regs : Nat, sigs : Nat]
    BY DEF Sound, QueueTypeOK
  <2> QED
    BY <2>1, <1>2
<1>4. PICK l \in AskingInLoop : Do(Capi, l)
  BY <1>1 DEF AskingInLoop
<1>5. <<"loop">> \in Resting
  BY DEF Resting
<1>6. /\ Capi \in Threads /\ stack[Capi] \in Resting /\ stack'[Capi] \in AtQueue
      /\ stack' \in [Threads -> Work \cup ThreadWork] /\ stack'[Capi] \in ThreadWork
      /\ \A u \in Threads \ {Capi} : stack'[u] = stack[u]
  BY <1>1, <1>4, <1>5, OwnFacts, Kinds
<1> QED
  BY <1>1, <1>3, <1>6, AsksInv

LEMMA ThreadEndsInv ==
  ASSUME Sound, ThreadEnds
  PROVE  Sound'
<1>1. /\ At(Capi, "loop") /\ pice.stop /\ pice' = NoPice /\ Do(Capi, <<"released">>)
      /\ UNCHANGED <<queue, cur, appl, sent, count>>
  BY DEF ThreadEnds
<1>2. <<"loop">> \in Resting /\ <<"released">> \in Ending
  BY DEF Resting, Ending
<1>3. ~appl
  BY <1>1 DEF Sound, IdIsGone
<1>4. /\ Capi \in Threads /\ stack[Capi] \in Resting /\ stack'[Capi] \in Ending
      /\ stack' \in [Threads -> Work \cup ThreadWork] /\ stack'[Capi] \in ThreadWork
      /\ \A u \in Threads \ {Capi} : stack'[u] = stack[u]
  BY <1>1, <1>2, OwnFacts
<1>5. pice' \in [live : BOOLEAN, stop : BOOLEAN, bogus : BOOLEAN]
  BY <1>1 DEF NoPice
<1> QED
  BY <1>1, <1>3, <1>4, <1>5, RestsInv

LEMMA ReleaseCompleteInv ==
  ASSUME Sound, ReleaseComplete
  PROVE  Sound'
<1>1. /\ At(Capi, "released") /\ Do(Capi, <<"flush", "free", "complete">>)
      /\ UNCHANGED <<queue, cur, appl, pice, sent, count>>
  BY DEF ReleaseComplete
<1>2. <<"released">> \in Ending /\ <<"flush", "free", "complete">> \in Ending
  BY DEF Ending
<1>3. /\ Capi \in Threads /\ stack[Capi] \in Ending /\ stack'[Capi] \in Ending
      /\ stack' \in [Threads -> Work \cup ThreadWork] /\ stack'[Capi] \in ThreadWork
      /\ \A u \in Threads \ {Capi} : stack'[u] = stack[u]
  BY <1>1, <1>2, OwnFacts
<1>4. ~appl /\ pice \in [live : BOOLEAN, stop : BOOLEAN, bogus : BOOLEAN]
  BY <1>3 DEF Sound, IdIsGone, QueueTypeOK
<1> QED
  BY <1>1, <1>3, <1>4, RestsInv

LEMMA RELEASE_COMPLETEInv ==
  ASSUME Sound, RELEASE_COMPLETE
  PROVE  Sound'
<1>1. /\ At(Capi, "complete") /\ Do(Capi, <<>>)
      /\ UNCHANGED <<queue, cur, appl, pice, sent, count>>
  BY DEF RELEASE_COMPLETE
<1>2. <<"complete">> \in Ending /\ <<>> \in Resting
  BY DEF Ending, Resting
<1>3. /\ Capi \in Threads /\ stack[Capi] \in Ending /\ stack'[Capi] \in Resting
      /\ stack' \in [Threads -> Work \cup ThreadWork] /\ stack'[Capi] \in ThreadWork
      /\ \A u \in Threads \ {Capi} : stack'[u] = stack[u]
  BY <1>1, <1>2, OwnFacts
<1>4. ~appl /\ pice \in [live : BOOLEAN, stop : BOOLEAN, bogus : BOOLEAN]
  BY <1>3 DEF Sound, IdIsGone, QueueTypeOK
<1> QED
  BY <1>1, <1>3, <1>4, RestsInv

-----------------------------------------------------------------------------
(* Requests of the application and of the timers                           *)

(* A thread that is between two calls, or the handler.                     *)
LEMMA RequestInv ==
  ASSUME Sound, NEW t \in Threads \ {Capi}, stack[t] = <<>>,
         NEW l \in Asking, stack' = [stack EXCEPT ![t] = l],
         UNCHANGED <<queue, cur, sent, appl, pice>>,
         count' \in [puts : Nat, given : Nat, regs : Nat, sigs : Nat],
         count'.given = count.given
  PROVE  Sound'
<1>1. /\ stack'[t] = l /\ stack' \in [Threads -> Work \cup ThreadWork]
      /\ \A u \in Threads \ {t} : stack'[u] = stack[u]
  BY Kinds DEF Sound, StackTypeOK
<1>2. stack[t] \in Resting /\ stack'[t] \in AtQueue /\ stack'[t] \in Work
  BY <1>1, Kinds DEF Resting
<1> QED
  BY <1>1, <1>2, AsksInv

LEMMA AsksForPutInv ==
  ASSUME Sound, NEW t \in Users, AsksForPut(t)
  PROVE  Sound'
<1>1. /\ stack[t] = <<>> /\ stack' = [stack EXCEPT ![t] = <<"alloc", "empty">>]
      /\ UNCHANGED <<queue, cur, sent, appl, pice>>
  BY DEF AsksForPut, Idle
<1>2. t \in Threads \ {Capi} /\ <<"alloc", "empty">> \in Asking
  BY PutQueueAssumption DEF Threads, Asking
<1>3. /\ count' \in [puts : Nat, given : Nat, regs : Nat, sigs : Nat]
      /\ count'.given = count.given
  <2>1. count \in [puts : Nat, given : Nat, regs : Nat, sigs : Nat]
    BY DEF Sound, QueueTypeOK
  <2>2. count' = [count EXCEPT !.puts = count.puts + 1]
    BY DEF AsksForPut
  <2> QED
    BY <2>1, <2>2
<1> QED
  BY <1>1, <1>2, <1>3, RequestInv

LEMMA AsksForReleaseInv ==
  ASSUME Sound, NEW t \in Users, AsksForRelease(t)
  PROVE  Sound'
<1>1. /\ stack[t] = <<>> /\ stack' = [stack EXCEPT ![t] = <<"flush", "mark", "empty">>]
      /\ UNCHANGED <<queue, cur, sent, appl, pice, count>>
  BY DEF AsksForRelease, Idle
<1>2. t \in Threads \ {Capi} /\ <<"flush", "mark", "empty">> \in Asking
  BY PutQueueAssumption DEF Threads, Asking
<1>3. count \in [puts : Nat, given : Nat, regs : Nat, sigs : Nat]
  BY DEF Sound, QueueTypeOK
<1> QED
  BY <1>1, <1>2, <1>3, RequestInv

LEMMA SignalArrivesInv ==
  ASSUME Sound, NEW t \in Threads, SignalArrives(t)
  PROVE  Sound'
<1>1. /\ stack[Sig] = <<>>
      /\ \E l \in {<<"alloc", "empty">>, <<"flush", "mark", "empty">>} :
           stack' = [stack EXCEPT ![Sig] = l]
      /\ UNCHANGED <<queue, cur, sent, appl, pice>>
  BY DEF SignalArrives
<1>2. Sig \in Threads \ {Capi}
  BY PutQueueAssumption DEF Threads
<1>3. PICK l \in Asking : stack' = [stack EXCEPT ![Sig] = l]
  BY <1>1 DEF Asking
<1>4. /\ count' \in [puts : Nat, given : Nat, regs : Nat, sigs : Nat]
      /\ count'.given = count.given
  <2>1. count \in [puts : Nat, given : Nat, regs : Nat, sigs : Nat]
    BY DEF Sound, QueueTypeOK
  <2>2. \/ count' = [count EXCEPT !.sigs = count.sigs + 1, !.puts = count.puts + 1]
        \/ count' = [count EXCEPT !.sigs = count.sigs + 1]
    BY DEF SignalArrives
  <2>3. CASE count' = [count EXCEPT !.sigs = count.sigs + 1, !.puts = count.puts + 1]
    <3>1. count.sigs + 1 \in Nat /\ count.puts + 1 \in Nat
      BY <2>1
    <3>2. PICK m \in Nat, n \in Nat : count' = [count EXCEPT !.sigs = m, !.puts = n]
      BY <2>3, <3>1
    <3> QED
      BY <2>1, <3>2
  <2>4. CASE count' = [count EXCEPT !.sigs = count.sigs + 1]
    BY <2>1, <2>4
  <2> QED
    BY <2>2, <2>3, <2>4
<1> QED
  BY <1>1, <1>2, <1>3, <1>4, RequestInv

-----------------------------------------------------------------------------
(* The theorems                                                            *)

LEMMA InitInv == Init => IInv
<1> SUFFICES ASSUME Init PROVE Sound
  BY DEF IInv
<1>1. /\ queue = <<>> /\ cur = <<>> /\ ~appl /\ pice = NoPice /\ sent = <<>>
      /\ count = [puts |-> 0, given |-> 0, regs |-> 0, sigs |-> 0]
  BY DEF Init
<1>2. stack = [t \in Threads |-> <<>>] /\ <<>> \in Resting
  BY DEF Init, Resting
<1>3. QueueTypeOK /\ SentRises /\ QueueRises
  BY <1>1 DEF QueueTypeOK, SentRises, QueueRises, NoPice
<1>4. Capi \in Threads
  BY DEF Threads
<1>5. StackTypeOK
  BY <1>2, <1>4, Kinds DEF StackTypeOK
<1>6. \A t \in Threads : stack[t] \notin InHand \cup Stopping \cup Ending
  BY <1>2, Apart
<1>7. Holders = {}
  BY <1>6 DEF Holders
<1>8. OneHolder /\ PutIsNew /\ IdIsGone /\ ComesBack
  BY <1>1, <1>4, <1>6, <1>7 DEF OneHolder, PutIsNew, IdIsGone, ComesBack, NoPice, InHand
<1> QED
  BY <1>3, <1>5, <1>8 DEF Sound

LEMMA StutterInv ==
  ASSUME Sound, UNCHANGED <<queue, cur, appl, pice, stack, sent, count>>
  PROVE  Sound'
BY DEF Sound, QueueTypeOK, StackTypeOK, OneHolder, Holders, SentRises, QueueRises,
       PutIsNew, IdIsGone, ComesBack, Emptying

LEMMA NextInv ==
  ASSUME IInv, [Next]_vars
  PROVE  IInv'
<1> SUFFICES ASSUME ~crash' PROVE Sound'
  BY DEF IInv
<1>1. CASE UNCHANGED vars
  BY <1>1, StutterInv DEF vars, IInv
<1>2. CASE Next
  <2>1. ~crash
    BY <1>2 DEF Next, AsksForPut, AsksForRelease, SignalArrives, SignalReturns,
       Registers,
       CapiStep, RegisterComplete, GetMessage, ThreadEnds, ReleaseComplete, RELEASE_COMPLETE,
       Step, InQueue, FreeQueue, QueuesRelease, BeginWrite, OutQueue, LooksAtMessage,
       PutMessage, FreeCurPutMsg, TakesId, StopsThread, At, Idle
  <2>2. Sound
    BY <2>1 DEF IInv
  <2>3. CASE \E t \in Users : AsksForPut(t) \/ AsksForRelease(t)
    BY <2>2, <2>3, AsksForPutInv, AsksForReleaseInv
  <2>4. CASE \E t \in Threads : SignalArrives(t)
    BY <2>2, <2>4, SignalArrivesInv
  <2>5. CASE SignalReturns
    BY <2>2, <2>5, StutterInv DEF SignalReturns
  <2>6. CASE Registers
    BY <2>2, <2>6, RegistersInv
  <2>7. CASE CapiStep
    BY <2>2, <2>7, RegisterCompleteInv, GetMessageInv, ThreadEndsInv,
       ReleaseCompleteInv,
       RELEASE_COMPLETEInv DEF CapiStep
  <2>8. CASE \E t \in Threads : Step(t)
    BY <2>2, <2>8, StepInv
  <2> QED
    BY <1>2, <2>3, <2>4, <2>5, <2>6, <2>7, <2>8 DEF Next
<1> QED
  BY <1>1, <1>2

LEMMA SpecInv == Spec => []IInv
<1>1. Init => IInv
  BY InitInv
<1>2. IInv /\ [Next]_vars => IInv'
  BY NextInv
<1> QED
  BY <1>1, <1>2, PTL DEF Spec

(* However many threads put, release and are interrupted: the messages that*)
(* CAPI gets are in the order in which they were queued, and none comes    *)
(* twice, unless a registration ends under a thread that still uses it.    *)
THEOREM PutsAreInOrder == Spec => []PutsInOrder
<1>1. IInv => PutsInOrder
  BY DEF IInv, Sound, SentRises, PutsInOrder
<1> QED
  BY <1>1, SpecInv, PTL

(* No message stays in the queue, or as the current one, while the id is   *)
(* valid and no thread is there that will come back to the queue, though   *)
(* every thread looks for messages only before the one in its hands is     *)
(* freed or after.                                                         *)
THEOREM NothingStaysBehind == Spec => []NothingLeftBehind
<1>1. ASSUME IInv
      PROVE  NothingLeftBehind
  <2> SUFFICES ASSUME appl, ~crash, queue # <<>> \/ cur # <<>>
               PROVE  \E t \in Threads : Emptying(t)
    BY DEF NothingLeftBehind
  <2>1. Sound
    BY <1>1 DEF IInv
  <2>2. CASE queue # <<>>
    BY <2>1, <2>2 DEF Sound, ComesBack
  <2>3. CASE cur # <<>>
    <3>1. PICK t \in Threads : stack[t] \in InHand
      BY <2>1, <2>3 DEF Sound, OneHolder, Holders
    <3>2. Emptying(t)
      BY <3>1, Empties DEF Emptying
    <3> QED
      BY <3>2
  <2> QED
    BY <2>2, <2>3
<1> QED
  BY <1>1, SpecInv, PTL
=============================================================================
